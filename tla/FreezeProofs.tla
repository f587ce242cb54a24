----------------------------- MODULE FreezeProofs -----------------------------
(***************************************************************************)
(* Freeze: what holds while the caller changes code and after it returned, *)
(* proved for any threads, helpers and children of the application.        *)
(*                                                                         *)
(* A step of the caller touches no thread, a step of a helper not the      *)
(* caller; the lemmas follow that split.                                   *)
(***************************************************************************)
EXTENDS Freeze, TLAPS

Tracing == {"attach", "waitTid", "stopped", "detach"}

(* How far the caller and its helper are apart.                            *)
InStep ==
  /\ caller.pc = "idle" => caller.helper = NULL
  /\ caller.pc \in {"waitStop", "resume", "wait"} => caller.helper # NULL
  /\ caller.helper # NULL =>
       /\ caller.pc = "waitStop" => helper[caller.helper] \in {"attach", "waitTid", "stopped", "zombie"}
       /\ caller.pc \in {"patch", "resume"} => helper[caller.helper] \in {"stopped", "zombie", "reaped"}
       /\ caller.pc = "wait" => helper[caller.helper] \in {"detach", "zombie", "reaped"}
       /\ caller.pc \in {"waitStop", "patch"} /\ helper[caller.helper] \in {"zombie", "reaped"} => killed

(* As long as wait(NULL) has not reaped anything else, no earlier helper   *)
(* is left.                                                                *)
Alone ==
  ~stolen => \A h \in Helpers : h # caller.helper => helper[h] \in {"unborn", "reaped"}

(* Only a helper that has not ended holds threads; where waitpid waits and *)
(* no helper was killed, a thread that is not held has no SIGSTOP to come. *)
Holders ==
  /\ \A x \in Tids :
       /\ tracer[x] # NULL => helper[tracer[x]] \in Tracing /\ run[x] # "unborn"
       /\ waits /\ ~killed /\ tracer[x] = NULL => run[x] \in {"unborn", "running"}
  /\ halted => killed \/ ~waits

(* Until the code is changed the helper holds what it has been through,    *)
(* but for what it missed.                                                 *)
Passed ==
  \A h \in Helpers :
    /\ ~stolen /\ caller.pc \in {"waitStop", "patch"}
         /\ helper[h] \in {"attach", "waitTid", "stopped"} =>
         \A x \in Listed \ (todo[h] \cup caller.missed) : tracer[x] = h
    /\ helper[h] = "stopped" => todo[h] = {}

(* In between two threads all a helper holds has stopped, and it goes      *)
(* through all of that when it lets go.                                    *)
Attached ==
  waits => \A h \in Helpers, x \in Tids :
    tracer[x] = h =>
      /\ helper[h] \in {"attach", "stopped", "detach"} => run[x] = "stopped"
      /\ helper[h] = "detach" => x \in todo[h]

IInv == TypeOK /\ InStep /\ Alone /\ Holders /\ Passed /\ Attached

-----------------------------------------------------------------------------
LEMMA InitIInv == Init => IInv
<1> SUFFICES ASSUME Init PROVE IInv
  OBVIOUS
<1> USE FreezeAssumption DEF Init, Idle
<1>1. TypeOK
  BY DEF TypeOK
<1>2. InStep /\ Alone
  BY DEF InStep, Alone
<1>3. Holders
  BY DEF Holders
<1>4. Passed /\ Attached
  BY DEF Passed, Attached
<1> QED BY <1>1, <1>2, <1>3, <1>4 DEF IInv

(* A new engine call.                                                      *)
LEMMA ForkKeeps ==
  ASSUME IInv, NEW x \in Tids, NEW op \in Ops, NEW h \in Helpers, Fork(x, op, h)
  PROVE  IInv'
<1> USE FreezeAssumption DEF IInv, Fork, Calls, Kernel
<1>1. helper[h] = "unborn" /\ h # NULL /\ caller.helper = NULL
  BY DEF InStep
<1>2. Listed \subseteq Tids /\ Listed' = Listed
  BY DEF Listed, Present
<1>3. TypeOK'
  BY <1>2 DEF TypeOK
<1>4. InStep'
  BY <1>1 DEF InStep, TypeOK
<1>5. Alone'
  BY <1>1 DEF Alone, TypeOK
<1>6. \A y \in Tids : tracer[y] # h
  BY <1>1 DEF Holders, TypeOK, Tracing
<1>7. Holders'
  BY <1>6 DEF Holders, TypeOK
<1>8. Passed'
  <2>1. ~stolen => \A g \in Helpers \ {h} : helper'[g] \in {"unborn", "reaped"}
    BY <1>1 DEF Alone, TypeOK
  <2>2. helper'[h] = "attach" /\ todo'[h] = Listed
    BY DEF TypeOK
  <2>3. \A g \in Helpers \ {h} : helper'[g] = helper[g] /\ todo'[g] = todo[g]
    BY DEF TypeOK
  <2> QED BY <1>2, <2>1, <2>2, <2>3 DEF Passed
<1>9. Attached'
  BY <1>6 DEF Attached, TypeOK
<1> QED BY <1>3, <1>4, <1>5, <1>7, <1>8, <1>9

LEMMA NoForkKeeps ==
  ASSUME IInv, NEW x \in Tids, NEW op \in Ops, NoFork(x, op)
  PROVE  IInv'
<1> USE FreezeAssumption DEF IInv, NoFork, Calls, Kernel
<1>1. TypeOK' BY DEF TypeOK
<1>2. caller.helper = NULL /\ caller'.helper = NULL /\ caller'.pc = "patch"
  BY DEF InStep
<1>3. InStep' /\ Alone' BY <1>2 DEF InStep, Alone
<1>4. Holders' /\ Attached' BY DEF Holders, Attached
<1>5. Passed'
  <2>1. ~stolen => \A g \in Helpers : helper[g] \in {"unborn", "reaped"}
    BY <1>2 DEF Alone
  <2> QED BY <2>1 DEF Passed
<1> QED BY <1>1, <1>3, <1>4, <1>5

(* The caller on its way to the patch and back.                            *)
LEMMA CallerKeeps ==
  ASSUME IInv, CallerStep
  PROVE  IInv'
<1> USE FreezeAssumption DEF IInv, At, Kernel
<1>1. CASE HelperStopped
  <2> USE <1>1 DEF HelperStopped, Goto
  <2> DEFINE g == caller.helper
  <2>1. g \in Helpers /\ g # NULL /\ helper[g] \in {"stopped", "zombie"}
    BY DEF InStep, TypeOK
  <2>2. TypeOK' BY <2>1 DEF TypeOK
  <2>3. caller'.helper = g /\ caller'.pc = "patch" /\ caller'.missed = caller.missed
    BY DEF TypeOK
  <2>4. helper' = [helper EXCEPT ![g] = IF helper[g] = "zombie" THEN "reaped" ELSE helper[g]]
    OBVIOUS
  <2>5. InStep' BY <2>1, <2>3, <2>4 DEF InStep, TypeOK
  <2>6. Alone' BY <2>1, <2>3, <2>4 DEF Alone, TypeOK
  <2>7. Holders' BY <2>1, <2>4 DEF Holders, TypeOK, Tracing
  <2>8. Listed' = Listed BY DEF Listed, Present
  <2>9. Passed' BY <2>1, <2>3, <2>4, <2>8 DEF Passed, TypeOK
  <2>10. Attached' BY <2>1, <2>4 DEF Attached, TypeOK
  <2> QED BY <2>2, <2>5, <2>6, <2>7, <2>9, <2>10
<1>2. CASE Patch
  <2> USE <1>2 DEF Patch, Idle
  <2>1. TypeOK' BY DEF TypeOK
  <2>2. caller'.helper = caller.helper /\ caller'.pc \in {"idle", "resume"} BY DEF TypeOK
  <2>3. InStep' BY DEF InStep, TypeOK
  <2>4. Alone' /\ Holders' /\ Passed' /\ Attached'
    BY <2>2 DEF Alone, Holders, Passed, Attached
  <2> QED BY <2>1, <2>3, <2>4
<1>3. CASE Resume
  <2> USE <1>3 DEF Resume, Goto
  <2> DEFINE g == caller.helper
  <2>1. g \in Helpers /\ g # NULL /\ helper[g] \in {"stopped", "zombie", "reaped"}
    BY DEF InStep, TypeOK
  <2>2. caller'.helper = g /\ caller'.pc = "wait" BY DEF TypeOK
  <2>3. CASE helper[g] = "stopped"
    <3>1. /\ helper' = [helper EXCEPT ![g] = "detach"]
          /\ todo' = [todo EXCEPT ![g] = Held(g)]
      BY <2>3
    <3>2. Held(g) \subseteq Tids BY DEF Held
    <3>3. TypeOK' BY <2>1, <3>1, <3>2 DEF TypeOK
    <3>4. InStep' /\ Alone' BY <2>1, <2>2, <3>1 DEF InStep, Alone, TypeOK
    <3>5. Holders' BY <3>1 DEF Holders, TypeOK, Tracing
    <3>6. Passed' BY <2>1, <2>2, <3>1 DEF Passed, TypeOK
    <3>7. ASSUME waits, NEW k \in Helpers, NEW x \in Tids, tracer[x] = k
          PROVE  /\ helper'[k] \in {"attach", "stopped", "detach"} => run[x] = "stopped"
                 /\ helper'[k] = "detach" => x \in todo'[k]
      <4>1. CASE k = g
        BY <2>1, <2>3, <3>1, <3>7, <4>1 DEF Attached, TypeOK, Held
      <4>2. CASE k # g
        BY <2>1, <3>1, <3>7, <4>2 DEF Attached, TypeOK
      <4> QED BY <4>1, <4>2
    <3>8. Attached' BY <3>7 DEF Attached
    <3> QED BY <3>3, <3>4, <3>5, <3>6, <3>8
  <2>4. CASE helper[g] # "stopped"
    <3>1. UNCHANGED <<helper, todo>> BY <2>4
    <3>2. TypeOK' BY <3>1 DEF TypeOK
    <3>3. InStep' BY <2>1, <2>2, <2>4, <3>1 DEF InStep
    <3>4. Alone' /\ Holders' BY <2>2, <3>1 DEF Alone, Holders
    <3>5. Passed' /\ Attached' BY <2>2, <3>1 DEF Passed, Attached
    <3> QED BY <3>2, <3>3, <3>4, <3>5
  <2> QED BY <2>3, <2>4
<1>4. CASE WaitFails
  <2> USE <1>4 DEF WaitFails, Idle
  <2>1. TypeOK' BY DEF TypeOK
  <2>2. InStep' /\ Alone' BY DEF InStep, Alone
  <2>3. Holders' /\ Passed' /\ Attached' BY DEF Holders, Passed, Attached
  <2> QED BY <2>1, <2>2, <2>3
<1>5. ASSUME NEW h \in Helpers, WaitHelper(h)
      PROVE  IInv'
  <2> USE <1>5 DEF WaitHelper, Idle
  <2>1. TypeOK' BY DEF TypeOK
  <2>2. InStep' BY DEF InStep
  <2>3. Alone' BY DEF Alone, TypeOK, InStep
  <2>4. Holders' BY DEF Holders, TypeOK, Tracing
  <2>5. Passed' /\ Attached' BY DEF Passed, Attached, TypeOK
  <2> QED BY <2>1, <2>2, <2>3, <2>4, <2>5
<1>6. ASSUME NEW o \in Others, WaitOther(o)
      PROVE  IInv'
  <2> USE <1>6 DEF WaitOther, Idle
  <2>1. TypeOK' BY DEF TypeOK
  <2>2. InStep' /\ Alone' BY DEF InStep, Alone, TypeOK
  <2>3. Holders' /\ Passed' /\ Attached' BY DEF Holders, Passed, Attached, TypeOK
  <2> QED BY <2>1, <2>2, <2>3
<1> QED BY <1>1, <1>2, <1>3, <1>4, <1>5, <1>6 DEF CallerStep

(* A helper that attaches.  Alone makes it the only one: a thread it finds *)
(* held is held by itself.                                                 *)
LEMMA AttachKeeps ==
  ASSUME IInv, NEW h \in Helpers, NEW x \in Tids, Attach(h, x)
  PROVE  IInv'
<1> USE FreezeAssumption DEF IInv, Attach, Kernel
<1>1. h # NULL /\ x \in Present /\ run[x] # "unborn"
  BY DEF Present
<1>2. TypeOK' BY DEF TypeOK
<1>3. InStep' /\ Alone' BY DEF InStep, Alone, TypeOK
<1>4. Holders' BY <1>1 DEF Holders, TypeOK, Tracing
<1>5. Listed' = Listed BY <1>1 DEF Listed, Present, TypeOK
<1>6. Passed'
  <2>1. ~stolen => \A g \in Helpers \ {h} : helper[g] \in {"unborn", "reaped"}
    BY DEF Alone
  <2>2. \A g \in Helpers \ {h} : helper'[g] = helper[g] /\ todo'[g] = todo[g]
    BY DEF TypeOK
  <2>3. helper'[h] = "waitTid" /\ todo'[h] = todo[h] \ {x}
    BY DEF TypeOK
  <2>4. tracer'[x] = h /\ \A y \in Tids \ {x} : tracer'[y] = tracer[y]
    BY DEF TypeOK
  <2>5. Listed \subseteq Tids
    BY DEF Listed, Present
  <2> QED BY <1>5, <2>1, <2>2, <2>3, <2>4, <2>5 DEF Passed
<1>7. Attached' BY DEF Attached, TypeOK
<1> QED BY <1>2, <1>3, <1>4, <1>6, <1>7

LEMMA AttachFailsKeeps ==
  ASSUME IInv, NEW h \in Helpers, NEW x \in Tids, AttachFails(h, x)
  PROVE  IInv'
<1> USE FreezeAssumption DEF IInv, AttachFails, Kernel
<1>1. caller'.pc = caller.pc /\ caller'.helper = caller.helper
  BY DEF TypeOK
<1>2. TypeOK' BY DEF TypeOK
<1>3. InStep' /\ Alone' BY <1>1 DEF InStep, Alone
<1>4. Holders' BY DEF Holders
<1>5. Listed' = Listed /\ Listed \subseteq Tids BY DEF Listed, Present
<1>6. Passed'
  <2>1. ~stolen => h = caller.helper
    BY DEF Alone
  <2>2. ~stolen => tracer[x] \in {NULL, h}
    BY <2>1 DEF Alone, Holders, TypeOK, Tracing
  <2>3. ~stolen => x \in caller'.missed \/ tracer[x] = h
    BY <2>1, <2>2 DEF TypeOK
  <2>4. caller.missed \subseteq caller'.missed
    BY DEF TypeOK
  <2>5. \A g \in Helpers \ {h} : todo'[g] = todo[g]
    BY DEF TypeOK
  <2>6. todo'[h] = todo[h] \ {x} /\ helper[h] = "attach"
    BY DEF TypeOK
  <2> QED BY <1>1, <1>5, <2>3, <2>4, <2>5, <2>6 DEF Passed
<1>7. Attached' BY DEF Attached, TypeOK
<1> QED BY <1>2, <1>3, <1>4, <1>6, <1>7

LEMMA DetachKeeps ==
  ASSUME IInv, NEW h \in Helpers, NEW x \in Tids, Detach(h, x)
  PROVE  IInv'
<1> USE FreezeAssumption DEF IInv, Detach, Kernel
<1>1. h # NULL /\ helper' = helper /\ helper[h] = "detach"
  OBVIOUS
<1>2. TypeOK' BY DEF TypeOK
<1>3. InStep' /\ Alone' BY DEF InStep, Alone
<1>4. Holders' BY DEF Holders, TypeOK
<1>5. Listed' \subseteq Listed BY DEF Listed, Present, TypeOK
<1>6. \A g \in Helpers \ {h} : todo'[g] = todo[g]
  BY DEF TypeOK
<1>7. \A y \in Tids, g \in Helpers \ {h} :
        (tracer'[y] = g <=> tracer[y] = g) /\ (tracer[y] = g => run'[y] = run[y])
  BY DEF TypeOK
<1>8. Passed'
  <2>1. Listed' \subseteq Tids
    BY DEF Listed, Present
  <2> QED BY <1>1, <1>5, <1>6, <1>7, <2>1 DEF Passed
<1>9. Attached'
  <2>1. waits => tracer'[x] # h
    BY <1>1 DEF Attached, TypeOK
  <2>2. \A y \in Tids \ {x} : tracer'[y] = tracer[y] /\ run'[y] = run[y]
    BY DEF TypeOK
  <2>3. todo'[h] = todo[h] \ {x}
    BY DEF TypeOK
  <2> QED BY <1>1, <1>6, <1>7, <2>1, <2>2, <2>3 DEF Attached
<1> QED BY <1>2, <1>3, <1>4, <1>8, <1>9

(* The end of a helper lets go of its threads; only where it was killed,   *)
(* or waitpid does not wait, may one have a SIGSTOP to come.               *)
LEMMA DiesKeeps ==
  ASSUME IInv, NEW h \in Helpers, helper[h] \in Tracing, KillSelf(h) \/ Killed(h)
  PROVE  IInv'
<1> USE FreezeAssumption DEF IInv
<1>1. Dies(h) /\ killed' \in BOOLEAN /\ (killed => killed')
  <2>1. killed \in BOOLEAN
    BY DEF TypeOK
  <2>2. CASE KillSelf(h)
    BY <2>1, <2>2, Zenon DEF KillSelf
  <2>3. CASE Killed(h)
    BY <2>3, Zenon DEF Killed
  <2> QED BY <2>2, <2>3
<1>2. PICK then \in {"running", "stopping"} :
        run' = [x \in Tids |-> IF x \in Held(h) /\ run[x] = "stopped" THEN then ELSE run[x]]
  BY <1>1 DEF Dies
<1>3. /\ helper' = [helper EXCEPT ![h] = "zombie"]
      /\ todo' = [todo EXCEPT ![h] = {}]
      /\ tracer' = [x \in Tids |-> IF x \in Held(h) THEN NULL ELSE tracer[x]]
      /\ UNCHANGED <<caller, heap, child, waits, halted, stolen>>
  BY <1>1 DEF Dies
<1>4. TypeOK' BY <1>1, <1>2, <1>3 DEF TypeOK
<1>5. InStep'
  <2>1. helper[h] = "detach" \/ killed'
    BY DEF KillSelf, Killed
  <2> QED BY <1>1, <1>3, <2>1 DEF InStep, TypeOK, Tracing
<1>6. Alone' BY <1>3 DEF Alone, TypeOK, Tracing
<1>7. Holders'
  <2>1. \A x \in Tids : tracer'[x] # NULL => tracer'[x] = tracer[x] /\ tracer[x] # h
    BY <1>3 DEF Held, TypeOK
  <2>2. \A x \in Tids : tracer'[x] # NULL => helper'[tracer'[x]] \in Tracing /\ run'[x] # "unborn"
    BY <1>2, <1>3, <2>1 DEF Holders, TypeOK
  <2>3. waits /\ ~killed' => Held(h) = {}
    BY DEF KillSelf, Killed, Attached, Held
  <2>4. ASSUME waits, ~killed', NEW x \in Tids, tracer'[x] = NULL
        PROVE  run'[x] \in {"unborn", "running"}
    BY <1>1, <1>2, <1>3, <2>3, <2>4 DEF Holders, TypeOK
  <2> QED BY <1>1, <1>3, <2>2, <2>4 DEF Holders
<1>8. \A g \in Helpers \ {h} : helper'[g] = helper[g] /\ todo'[g] = todo[g]
  BY <1>3 DEF TypeOK
<1>9. \A x \in Tids, g \in Helpers \ {h} :
        (tracer'[x] = g <=> tracer[x] = g) /\ (tracer[x] = g => run'[x] = run[x])
  BY <1>2, <1>3 DEF TypeOK, Held
<1>10. helper'[h] = "zombie"
  BY <1>3 DEF TypeOK
<1>11. Passed'
  <2>1. Listed' \subseteq Listed /\ Listed \subseteq Tids
    BY <1>2 DEF Listed, Present
  <2> QED BY <1>3, <1>8, <1>9, <1>10, <2>1 DEF Passed
<1>12. Attached'
  BY <1>3, <1>8, <1>9, <1>10 DEF Attached
<1> QED BY <1>4, <1>5, <1>6, <1>7, <1>11, <1>12

LEMMA HelperKeeps ==
  ASSUME IInv, NEW h \in Helpers, HelperStep(h) \/ Killed(h)
  PROVE  IInv'
<1>1. CASE \E x \in Tids : Attach(h, x) \/ AttachFails(h, x) \/ Detach(h, x)
  BY <1>1, AttachKeeps, AttachFailsKeeps, DetachKeeps
<1>2. CASE ThreadPC(h)
  <2> USE <1>2 DEF IInv, ThreadPC, Kernel
  <2>1. TypeOK' /\ InStep' /\ Alone'
    BY DEF TypeOK, InStep, Alone
  <2>2. Holders' BY DEF Holders, TypeOK, Tracing
  <2>3. Listed' = Listed BY DEF Listed, Present
  <2>4. Passed' BY <2>3 DEF Passed, TypeOK
  <2>5. Attached' BY DEF Attached, TypeOK, Held
  <2> QED BY <2>1, <2>2, <2>4, <2>5
<1>3. CASE StopSelf(h)
  <2> USE <1>3 DEF IInv, StopSelf, Kernel
  <2>1. TypeOK' /\ InStep' /\ Alone'
    BY DEF TypeOK, InStep, Alone
  <2>2. Holders' BY DEF Holders, TypeOK, Tracing
  <2>3. Listed' = Listed BY DEF Listed, Present
  <2>4. Passed' BY <2>3 DEF Passed, TypeOK
  <2>5. Attached' BY DEF Attached, TypeOK
  <2> QED BY <2>1, <2>2, <2>4, <2>5
<1>4. CASE KillSelf(h) \/ Killed(h)
  BY <1>4, DiesKeeps DEF KillSelf, Killed, Tracing
<1> QED BY <1>1, <1>2, <1>3, <1>4 DEF HelperStep

(* The threads and the other children.                                     *)
LEMMA WorldKeeps ==
  ASSUME IInv,
         \/ \E x \in Tids : Stops(x) \/ Starts(x) \/ Malloc(x) \/ MallocReturns(x)
         \/ \E o \in Others : Exits(o)
  PROVE  IInv'
<1> USE FreezeAssumption DEF IInv
<1>1. ASSUME NEW x \in Tids, Stops(x)
      PROVE  IInv'
  <2> USE <1>1 DEF Stops
  <2>1. TypeOK' BY DEF TypeOK
  <2>2. InStep' /\ Alone' BY DEF InStep, Alone
  <2>3. Holders' BY DEF Holders, TypeOK
  <2>4. Listed' = Listed BY DEF Listed, Present, TypeOK
  <2>5. Passed' BY <2>4 DEF Passed
  <2>6. Attached' BY DEF Attached, TypeOK
  <2> QED BY <2>1, <2>2, <2>3, <2>5, <2>6
<1>2. ASSUME NEW x \in Tids, Starts(x)
      PROVE  IInv'
  <2> USE <1>2 DEF Starts, Kernel
  <2>1. TypeOK' BY DEF TypeOK
  <2>2. caller'.pc = caller.pc /\ caller'.helper = caller.helper BY DEF TypeOK
  <2>3. InStep' /\ Alone' BY <2>2 DEF InStep, Alone
  <2>4. Holders' BY DEF Holders, TypeOK
  <2>5. tracer[x] = NULL BY DEF Holders, TypeOK
  <2>6. Passed'
    <3>1. Listed' \subseteq Listed \cup {x} BY DEF Listed, Present, TypeOK
    <3>2. /\ caller.missed \subseteq caller'.missed
          /\ caller.helper # NULL /\ caller.pc \in {"waitStop", "patch"} => x \in caller'.missed
      BY DEF TypeOK
    <3>3. ~stolen /\ caller.helper = NULL =>
            \A h \in Helpers : helper[h] \in {"unborn", "reaped"}
      BY DEF Alone
    <3> QED BY <2>2, <3>1, <3>2, <3>3 DEF Passed
  <2>7. Attached' BY <2>5 DEF Attached, TypeOK
  <2> QED BY <2>1, <2>3, <2>4, <2>6, <2>7
<1>3. ASSUME NEW x \in Tids, Malloc(x) \/ MallocReturns(x)
      PROVE  IInv'
  BY <1>3 DEF Malloc, MallocReturns, Kernel, TypeOK, InStep, Alone, Holders, Passed, Attached,
              Listed, Present
<1>4. ASSUME NEW o \in Others, Exits(o)
      PROVE  IInv'
  BY <1>4 DEF Exits, Kernel, TypeOK, InStep, Alone, Holders, Passed, Attached, Listed, Present
<1> QED BY <1>1, <1>2, <1>3, <1>4

LEMMA NextKeeps == IInv /\ [Next]_vars => IInv'
<1> SUFFICES ASSUME IInv, [Next]_vars PROVE IInv'
  OBVIOUS
<1>1. CASE UNCHANGED vars
  BY <1>1 DEF vars, IInv, TypeOK, InStep, Alone, Holders, Passed, Attached, Listed, Present
<1>2. CASE Next
  BY <1>2, ForkKeeps, NoForkKeeps, CallerKeeps, HelperKeeps, WorldKeeps DEF Next
<1> QED BY <1>1, <1>2

-----------------------------------------------------------------------------
(* freeze and unFreeze keep IInv, whatever helpers die and whatever other  *)
(* children wait(NULL) reaps.                                              *)
THEOREM Invariant == Spec => []IInv
BY InitIInv, NextKeeps, PTL DEF Spec

(* The protocol state is well typed.                                       *)
THEOREM TypeCorrect == Spec => []TypeOK
BY Invariant, PTL DEF IInv

(* Code is changed while the helper of this call holds every thread but    *)
(* the main one and those that started late or could not be attached to,   *)
(* stopped where waitpid waits; else the system has killed that helper:    *)
(* doInlineHook between freeze and unFreeze.                               *)
THEOREM CodeChangesWhileHeld == Spec => []PatchWhileHeld
<1>1. ASSUME IInv, NEW h \in Helpers, caller.pc = "patch", caller.helper = h, ~stolen,
             ~(helper[h] \in {"zombie", "reaped"} /\ killed)
      PROVE  /\ helper[h] = "stopped"
             /\ \A x \in Listed \ caller.missed : tracer[x] = h /\ (waits => run[x] = "stopped")
  <2>1. h # NULL /\ Listed \subseteq Tids
    BY FreezeAssumption DEF Listed, Present
  <2>2. helper[h] = "stopped"
    BY <1>1, <2>1 DEF IInv, InStep
  <2>3. \A x \in Listed \ caller.missed : tracer[x] = h
    BY <1>1, <2>2 DEF IInv, Passed
  <2> QED BY <1>1, <2>1, <2>2, <2>3 DEF IInv, Attached
<1>2. IInv => PatchWhileHeld
  BY <1>1 DEF PatchWhileHeld
<1> QED BY <1>2, Invariant, PTL

(* After unFreeze nothing is held, as long as wait(NULL) has only ever     *)
(* reaped the helper of its own call; and where waitpid waits and no       *)
(* helper was killed, no SIGSTOP is left that would stop the process.      *)
THEOREM NobodyHeldOnReturn == Spec => []ReturnMeansRunning
<1>1. ASSUME IInv, caller.pc = "idle", ~stolen
      PROVE  \A x \in Tids : tracer[x] = NULL
  BY <1>1, FreezeAssumption DEF IInv, TypeOK, InStep, Alone, Holders, Tracing
<1>2. ASSUME IInv, caller.pc = "idle", ~stolen, waits, ~killed
      PROVE  ~halted /\ \A x \in Present : run[x] = "running"
  BY <1>1, <1>2 DEF IInv, Holders, Present
<1>3. IInv => ReturnMeansRunning
  BY <1>1, <1>2 DEF ReturnMeansRunning
<1> QED BY <1>3, Invariant, PTL
===============================================================================
