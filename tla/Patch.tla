--------------------------------- MODULE Patch ---------------------------------
(***************************************************************************)
(* What hook.c (the adbi patch hook) and its copy exporthook.c share: the  *)
(* first three words of a function, which become                           *)
(*                                                                         *)
(*     0: LDR pc, [pc, #0]     1: replacement     2: replacement           *)
(*                                                                         *)
(* and the threads that execute them.  The load at word 0 reads word 2.    *)
(* Thumb code differs in the number of units written, not in their order.  *)
(*                                                                         *)
(* A thread is a stack of frames <<routine, step>>; frame <<"orig", k>> is *)
(* about to execute word k, and at 3 it runs what follows the three words. *)
(***************************************************************************)
EXTENDS Naturals, Sequences

CONSTANTS
  Threads,
  Installer,  \* the thread that installs the hook
  MaxCalls,   \* calls of the function by each thread: bounds the run
  Depth       \* frames on a stack: bounds re-entry of the replacement

ASSUME PatchAssumption ==
  /\ Installer \in Threads
  /\ MaxCalls \in Nat /\ Depth \in Nat

VARIABLES
  word,     \* "orig" or "jump", for each of the three words
  stack,    \* frames of every thread, innermost first
  calls,    \* calls each thread has made
  ran,      \* times the original ran in a thread's current call
  lost,     \* a thread executed a word that is no instruction of its routine
  overlap   \* two threads were inside the function or the hook at once

patchVars == <<word, stack, calls, ran, lost, overlap>>

Words == 0 .. 2
Jumped == [k \in Words |-> "jump"]
Original == [k \in Words |-> "orig"]

PatchInit ==
  /\ word = Original
  /\ stack = [t \in Threads |-> <<>>]
  /\ calls = [t \in Threads |-> 0]
  /\ ran = [t \in Threads |-> 0]
  /\ lost = FALSE /\ overlap = FALSE

At(t, frame) == ~lost /\ stack[t] # <<>> /\ Head(stack[t]) = frame
Replace(t, frames) == stack' = [stack EXCEPT ![t] = frames \o Tail(@)]
Goto(t, frame) == Replace(t, <<frame>>)
Pop(t) == Replace(t, <<>>)
Begin(t, frame) ==
  /\ ~lost /\ stack[t] = <<>>
  /\ stack' = [stack EXCEPT ![t] = <<frame>>]
  /\ overlap' = (overlap \/ \E u \in Threads : stack[u] # <<>>)
Unmarked == UNCHANGED <<calls, ran, lost, overlap>>

Call(t) ==
  /\ calls[t] < MaxCalls
  /\ Begin(t, <<"orig", 0>>)
  /\ calls' = [calls EXCEPT ![t] = @ + 1]
  /\ ran' = [ran EXCEPT ![t] = 0]
  /\ UNCHANGED <<word, lost>>

(* One of the function's own first words.                                  *)
Execute(t, k) ==
  /\ At(t, <<"orig", k>>) /\ word[k] = "orig"
  /\ Goto(t, <<"orig", k + 1>>)
  /\ UNCHANGED word /\ Unmarked

(* The jump, to the frame the replacement starts with.                     *)
EnterReplacement(t, frame) ==
  /\ At(t, <<"orig", 0>>) /\ word[0] = "jump" /\ word[2] = "jump"
  /\ Goto(t, frame)
  /\ UNCHANGED word /\ Unmarked

(* Word 0 loads a destination that is not there yet, or a word of the jump *)
(* is executed by a thread that has come past word 0.                      *)
Astray(t) ==
  \/ At(t, <<"orig", 0>>) /\ word[0] = "jump" /\ word[2] = "orig"
  \/ \E k \in 1 .. 2 : At(t, <<"orig", k>>) /\ word[k] = "jump"

Lose(t) ==
  /\ Astray(t)
  /\ lost' = TRUE
  /\ UNCHANGED <<word, stack, calls, ran, overlap>>

Body(t) ==
  /\ At(t, <<"orig", 3>>)
  /\ Pop(t)
  /\ ran' = [ran EXCEPT ![t] = @ + 1]
  /\ UNCHANGED <<word, calls, lost, overlap>>

Function(t, entry) ==
  \/ \E k \in Words : Execute(t, k)
  \/ EnterReplacement(t, entry) \/ Lose(t) \/ Body(t)
=============================================================================
