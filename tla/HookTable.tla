------------------------------ MODULE HookTable ------------------------------
(* What a client of the inline hook engine is promised: a function is     *)
(* registered, then hooked, then free again; it is redirected exactly      *)
(* while hooked; and one engine call changes one function at a time.       *)
EXTENDS Naturals

CONSTANTS
  Targets,   \* functions that can be hooked
  Cap        \* how many can be known to the engine at once

VARIABLES
  state,       \* state[t]: "free", "registered" or "hooked"
  redirected,  \* functions whose callers end up in a replacement
  used         \* how many are not free

tableVars == <<state, redirected, used>>

TableInit ==
  /\ state = [t \in Targets |-> "free"]
  /\ redirected = {}
  /\ used = 0

Enter(t) ==
  /\ state[t] = "free"
  /\ used < Cap
  /\ used' = used + 1
  /\ state' = [state EXCEPT ![t] = "registered"]
  /\ UNCHANGED redirected

Redirect(t) ==
  /\ state[t] = "registered"
  /\ state' = [state EXCEPT ![t] = "hooked"]
  /\ redirected' = redirected \cup {t}
  /\ UNCHANGED used

Release(t) ==
  /\ state[t] = "hooked"
  /\ state' = [state EXCEPT ![t] = "free"]
  /\ redirected' = redirected \ {t}
  /\ used' = used - 1

TableNext == \E t \in Targets : Enter(t) \/ Redirect(t) \/ Release(t)

TableSpec == TableInit /\ [][TableNext]_tableVars
=============================================================================
