----------------------------- MODULE MCToggleHook -----------------------------
(* Two threads, one of which installs the hook.                            *)
EXTENDS ToggleHook
CONSTANTS ui, worker
MCThreads == {ui, worker}
=============================================================================
