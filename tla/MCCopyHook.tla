------------------------------ MODULE MCCopyHook ------------------------------
(* The injected thread and two others.                                     *)
EXTENDS CopyHook
CONSTANTS injected, reader, writer
MCThreads == {injected, reader, writer}
=============================================================================
