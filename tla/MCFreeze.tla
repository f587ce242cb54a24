------------------------------- MODULE MCFreeze -------------------------------
(* The main thread and two others, two freezes in a row, a child process   *)
(* of the application.                                                     *)
EXTENDS Freeze

CONSTANTS main, worker, reader, h1, h2, shell

MCTids == {main, worker, reader}
MCLate == {reader}
MCHelpers == {h1, h2}
MCOthers == {shell}
MCOps == {"hookAll", "unHook"}
=============================================================================
