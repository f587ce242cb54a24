------------------------------ MODULE MCAppGlue ------------------------------
(* Two windows, so that a later one can be told from the first, and one    *)
(* input queue.                                                            *)
EXTENDS AppGlue

CONSTANTS w1, w2, q1
MCWindows == {w1, w2}
MCQueues == {q1}
=============================================================================
