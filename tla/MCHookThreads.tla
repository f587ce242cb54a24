---------------------------- MODULE MCHookThreads ----------------------------
(* A thread among two Thumb functions: one with four instructions, the     *)
(* most the boundary table holds, and one with five, one too many.  The    *)
(* copies are wide, of an LDR.W and of two-byte instructions, which get a  *)
(* NOP, but for the last one of thumb4.  Threads do not act on each other, *)
(* and the helper attaches to or misses each one independently.            *)
EXTENDS HookThreads, TLC

CONSTANTS thumb4, thumb5, p1, p2, x1

MCBoundaries ==
  thumb4 :> <<<<0, 0>>, <<2, 4>>, <<4, 8>>, <<8, 16>>>> @@
  thumb5 :> <<<<0, 0>>, <<2, 4>>, <<4, 8>>, <<8, 16>>, <<10, 20>>>>
MCTargets == DOMAIN MCBoundaries
MCPages == {p1, p2}
MCThreads == {x1}
MCWide == {<<thumb4, 1>>, <<thumb4, 2>>, <<thumb4, 3>>} \cup ({thumb5} \X (1..5))
=============================================================================
