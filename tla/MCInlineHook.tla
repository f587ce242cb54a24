---------------------------- MODULE MCInlineHook ----------------------------
(* Three ARM functions and a Thumb one whose twelve patched bytes hold     *)
(* five instructions, in a table of three slots.                           *)
EXTENDS InlineHook, TLC

CONSTANTS malloc, calloc, free, thumb, p1, p2, p3

MCPages == {p1, p2, p3}
MCSymmetry == Permutations(MCPages)

MCTargets == {malloc, calloc, free, thumb}
MCWithProto == {malloc, thumb}

(* Offsets relocateInstructionInArm / ...InThumb records: a copied ARM     *)
(* instruction takes 4 bytes of trampoline, LDR <label> takes 12, and so   *)
(* do a Thumb instruction of two bytes with its NOP (4) and LDR.W (8).     *)
MCBoundaries ==
  malloc :> <<<<0, 0>>, <<4, 4>>>> @@
  calloc :> <<<<0, 0>>, <<4, 4>>>> @@
  free   :> <<<<0, 0>>, <<4, 12>>>> @@
  thumb  :> <<<<0, 0>>, <<2, 4>>, <<4, 8>>, <<8, 16>>, <<10, 20>>>>
=============================================================================
