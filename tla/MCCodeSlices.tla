----------------------------- MODULE MCCodeSlices -----------------------------
(* Pages of eight halfwords at 32, 40 and 64 and functions around them     *)
(* whose spans begin and end inside a page: 24 reaches 38, 50 reaches 36   *)
(* and 64, 56 reaches 42 and 70.  ARM functions are aligned to two         *)
(* halfwords, Thumb functions need not be; trampolines are Thumb code.     *)
EXTENDS CodeSlices

MCBases == {32, 40, 64}
MCSizes == {2, 3, 6}
MCArm == {24, 26, 50, 54, 56}
MCFunctions == {24, 26, 50, 51, 55, 56}
===============================================================================
