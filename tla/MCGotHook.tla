------------------------------ MODULE MCGotHook ------------------------------
(* Two libraries and two functions; library 1 comes and goes.  Function 1  *)
(* has two slots in it (a PLT slot and a pointer in the read-only-after-   *)
(* relocation page), and one in library 2 with another definition;         *)
(* function 2 has one in library 2.                                        *)
EXTENDS GotHook

CONSTANTS t1, libc, wrapper, got, relro

MCModules == {1, 2}
MCTransient == {1}
MCBases == {1, 2}
MCFuncs == {1, 2}
MCSlots == 1..4
MCOwner == <<1, 1, 2, 2>>
MCSymbol == <<1, 1, 1, 2>>
MCPage == <<got, relro, relro, relro>>
MCBound == <<libc, libc, wrapper, libc>>
MCFiled == <<Raw, NULL, NULL, NULL>>
MCPages == {got, relro}
MCWritable == {got}
MCThreads == {t1}
=============================================================================
