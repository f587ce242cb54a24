---------------------------- MODULE MCInterceptor ----------------------------
(* Two threads and two functions, the second of which fills the key list.  *)
(* A "prepost" hook passes the same thunks as a "both" hook and is left    *)
(* out.                                                                    *)
EXTENDS Interceptor, TLC

CONSTANTS t1, t2, send, connect

MCThreads == {t1, t2}
MCFunctions == {send, connect}
MCTypes == {"replace", "both", "insn", "dbi"}
MCSymmetry == Permutations(MCFunctions) \cup Permutations(MCThreads)
=============================================================================
