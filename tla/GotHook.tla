-------------------------------- MODULE GotHook --------------------------------
(***************************************************************************)
(* The GOT hook of the elfhook library.  setHook lists the ELF modules of  *)
(* /proc/self/maps, then redirects, in every module and for every hooked   *)
(* function, the pointers the linker filled in for that function.  While   *)
(* it works, other threads call through those pointers and load and        *)
(* unload libraries.  setHook does not hold the linker's lock: it may list *)
(* a library in the middle of dlopen, whose segments are not all mapped or *)
(* whose pointers are not all relocated.                                   *)
(*                                                                         *)
(* Modules, functions and slots are numbered in the order the code visits  *)
(* them: file name order of the std::map, the order of the calls in        *)
(* setHook, .rel.plt before .rel.dyn.                                      *)
(***************************************************************************)
EXTENDS Naturals, FiniteSets

CONSTANTS
  Modules,   \* libraries of the process
  Transient, \* those that come and go while the process runs
  Bases,     \* addresses a library can be loaded at
  Funcs,     \* hooked functions: dlopen, connect, android_dlopen_ext
  Slots,     \* relocated pointers to the hooked functions
  Owner,     \* module of a slot
  Symbol,    \* function of a slot
  Page,      \* page of a slot, within its module
  Bound,     \* definition the linker binds a slot to
  Filed,     \* what a slot holds until then: NULL, or Raw
  Raw,       \* an offset of the file, or a sum with one: no address
  Pages,
  Writable,  \* pages the linker leaves writable
  Threads,   \* threads of the application
  New,       \* the replacement function
  NULL

ASSUME GotAssumption ==
  /\ Modules \subseteq Nat /\ Funcs \subseteq Nat /\ Funcs # {} /\ Slots \subseteq Nat
  /\ Transient \subseteq Modules /\ Bases \subseteq Nat \ {0}
  /\ Owner \in [Slots -> Modules] /\ Symbol \in [Slots -> Funcs]
  /\ Page \in [Slots -> Pages] /\ Writable \subseteq Pages
  /\ Bound = [s \in Slots |-> Bound[s]] /\ \A s \in Slots : Bound[s] \notin {New, NULL}
  /\ Filed \in [Slots -> {NULL, Raw}]
  /\ New # NULL /\ New # Raw

VARIABLES
  base,     \* where each module is mapped; 0: it is not
  phase,    \* of dlopen of each module: "mapping", "linking" or "ready"
  slot,     \* contents of the slots of the mapped modules
  unbound,  \* slots that are mapped and not relocated yet
  writable, \* pages <<module, page>> that are writable now
  lines,    \* modules read from the maps whose header is still unread
  entries,  \* m_modules: modules with the base they were found at
  hooker,   \* the thread in setHook: position, function, module, slot
  left,     \* entries hook_all_modules has still to visit
  work,     \* matching slots of the current module still to replace
  old,      \* __old_impl_*: one variable per function
  thread,   \* threads of the application: where, through which slot, to what
  raced,    \* modules unmapped, or not yet linked, since the maps were opened
  tainted,  \* functions whose __old_impl_* met a slot that was not relocated
  failed    \* <<module, function>> pairs given up on by replace_function

vars == <<base, phase, slot, unbound, writable, lines, entries, hooker, left, work,
          old, thread, raced, tainted, failed>>

Least(S) == CHOOSE x \in S : \A y \in S : x <= y
SlotsOf(m, f) == {s \in Slots : Owner[s] = m /\ Symbol[s] = f}
PagesOf(m) == {m} \X Pages
Outside == [at |-> "outside", via |-> NULL, to |-> NULL]
Position(at, f, m, s) == [at |-> at, f |-> f, m |-> m, s |-> s]
Idle == Position("idle", 0, 0, 0)
Dead == hooker.at = "dead"
At(p) == hooker.at = p

Init ==
  /\ base \in [Modules -> Bases \cup {0}] /\ \A m \in Modules \ Transient : base[m] # 0
  /\ phase = [m \in Modules |-> "ready"]
  /\ slot = Bound /\ unbound = {}
  /\ writable = UNION {{m} \X Writable : m \in {m \in Modules : base[m] # 0}}
  /\ lines = {} /\ entries = {} /\ left = {} /\ work = {}
  /\ hooker = Idle
  /\ old = [f \in Funcs |-> NULL]
  /\ thread = [t \in Threads |-> Outside]
  /\ raced = {} /\ tainted = {} /\ failed = {}

Library == <<base, phase, slot, unbound, writable>>
History == <<raced, tainted, failed>>

(* The hooker touches memory of a module it knows at base b: SIGSEGV when  *)
(* the module is no longer there, or the segment is not there yet.         *)
Mapped(m, b) == base[m] = b
Readable(m, b) == Mapped(m, b) /\ phase[m] # "mapping"
Crash ==
  /\ hooker' = [hooker EXCEPT !.at = "dead"]
  /\ UNCHANGED <<Library, lines, entries, left, work, old, thread, History>>
-----------------------------------------------------------------------------
(* phrase_proc_maps                                                        *)

Unready == {m \in Modules : phase[m] # "ready"}

(* Mutant: m_modules is not cleared.                                       *)
SetHookNoClear ==
  /\ At("idle")
  /\ hooker' = Position("parse", 0, 0, 0)
  /\ lines' = {e \in Modules \X Bases : base[e[1]] = e[2] /\ e[1] \notin {x[1] : x \in entries}}
  /\ raced' = Unready /\ failed' = {}
  /\ UNCHANGED <<Library, entries, left, work, old, thread, tainted>>

SetHook ==
  /\ At("idle")
  /\ hooker' = Position("parse", 0, 0, 0)
  /\ lines' = {e \in Modules \X Bases : base[e[1]] = e[2]}
  /\ entries' = {}
  /\ raced' = Unready /\ failed' = {}
  /\ UNCHANGED <<Library, left, work, old, thread, tainted>>

(* is_elf_module reads the header at the address the line gave.            *)
ReadHeader(e) ==
  /\ At("parse") /\ e \in lines
  /\ hooker' = [hooker EXCEPT !.m = e[1]]
  /\ Mapped(e[1], e[2])
  /\ lines' = lines \ {e}
  /\ entries' = entries \cup {e}
  /\ UNCHANGED <<Library, left, work, old, thread, History>>

CrashInParse(e) ==
  /\ At("parse") /\ e \in lines /\ ~Mapped(e[1], e[2])
  /\ hooker' = [hooker EXCEPT !.at = "dead", !.m = e[1]]
  /\ UNCHANGED <<Library, lines, entries, left, work, old, thread, History>>

Parsed ==
  /\ At("parse") /\ lines = {}
  /\ hooker' = Position("module", Least(Funcs), 0, 0)
  /\ left' = entries
  /\ UNCHANGED <<Library, lines, entries, work, old, thread, History>>
-----------------------------------------------------------------------------
(* hook_all_modules                                                        *)

CurrentBase == CHOOSE b \in Bases : <<hooker.m, b>> \in entries
NextEntry == CHOOSE e \in left : e[1] = Least({x[1] : x \in left})

(* elf_module::hook up to the relocation loops: get_segment_view and       *)
(* find_symbol_by_name read the module.  One without a dynamic segment or  *)
(* without the symbol has no slots here.                                   *)
VisitModule ==
  /\ At("module") /\ left # {}
  /\ Readable(NextEntry[1], NextEntry[2])
  /\ left' = left \ {NextEntry}
  /\ hooker' = Position("slot", hooker.f, NextEntry[1], 0)
  /\ work' = SlotsOf(NextEntry[1], hooker.f)
  /\ UNCHANGED <<Library, lines, entries, old, thread, History>>

CrashInModule ==
  /\ At("module") /\ left # {}
  /\ ~Readable(NextEntry[1], NextEntry[2])
  /\ hooker' = [hooker EXCEPT !.at = "dead", !.m = NextEntry[1]]
  /\ UNCHANGED <<Library, lines, entries, left, work, old, thread, History>>

(* Mutant: hook_all_modules stops at the first module that fails.          *)
ModuleDoneAll ==
  /\ At("slot") /\ work = {}
  /\ hooker' = [hooker EXCEPT !.at = "module"]
  /\ left' = IF <<hooker.m, hooker.f>> \in failed THEN {} ELSE left
  /\ UNCHANGED <<Library, lines, entries, work, old, thread, History>>

ModuleDone ==
  /\ At("slot") /\ work = {}
  /\ hooker' = [hooker EXCEPT !.at = "module"]
  /\ UNCHANGED <<Library, lines, entries, left, work, old, thread, History>>

Later == {f \in Funcs : f > hooker.f}
NextFunction ==
  /\ At("module") /\ left = {} /\ Later # {}
  /\ hooker' = Position("module", Least(Later), 0, 0)
  /\ left' = entries
  /\ UNCHANGED <<Library, lines, entries, work, old, thread, History>>

Return ==
  /\ At("module") /\ left = {} /\ Later = {}
  /\ hooker' = Idle
  /\ UNCHANGED <<Library, lines, entries, left, work, old, thread, History>>
-----------------------------------------------------------------------------
(* replace_function                                                        *)

(* "had been replace": a success without effect.                           *)
AlreadyReplaced ==
  /\ At("slot") /\ work # {} /\ Readable(hooker.m, CurrentBase)
  /\ slot[Least(work)] = New
  /\ work' = work \ {Least(work)}
  /\ UNCHANGED <<Library, lines, entries, hooker, left, old, thread, History>>

(* Mutant: *old_func is not set before the slot is.                        *)
SaveOldLater ==
  LET s == Least(work) IN
  /\ At("slot") /\ work # {} /\ Readable(hooker.m, CurrentBase)
  /\ slot[s] # New
  /\ hooker' = [hooker EXCEPT !.at = "protect", !.s = s]
  /\ UNCHANGED <<Library, lines, entries, left, work, old, thread, History>>

(* *old_func is set once, from whatever the slot holds then.               *)
SaveOld ==
  LET s == Least(work) IN
  /\ At("slot") /\ work # {} /\ Readable(hooker.m, CurrentBase)
  /\ slot[s] # New
  /\ old' = [old EXCEPT ![hooker.f] = IF @ = NULL THEN slot[s] ELSE @]
  /\ tainted' = IF old[hooker.f] = NULL /\ slot[s] # Bound[s]
                THEN tainted \cup {hooker.f} ELSE tainted
  /\ hooker' = [hooker EXCEPT !.at = "protect", !.s = s]
  /\ UNCHANGED <<Library, lines, entries, left, work, thread, raced, failed>>

HookedPage == <<hooker.m, Page[hooker.s]>>

(* mprotect of the slot's page: writable, no longer executable, for good.  *)
Protect ==
  /\ At("protect") /\ Mapped(hooker.m, CurrentBase)
  /\ writable' = writable \cup {HookedPage}
  /\ hooker' = [hooker EXCEPT !.at = "write"]
  /\ UNCHANGED <<base, phase, slot, unbound, lines, entries, left, work, old, thread, History>>

(* Mutant: a failed mprotect is tried again.                               *)
ProtectFailsRetry ==
  /\ At("protect") /\ Mapped(hooker.m, CurrentBase)
  /\ hooker' = [hooker EXCEPT !.at = "slot", !.s = 0]
  /\ UNCHANGED <<Library, lines, entries, left, work, old, thread, History>>

(* The module is given up: its remaining slots for the function stay.      *)
ProtectFails ==
  /\ At("protect") /\ Mapped(hooker.m, CurrentBase)
  /\ hooker' = [hooker EXCEPT !.at = "slot", !.s = 0]
  /\ work' = {}
  /\ failed' = failed \cup {<<hooker.m, hooker.f>>}
  /\ UNCHANGED <<Library, lines, entries, left, old, thread, raced, tainted>>

Write ==
  /\ At("write") /\ Mapped(hooker.m, CurrentBase) /\ HookedPage \in writable
  /\ slot' = [slot EXCEPT ![hooker.s] = New]
  /\ hooker' = [hooker EXCEPT !.at = "slot", !.s = 0]
  /\ work' = work \ {hooker.s}
  /\ UNCHANGED <<base, phase, unbound, writable, lines, entries, left, old, thread, History>>

CrashInSlot ==
  /\ \/ At("slot") /\ work # {} /\ ~Readable(hooker.m, CurrentBase)
     \/ At("protect") /\ ~Mapped(hooker.m, CurrentBase)
     \/ At("write") /\ ~(Mapped(hooker.m, CurrentBase) /\ HookedPage \in writable)
  /\ Crash
-----------------------------------------------------------------------------
(* The rest of the process, while the hooker has not crashed it.           *)

(* dlopen maps the segment with the header first; a read of the maps that  *)
(* is under way may still come to it ...                                   *)
Map(m, b) ==
  /\ ~Dead /\ base[m] = 0
  /\ base' = [base EXCEPT ![m] = b]
  /\ phase' = [phase EXCEPT ![m] = "mapping"]
  /\ raced' = raced \cup {m}
  /\ \/ lines' = lines
     \/ At("parse") /\ (\A e \in lines \cup entries : e[1] # m) /\ lines' = lines \cup {<<m, b>>}
  /\ UNCHANGED <<slot, unbound, writable, entries, hooker, left, work, old, thread,
                 tainted, failed>>

(* ... then the others, with the slots as they are in the file.            *)
MapRest(m) ==
  /\ ~Dead /\ base[m] # 0 /\ phase[m] = "mapping"
  /\ phase' = [phase EXCEPT ![m] = "linking"]
  /\ slot' = [s \in Slots |-> IF Owner[s] = m THEN Filed[s] ELSE slot[s]]
  /\ unbound' = unbound \cup {s \in Slots : Owner[s] = m}
  /\ writable' = writable \cup PagesOf(m)
  /\ UNCHANGED <<base, lines, entries, hooker, left, work, old, thread, History>>

(* The linker relocates every slot, also one that is redirected by then;   *)
(* an absolute relocation adds the address to what it finds.               *)
Relocate(s) ==
  /\ ~Dead /\ s \in unbound
  /\ slot' \in {[slot EXCEPT ![s] = v] : v \in {Bound[s]} \cup IF slot[s] = New THEN {Raw} ELSE {}}
  /\ unbound' = unbound \ {s}
  /\ UNCHANGED <<base, phase, writable, lines, entries, hooker, left, work, old, thread, History>>

(* Last, the linker protects the pages it leaves read-only (RELRO).        *)
Linked(m) ==
  /\ ~Dead /\ phase[m] = "linking" /\ \A s \in unbound : Owner[s] # m
  /\ phase' = [phase EXCEPT ![m] = "ready"]
  /\ writable' = writable \ ({m} \X (Pages \ Writable))
  /\ UNCHANGED <<base, slot, unbound, lines, entries, hooker, left, work, old, thread, History>>

(* dlclose, of a library no thread is calling from, or a dlopen that fails.*)
Unload(m) ==
  /\ ~Dead /\ base[m] # 0
  /\ \A t \in Threads : thread[t] # Outside => Owner[thread[t].via] # m
  /\ base' = [base EXCEPT ![m] = 0]
  /\ phase' = [phase EXCEPT ![m] = "ready"]
  /\ unbound' = {s \in unbound : Owner[s] # m}
  /\ writable' = writable \ PagesOf(m)
  /\ raced' = raced \cup {m}
  /\ UNCHANGED <<slot, lines, entries, hooker, left, work, old, thread, tainted, failed>>

(* A call through a redirected slot enters the replacement ...             *)
Enter(t, s) ==
  /\ ~Dead /\ thread[t] = Outside
  /\ base[Owner[s]] # 0 /\ phase[Owner[s]] = "ready" /\ slot[s] = New
  /\ thread' = [thread EXCEPT ![t] = [at |-> "replacement", via |-> s, to |-> NULL]]
  /\ UNCHANGED <<Library, lines, entries, hooker, left, work, old, History>>

(* ... which calls what __old_impl_* holds ...                             *)
Forward(t) ==
  /\ ~Dead /\ thread[t].at = "replacement"
  /\ thread' = [thread EXCEPT ![t] =
                  [at |-> "original", via |-> thread[t].via, to |-> old[Symbol[thread[t].via]]]]
  /\ UNCHANGED <<Library, lines, entries, hooker, left, work, old, History>>

(* ... and returns.                                                        *)
Leave(t) ==
  /\ ~Dead /\ thread[t].at = "original"
  /\ thread' = [thread EXCEPT ![t] = Outside]
  /\ UNCHANGED <<Library, lines, entries, hooker, left, work, old, History>>

Hooker ==
  \/ \E e \in Modules \X Bases : ReadHeader(e) \/ CrashInParse(e)
  \/ Parsed \/ VisitModule \/ CrashInModule \/ ModuleDone \/ NextFunction
  \/ Return \/ AlreadyReplaced \/ SaveOld \/ Protect \/ ProtectFails
  \/ Write \/ CrashInSlot

Next ==
  \/ SetHook \/ Hooker
  \/ \E m \in Transient : MapRest(m) \/ Linked(m) \/ Unload(m) \/ \E b \in Bases : Map(m, b)
  \/ \E s \in Slots : Relocate(s)
  \/ \E t \in Threads : Forward(t) \/ Leave(t) \/ \E s \in Slots : Enter(t, s)

Spec == Init /\ [][Next]_vars
FairSpec == Spec /\ WF_vars(Hooker)
-----------------------------------------------------------------------------
Definitions == {Bound[s] : s \in Slots}

(* Type invariant: the state of the hooker, of the process and of its      *)
(* threads is well formed; an entry of m_modules has one base.             *)
TypeOK ==
  /\ base \in [Modules -> Bases \cup {0}]
  /\ phase \in [Modules -> {"mapping", "linking", "ready"}]
  /\ slot \in [Slots -> Definitions \cup {New, NULL, Raw}] /\ unbound \subseteq Slots
  /\ writable \subseteq Modules \X Pages
  /\ lines \subseteq Modules \X Bases /\ entries \subseteq Modules \X Bases
  /\ left \subseteq entries
  /\ \A e, d \in lines \cup entries : e[1] = d[1] => e = d
  /\ hooker \in [at : {"idle", "parse", "module", "slot", "protect", "write", "dead"},
                 f : Funcs \cup {0}, m : Modules \cup {0}, s : Slots \cup {0}]
  /\ work \subseteq Slots
  /\ old \in [Funcs -> Definitions \cup {NULL, Raw}]
  /\ thread \in [Threads -> [at : {"outside", "replacement", "original"},
                             via : Slots \cup {NULL}, to : Definitions \cup {NULL, Raw}]]
  /\ \A t \in Threads : thread[t].at # "outside" => thread[t].via \in Slots
  /\ raced \subseteq Modules /\ tainted \subseteq Funcs /\ failed \subseteq Modules \X Funcs

(* A call that went through a redirected slot goes on to a definition some *)
(* slot of that function was bound to: never through a NULL __old_impl_*   *)
(* and never back into the replacement (replace_function sets *old_func    *)
(* before the slot, and skips slots it has redirected).  One thing breaks  *)
(* this: *old_func was first taken from a slot the linker had not bound.   *)
ForwardsToDefinition ==
  \A t \in Threads : thread[t].at = "original" /\ Symbol[thread[t].via] \notin tainted =>
    \E s \in Slots : Symbol[s] = Symbol[thread[t].via] /\ thread[t].to = Bound[s]

(* When every slot of a function is bound to one definition, a redirected  *)
(* call reaches the definition its own slot was bound to.  All modules     *)
(* share one __old_impl_*, so with two definitions it may reach the other. *)
Uniform(f) == \A s, r \in Slots : Symbol[s] = f /\ Symbol[r] = f => Bound[s] = Bound[r]
ForwardsHome ==
  \A t \in Threads :
    LET f == Symbol[thread[t].via] IN
    thread[t].at = "original" /\ f \notin tainted /\ Uniform(f)
      => thread[t].to = Bound[thread[t].via]

(* setHook touches memory that is not there, or is read-only, only in a    *)
(* module that was unmapped or not yet linked at some time while it ran:   *)
(* entries of an earlier call are never used.                              *)
CrashOnlyRaced == Dead => hooker.m \in raced

(* When setHook returns, every slot of every hooked function is redirected *)
(* in each module it listed, whatever failed in the other modules, but for *)
(* those that were unmapped or not yet linked: the linker may have bound a *)
(* slot again after it was redirected.                                     *)
HookedOnReturn ==
  [][At("module") /\ hooker'.at = "idle" =>
       \A e \in entries, s \in Slots :
         e[1] = Owner[s] /\ e[1] \notin raced /\ <<e[1], Symbol[s]>> \notin failed
           => slot[s] = New]_vars

(* setHook returns, or crashes, however libraries come and go and however  *)
(* often mprotect fails.                                                   *)
SetHookReturns == At("parse") ~> (At("idle") \/ Dead)
=============================================================================
