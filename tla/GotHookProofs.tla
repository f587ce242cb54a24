---------------------------- MODULE GotHookProofs ----------------------------
(***************************************************************************)
(* GotHook: where redirected calls go, what setHook may crash on and what  *)
(* it has redirected when it returns, proved for any libraries, functions, *)
(* slots and threads.                                                      *)
(*                                                                         *)
(* The second part is about SymbolLookup, which gives GotHook the symbol   *)
(* of a function: the answer of find_symbol_by_name is right for every     *)
(* symbol table, hash function and layout of the two hash tables.          *)
(***************************************************************************)
EXTENDS GotHook, SymbolLookup, WellFoundedInduction, TLAPS

Working == hooker.at \in {"slot", "protect", "write"}

(* __old_impl_* of f has been given a value, or met one that is none.      *)
Saved(f) == old[f] # NULL \/ f \in tainted

(* Where the values in slots and in __old_impl_* come from.                *)
Provenance ==
  /\ \A s \in Slots : slot[s] \in {Bound[s], New, NULL, Raw}
  /\ \A f \in Funcs \ tainted :
       old[f] # NULL => \E s \in Slots : Symbol[s] = f /\ old[f] = Bound[s]
  /\ \A s \in Slots : slot[s] = New => Saved(Symbol[s])

(* What the hooker works on, from replace_function's caller down.          *)
Place ==
  /\ hooker.at = "idle" => left = {}
  /\ hooker.at = "module" \/ Working => hooker.f \in Funcs
  /\ Working => /\ \E b \in Bases : <<hooker.m, b>> \in entries
                /\ work \subseteq SlotsOf(hooker.m, hooker.f)
  /\ hooker.at \in {"protect", "write"} => hooker.s \in work /\ Saved(hooker.f)
  /\ hooker.at = "write" => HookedPage \in writable \/ hooker.m \in raced

(* Threads that have passed a redirected slot.                             *)
Passed ==
  /\ \A t \in Threads : thread[t].at = "replacement" => Saved(Symbol[thread[t].via])
  /\ ForwardsToDefinition

(* The slots the linker has still to relocate are those of such a library. *)
Waiting(s) == phase[Owner[s]] = "linking" /\ base[Owner[s]] # 0

(* What the maps said still holds, but for the modules unmapped since, or  *)
(* still being linked.                                                     *)
Current ==
  /\ Unready \subseteq raced /\ \A s \in unbound : Waiting(s)
  /\ \A e \in lines \cup entries : base[e[1]] = e[2] \/ e[1] \in raced
  /\ CrashOnlyRaced

(* The slots the hooker has been past.                                     *)
Visited(e, s) ==
  \/ Symbol[s] < hooker.f
  \/ Symbol[s] = hooker.f /\ e \notin left /\ ~(Working /\ e[1] = hooker.m /\ s \in work)
Due(e, s) ==
  e[1] = Owner[s] /\ e[1] \notin raced /\ <<e[1], Symbol[s]>> \notin failed
Swept ==
  hooker.at = "module" \/ Working =>
    \A e \in entries, s \in Slots : Due(e, s) /\ Visited(e, s) => slot[s] = New

IInv == TypeOK /\ Provenance /\ Place /\ Passed /\ Current /\ Swept

-----------------------------------------------------------------------------
(* A set of numbers has a least element, which is what the code's loops    *)
(* visit first.                                                            *)
Before == {p \in Nat \X Nat : p[1] < p[2]}

LEMMA BeforeWellFounded == IsWellFoundedOn(Before, Nat)
BY NatLessThanWellFounded DEF OpToRel, Before

LEMMA LeastIsLeast ==
  ASSUME NEW S \in SUBSET Nat, S # {}
  PROVE  Least(S) \in S /\ \A y \in S : Least(S) <= y
<1>1. PICK x \in S : \A y \in S : ~ (<<y, x>> \in Before)
  BY BeforeWellFounded, WFMin
<1>2. ASSUME NEW y \in S PROVE x <= y
  <2>1. x \in Nat /\ y \in Nat /\ ~(<<y, x>> \in Before)
    BY <1>1
  <2>2. <<y, x>> \in Nat \X Nat /\ <<y, x>>[1] = y /\ <<y, x>>[2] = x
    BY <2>1
  <2>3. ~(y < x) BY <2>1, <2>2 DEF Before
  <2> QED BY <2>1, <2>3
<1> QED BY <1>2 DEF Least

LEMMA LeastWork ==
  ASSUME TypeOK, work # {}
  PROVE  Least(work) \in work
BY LeastIsLeast, GotAssumption DEF TypeOK

LEMMA NextEntryIsLeft ==
  ASSUME TypeOK, left # {}
  PROVE  NextEntry \in left
<1> DEFINE M == {x[1] : x \in left}
<1>1. \A x \in left : x[1] \in Modules
  BY DEF TypeOK
<1>a. M \in SUBSET Nat
  BY <1>1, GotAssumption
<1>b. M # {}
  OBVIOUS
<1>2. Least(M) \in M
  BY <1>a, <1>b, LeastIsLeast
<1>3. \E e \in left : e[1] = Least(M)
  BY <1>2
<1> QED BY <1>3 DEF NextEntry

LEMMA CurrentBaseIsListed ==
  ASSUME Place, Working
  PROVE  CurrentBase \in Bases /\ <<hooker.m, CurrentBase>> \in entries
BY DEF Place, CurrentBase

-----------------------------------------------------------------------------
LEMMA InitIInv == Init => IInv
<1> SUFFICES ASSUME Init PROVE IInv
  OBVIOUS
<1> USE GotAssumption DEF Init, Idle, Position, Outside
<1>a. slot \in [Slots -> Definitions \cup {New, NULL, Raw}]
  BY DEF Definitions
<1>b. writable \subseteq Modules \X Pages
  BY DEF GotAssumption
<1>c. thread \in [Threads -> [at : {"outside", "replacement", "original"},
                              via : Slots \cup {NULL}, to : Definitions \cup {NULL, Raw}]]
  OBVIOUS
<1>d. \A t \in Threads : thread[t].at # "outside" => thread[t].via \in Slots
  OBVIOUS
<1>e. hooker \in [at : {"idle", "parse", "module", "slot", "protect", "write", "dead"},
                  f : Funcs \cup {0}, m : Modules \cup {0}, s : Slots \cup {0}]
  OBVIOUS
<1>1. TypeOK
  BY <1>a, <1>b, <1>c, <1>d, <1>e DEF TypeOK
<1>2. Provenance /\ Place /\ Passed
  BY DEF Provenance, Place, Passed, ForwardsToDefinition, Working
<1>3. Current /\ Swept
  BY DEF Current, Unready, CrashOnlyRaced, Dead, Swept, Working
<1> QED BY <1>1, <1>2, <1>3 DEF IInv

(* setHook starts afresh: nothing listed, nothing visited.                 *)
LEMMA SetHookKeeps ==
  ASSUME IInv, SetHook
  PROVE  IInv'
<1> USE GotAssumption DEF IInv, Saved, Unready, Waiting, SetHook, At, Position, Library
<1>a. \A e, d \in lines' \cup entries' : e[1] = d[1] => e = d
  <2>1. \A e \in lines' \cup entries' : e = <<e[1], e[2]>> /\ e[2] = base[e[1]]
    OBVIOUS
  <2> QED BY <2>1
<1>b. lines' \subseteq Modules \X Bases /\ left \subseteq entries'
  BY DEF Place
<1>1. TypeOK'
  BY <1>a, <1>b DEF TypeOK
<1>2. Provenance' /\ Place'
  BY DEF Provenance, Place, Working
<1>3. Passed'
  BY DEF Passed, ForwardsToDefinition
<1>4. Current' /\ Swept'
  BY DEF Current, CrashOnlyRaced, Dead, Swept, Working
<1> QED BY <1>1, <1>2, <1>3, <1>4

(* Provenance is about slots and old pointers only.                        *)
LEMMA ProvenanceStays ==
  Provenance /\ UNCHANGED <<slot, old, tainted>> => Provenance'
BY DEF Provenance, Saved

LEMMA ParseKeeps ==
  ASSUME IInv, (\E e \in Modules \X Bases : ReadHeader(e) \/ CrashInParse(e)) \/ Parsed
  PROVE  IInv'
<1> USE GotAssumption DEF IInv, Saved, Unready, Waiting, At, Position, Library, History
<1>1. ASSUME NEW e \in Modules \X Bases, ReadHeader(e) PROVE IInv'
  <2> USE <1>1 DEF ReadHeader
  <2>1. TypeOK' BY SMTT(30) DEF TypeOK
  <2>2. Provenance' /\ Place' BY DEF Provenance, Place, Working, TypeOK
  <2>3. Passed' BY DEF Passed, ForwardsToDefinition
  <2>4. Current' BY DEF Current, CrashOnlyRaced, Dead, TypeOK
  <2>5. Swept' BY DEF Swept, Working, TypeOK
  <2> QED BY <2>1, <2>2, <2>3, <2>4, <2>5
<1>2. ASSUME NEW e \in Modules \X Bases, CrashInParse(e) PROVE IInv'
  <2> USE <1>2 DEF CrashInParse
  <2>1. TypeOK' BY DEF TypeOK
  <2>a. hooker'.at = "dead" BY DEF TypeOK
  <2>b. Provenance' BY ProvenanceStays
  <2>2. Provenance' /\ Place' BY <2>a, <2>b DEF Place, Working
  <2>3. Passed' BY DEF Passed, ForwardsToDefinition
  <2>4. Current' BY DEF Current, CrashOnlyRaced, Dead, TypeOK, Mapped
  <2>5. Swept' BY DEF Swept, Working, TypeOK
  <2> QED BY <2>1, <2>2, <2>3, <2>4, <2>5
<1>3. ASSUME Parsed PROVE IInv'
  <2> USE <1>3 DEF Parsed
  <2>0. Least(Funcs) \in Funcs /\ \A f \in Funcs : Least(Funcs) <= f
    BY LeastIsLeast
  <2>1. TypeOK' BY <2>0 DEF TypeOK
  <2>2. Provenance' /\ Place' BY <2>0 DEF Provenance, Place, Working, TypeOK
  <2>3. Passed' BY DEF Passed, ForwardsToDefinition
  <2>4. Current' BY DEF Current, CrashOnlyRaced, Dead, TypeOK
  <2>5. \A e \in entries, s \in Slots : ~Visited(e, s)'
    <3> SUFFICES ASSUME NEW e \in entries, NEW s \in Slots PROVE ~Visited(e, s)'
      OBVIOUS
    <3>1. hooker'.f = Least(Funcs) /\ e \in left'
      OBVIOUS
    <3>2. Symbol[s] \in Funcs /\ Symbol[s] \in Nat /\ Least(Funcs) \in Nat /\ Least(Funcs) <= Symbol[s]
      BY <2>0
    <3> QED BY <3>1, <3>2 DEF Visited
  <2>6. Swept' BY <2>5 DEF Swept
  <2> QED BY <2>1, <2>2, <2>3, <2>4, <2>6
<1> QED BY <1>1, <1>2, <1>3

LEMMA VisitKeeps ==
  ASSUME IInv, VisitModule
  PROVE  IInv'
<1> USE GotAssumption DEF IInv, Saved, Unready, Waiting, VisitModule, At, Position, Library, History
<1>0. NextEntry \in left /\ NextEntry \in entries
  BY NextEntryIsLeft DEF TypeOK
<1>a. NextEntry \in Modules \X Bases /\ NextEntry = <<NextEntry[1], NextEntry[2]>>
  BY <1>0 DEF TypeOK
<1>1. TypeOK' BY <1>0, <1>a DEF TypeOK, SlotsOf
<1>2. Provenance' BY DEF Provenance
<1>3. Place' BY <1>0, <1>a DEF Place, Working, TypeOK
<1>4. Passed' BY DEF Passed, ForwardsToDefinition
<1>5. Current' BY DEF Current, CrashOnlyRaced, Dead, TypeOK
<1>6. ASSUME NEW e \in entries, NEW s \in Slots, Due(e, s)', Visited(e, s)'
      PROVE  slot[s] = New
  <2>1. Due(e, s) BY <1>6 DEF Due
  <2>2. hooker'.f = hooker.f /\ hooker'.m = NextEntry[1] /\ hooker'.at = "slot"
    OBVIOUS
  <2>3. e[1] = NextEntry[1] => e = NextEntry
    BY <1>0 DEF TypeOK
  <2>4. e = NextEntry /\ Symbol[s] = hooker.f => s \in work'
    BY <2>1, <2>2 DEF Due, SlotsOf
  <2>5. Visited(e, s)
    BY <1>6, <2>2, <2>3, <2>4 DEF Visited, Working
  <2> QED BY <2>1, <2>5 DEF Swept
<1>7. Swept' BY <1>6 DEF Swept
<1> QED BY <1>1, <1>2, <1>3, <1>4, <1>5, <1>7

LEMMA LoopsKeep ==
  ASSUME IInv, ModuleDone \/ NextFunction \/ Return
  PROVE  IInv'
<1> USE GotAssumption DEF IInv, Saved, Unready, Waiting, At, Position, Library, History
<1>1. ASSUME ModuleDone PROVE IInv'
  <2> USE <1>1 DEF ModuleDone
  <2>1. TypeOK' BY DEF TypeOK
  <2>2. Provenance' /\ Place' BY DEF Provenance, Place, Working, TypeOK
  <2>3. Passed' BY DEF Passed, ForwardsToDefinition
  <2>4. Current' BY DEF Current, CrashOnlyRaced, Dead, TypeOK
  <2>5. Swept' BY DEF Swept, Working, TypeOK, Visited, Due
  <2> QED BY <2>1, <2>2, <2>3, <2>4, <2>5
<1>2. ASSUME NextFunction PROVE IInv'
  <2> USE <1>2 DEF NextFunction
  <2>0. Least(Later) \in Later /\ \A f \in Later : Least(Later) <= f
    BY LeastIsLeast DEF Later
  <2>1. TypeOK' BY <2>0 DEF TypeOK, Later
  <2>2. Provenance' /\ Place' BY <2>0 DEF Provenance, Place, Working, TypeOK, Later
  <2>3. Passed' BY DEF Passed, ForwardsToDefinition
  <2>4. Current' BY DEF Current, CrashOnlyRaced, Dead, TypeOK
  <2>5. ASSUME NEW e \in entries, NEW s \in Slots, Visited(e, s)' PROVE Visited(e, s)
    <3>1. Symbol[s] \in Funcs /\ Symbol[s] < Least(Later)
      BY <2>5 DEF Visited
    <3>a. Symbol[s] \in Nat /\ Least(Later) \in Nat
      BY <3>1, <2>0 DEF Later
    <3>b. hooker.f \in Funcs
      BY DEF Place
    <3>c. Symbol[s] \notin Later
      BY <3>1, <3>a, <2>0
    <3>2. Symbol[s] \notin Later /\ Symbol[s] \in Nat /\ hooker.f \in Nat
      BY <3>a, <3>b, <3>c
    <3>3. Symbol[s] < hooker.f \/ Symbol[s] = hooker.f
      BY <3>1, <3>2 DEF Later
    <3> QED BY <3>3 DEF Visited, Working
  <2>6. Swept' BY <2>5 DEF Swept, Due
  <2> QED BY <2>1, <2>2, <2>3, <2>4, <2>6
<1>3. ASSUME Return PROVE IInv'
  <2> USE <1>3 DEF Return, Idle
  <2>1. TypeOK' BY DEF TypeOK
  <2>2. Provenance' /\ Place' BY DEF Provenance, Place, Working, TypeOK
  <2>3. Passed' BY DEF Passed, ForwardsToDefinition
  <2>4. Current' /\ Swept' BY DEF Current, CrashOnlyRaced, Dead, TypeOK, Swept, Working
  <2> QED BY <2>1, <2>2, <2>3, <2>4
<1> QED BY <1>1, <1>2, <1>3

(* A crash changes nothing but where the hooker is.                        *)
LEMMA CrashKeeps ==
  ASSUME IInv, CrashInModule \/ CrashInSlot
  PROVE  IInv'
<1> USE GotAssumption DEF IInv, Saved, Unready, Waiting, At, Library, History
<1>1. /\ hooker'.at = "dead" /\ hooker' \in [at : {"dead"}, f : Funcs \cup {0}, m : Modules \cup {0}, s : Slots \cup {0}]
      /\ UNCHANGED <<base, phase, slot, unbound, writable, lines, entries, left, work, old, thread, raced, tainted, failed>>
  <2>1. CASE CrashInModule
    <3>1. NextEntry[1] \in Modules
      BY <2>1, NextEntryIsLeft DEF CrashInModule, TypeOK
    <3> QED BY <2>1, <3>1 DEF CrashInModule, TypeOK
  <2>2. CASE CrashInSlot
    BY <2>2 DEF CrashInSlot, Crash, TypeOK
  <2> QED BY <2>1, <2>2
<1>2. hooker'.m \in raced
  <2>1. CASE CrashInModule
    <3>1. NextEntry \in left /\ NextEntry \in entries
      BY <2>1, NextEntryIsLeft DEF CrashInModule, TypeOK
    <3>2. hooker'.m = NextEntry[1] /\ ~Readable(NextEntry[1], NextEntry[2]) /\ NextEntry[1] \in Modules
      BY <2>1, <3>1 DEF CrashInModule, TypeOK
    <3> QED BY <3>1, <3>2 DEF Current, Mapped, Readable
  <2>2. CASE CrashInSlot
    <3>1. hooker'.m = hooker.m /\ Working
      BY <2>2 DEF CrashInSlot, Crash, TypeOK, Working
    <3>2. <<hooker.m, CurrentBase>> \in entries
      BY <3>1, CurrentBaseIsListed
    <3>a. hooker.m \in Modules
      BY <3>2 DEF TypeOK
    <3>3. ~Readable(hooker.m, CurrentBase) => hooker.m \in raced
      BY <3>2, <3>a DEF Current, Mapped, Readable
    <3>4. ~Readable(hooker.m, CurrentBase) \/ (hooker.at = "write" /\ HookedPage \notin writable)
      BY <2>2 DEF CrashInSlot, Readable
    <3> QED BY <3>1, <3>3, <3>4 DEF Place
  <2> QED BY <2>1, <2>2
<1>3. TypeOK' BY <1>1 DEF TypeOK
<1>4. Provenance' BY <1>1 DEF Provenance
<1>5. Place' BY <1>1 DEF Place, Working
<1>6. Passed' BY <1>1 DEF Passed, ForwardsToDefinition
<1>7. Current' BY <1>1, <1>2 DEF Current, CrashOnlyRaced
<1>8. Swept' BY <1>1 DEF Swept, Working
<1> QED BY <1>3, <1>4, <1>5, <1>6, <1>7, <1>8

(* replace_function, which works on the least slot left.                   *)
LEMMA AlreadyReplacedKeeps ==
  ASSUME IInv, AlreadyReplaced
  PROVE  IInv'
<1> USE GotAssumption DEF IInv, Saved, Unready, Waiting, AlreadyReplaced, At, Library, History
<1>1. TypeOK' BY DEF TypeOK
<1>2. Provenance' BY DEF Provenance
<1>3. Place' BY DEF Place, Working
<1>4. Passed' BY DEF Passed, ForwardsToDefinition
<1>5. Current' BY DEF Current, CrashOnlyRaced, Dead
<1>6. Swept' BY DEF Swept, Working, Visited, Due
<1> QED BY <1>1, <1>2, <1>3, <1>4, <1>5, <1>6

LEMMA SaveOldKeeps ==
  ASSUME IInv, SaveOld
  PROVE  IInv'
<1> USE GotAssumption DEF IInv, SaveOld, At, Library, History, Unready, Waiting
<1> DEFINE s == Least(work)
<1>0. /\ s \in work /\ s \in Slots /\ Symbol[s] = hooker.f /\ hooker.f \in Funcs
      /\ slot[s] \in {Bound[s], NULL, Raw} /\ Bound[s] # NULL
  BY LeastWork DEF Place, Working, SlotsOf, Provenance
<1>1. /\ old' = [old EXCEPT ![hooker.f] = IF @ = NULL THEN slot[s] ELSE @]
      /\ tainted' = IF old[hooker.f] = NULL /\ slot[s] # Bound[s]
                    THEN tainted \cup {hooker.f} ELSE tainted
      /\ hooker' = [hooker EXCEPT !.at = "protect", !.s = s]
  OBVIOUS
<1>2. /\ hooker'.at = "protect" /\ hooker'.s = s /\ hooker'.m = hooker.m /\ hooker'.f = hooker.f
      /\ old' \in [Funcs -> Definitions \cup {NULL, Raw}]
      /\ \/ old'[hooker.f] = old[hooker.f] /\ old[hooker.f] # NULL
         \/ old'[hooker.f] = Bound[s]
         \/ hooker.f \in tainted'
      /\ \A f \in Funcs : f # hooker.f => old'[f] = old[f]
      /\ \A f \in Funcs : old[f] # NULL => old'[f] = old[f]
      /\ tainted \subseteq tainted' /\ tainted' \subseteq Funcs
  BY <1>0, <1>1 DEF TypeOK, Definitions
<1>a. Saved(hooker.f)' /\ \A f \in Funcs : Saved(f) => Saved(f)'
  BY <1>0, <1>2 DEF Saved
<1>3. TypeOK'
  BY <1>0, <1>1, <1>2 DEF TypeOK
<1>4. Provenance'
  <2>1. \A f \in Funcs \ tainted' :
          old'[f] # NULL => \E r \in Slots : Symbol[r] = f /\ old'[f] = Bound[r]
    BY <1>0, <1>2 DEF Provenance
  <2>2. slot' = slot /\ \A r \in Slots : Symbol[r] \in Funcs
    OBVIOUS
  <2> QED BY <1>a, <2>1, <2>2 DEF Provenance
<1>5. Place'
  BY <1>0, <1>2, <1>a DEF Place, Working
<1>6. Passed'
  <2>1. \A t \in Threads : thread[t].at = "replacement" => Symbol[thread[t].via] \in Funcs
    BY DEF TypeOK
  <2>2. \A t \in Threads : thread[t].at = "replacement" => Saved(Symbol[thread[t].via])'
    BY <1>a, <2>1 DEF Passed
  <2>3. thread' = thread
    OBVIOUS
  <2> QED BY <1>2, <2>2, <2>3 DEF Passed, ForwardsToDefinition
<1>7. Current'
  BY <1>2 DEF Current, CrashOnlyRaced, Dead
<1>8. Swept'
  BY <1>2 DEF Swept, Working, Visited, Due
<1> QED BY <1>3, <1>4, <1>5, <1>6, <1>7, <1>8

LEMMA ProtectKeeps ==
  ASSUME IInv, Protect \/ ProtectFails
  PROVE  IInv'
<1> USE GotAssumption DEF IInv, Saved, Unready, Waiting, At, Library, History
<1>1. ASSUME Protect PROVE IInv'
  <2> USE <1>1 DEF Protect
  <2>0. hooker.s \in Slots /\ hooker.m \in Modules
    BY DEF Place, Working, SlotsOf, TypeOK
  <2>1. hooker'.at = "write" /\ hooker'.f = hooker.f /\ hooker'.m = hooker.m /\ hooker'.s = hooker.s
    BY DEF TypeOK
  <2>2. TypeOK' BY <2>0 DEF TypeOK, HookedPage
  <2>3. Provenance' BY DEF Provenance
  <2>4. Place' BY <2>1 DEF Place, Working, HookedPage
  <2>5. Passed' BY DEF Passed, ForwardsToDefinition
  <2>6. Current' /\ Swept' BY <2>1 DEF Current, CrashOnlyRaced, Dead, Swept, Working, Visited, Due
  <2> QED BY <2>2, <2>3, <2>4, <2>5, <2>6
<1>2. ASSUME ProtectFails PROVE IInv'
  <2> USE <1>2 DEF ProtectFails
  <2>0. hooker.f \in Funcs /\ hooker.m \in Modules
    BY DEF Place, Working, TypeOK
  <2>1. hooker'.at = "slot" /\ hooker'.f = hooker.f /\ hooker'.m = hooker.m
    BY DEF TypeOK
  <2>a. hooker' \in [at : {"idle", "parse", "module", "slot", "protect", "write", "dead"},
                     f : Funcs \cup {0}, m : Modules \cup {0}, s : Slots \cup {0}]
    BY DEF TypeOK
  <2>b. failed' \subseteq Modules \X Funcs
    BY <2>0 DEF TypeOK
  <2>c. work' = {} /\ UNCHANGED <<base, phase, slot, unbound, writable, lines, entries, left, old, thread, raced, tainted>>
    OBVIOUS
  <2>2. TypeOK' BY <2>a, <2>b, <2>c DEF TypeOK
  <2>3. Provenance' BY DEF Provenance
  <2>4. Place' BY <2>1 DEF Place, Working
  <2>5. Passed' BY DEF Passed, ForwardsToDefinition
  <2>6. Current' BY <2>1 DEF Current, CrashOnlyRaced, Dead
  <2>7. ASSUME NEW e \in entries, NEW s \in Slots, Due(e, s)', Visited(e, s)'
        PROVE  slot[s] = New
    <3>1. Due(e, s) /\ ~(e[1] = hooker.m /\ Symbol[s] = hooker.f)
      BY <2>7 DEF Due
    <3>2. Visited(e, s)
      BY <2>7, <2>1, <3>1 DEF Visited
    <3> QED BY <3>1, <3>2 DEF Swept, Working
  <2>8. Swept' BY <2>7 DEF Swept
  <2> QED BY <2>2, <2>3, <2>4, <2>5, <2>6, <2>8
<1> QED BY <1>1, <1>2

LEMMA WriteKeeps ==
  ASSUME IInv, Write
  PROVE  IInv'
<1> USE GotAssumption DEF IInv, Saved, Unready, Waiting, Write, At, Library, History
<1>0. /\ hooker.s \in work /\ hooker.s \in Slots /\ Symbol[hooker.s] = hooker.f
      /\ Saved(hooker.f)
  BY DEF Place, Working, SlotsOf
<1>1. hooker'.at = "slot" /\ hooker'.f = hooker.f /\ hooker'.m = hooker.m
  BY DEF TypeOK
<1>2. /\ slot' \in [Slots -> Definitions \cup {New, NULL, Raw}]
      /\ \A s \in Slots : slot'[s] = IF s = hooker.s THEN New ELSE slot[s]
  BY <1>0 DEF TypeOK
<1>a. /\ hooker' \in [at : {"idle", "parse", "module", "slot", "protect", "write", "dead"},
                      f : Funcs \cup {0}, m : Modules \cup {0}, s : Slots \cup {0}]
      /\ work' \subseteq Slots
  BY DEF TypeOK
<1>b. UNCHANGED <<base, phase, unbound, writable, lines, entries, left, old, thread, raced, tainted, failed>>
  OBVIOUS
<1>3. TypeOK' BY <1>2, <1>a, <1>b DEF TypeOK
<1>4. Provenance' BY <1>0, <1>2 DEF Provenance
<1>5. Place' BY <1>1 DEF Place, Working
<1>6. Passed' BY DEF Passed, ForwardsToDefinition
<1>7. Current' BY <1>1 DEF Current, CrashOnlyRaced, Dead
<1>8. Swept' BY <1>1, <1>2 DEF Swept, Working, Visited, Due
<1> QED BY <1>3, <1>4, <1>5, <1>6, <1>7, <1>8

(* Libraries come and go.                                                  *)
LEMMA MapKeeps ==
  ASSUME IInv, NEW m \in Modules, NEW b \in Bases, Map(m, b)
  PROVE  IInv'
<1> USE GotAssumption DEF IInv, Map, Library, Saved, Waiting
<1>1. /\ base' \in [Modules -> Bases \cup {0}] /\ base'[m] = b
      /\ \A n \in Modules : n # m => base'[n] = base[n] /\ phase'[n] = phase[n]
      /\ phase' \in [Modules -> {"mapping", "linking", "ready"}]
  BY DEF TypeOK
<1>2. \A e \in lines \cup entries : e[1] = m => m \in raced
  <2>1. \A e \in lines \cup entries : e[1] \in Modules /\ e[2] \in Bases /\ e[2] # 0
    BY DEF TypeOK
  <2> QED BY <2>1 DEF Current
<1>3. /\ lines' \subseteq Modules \X Bases
      /\ \A e \in lines' \cup entries : e \in lines \cup entries \/ e = <<m, b>>
      /\ \A e, d \in lines' \cup entries : e[1] = d[1] => e = d
  BY SMTT(30) DEF TypeOK
<1>4. UNCHANGED <<slot, unbound, writable, entries, hooker, left, work, old, thread, tainted, failed>>
  OBVIOUS
<1>5. TypeOK'
  BY <1>1, <1>3, <1>4 DEF TypeOK
<1>6. Provenance' /\ Passed'
  BY <1>4 DEF Provenance, Passed, ForwardsToDefinition
<1>7. Place'
  BY <1>4 DEF Place, Working, HookedPage
<1>8. Current'
  <2>1. \A e \in lines \cup entries : e[1] \in Modules
    BY DEF TypeOK
  <2>2. Unready' \subseteq raced'
    BY <1>1 DEF Current, Unready
  <2> QED BY <1>1, <1>2, <1>3, <2>1, <2>2 DEF Current, CrashOnlyRaced, Dead
<1>9. Swept'
  BY <1>4 DEF Swept, Working, Visited, Due
<1> QED BY <1>5, <1>6, <1>7, <1>8, <1>9

(* dlopen goes on in a module that is not linked yet, which is raced.      *)
LEMMA LinkingKeeps ==
  ASSUME IInv, NEW m \in raced,
         \A s \in Slots : slot'[s] = slot[s] \/ (Owner[s] = m /\ slot'[s] \in {Bound[s], NULL, Raw}),
         slot' \in [Slots -> Definitions \cup {New, NULL, Raw}], unbound' \subseteq Slots,
         writable' \subseteq Modules \X Pages,
         \A n \in Modules, p \in Pages : n # m /\ <<n, p>> \in writable => <<n, p>> \in writable',
         phase' \in [Modules -> {"mapping", "linking", "ready"}], Unready' \subseteq raced,
         \A s \in unbound' : Waiting(s)',
         UNCHANGED <<base, lines, entries, hooker, left, work, old, thread, raced, tainted, failed>>
  PROVE  IInv'
<1> USE GotAssumption DEF IInv, Saved
<1>1. TypeOK'
  BY DEF TypeOK
<1>2. Provenance' /\ Passed'
  BY DEF Provenance, Passed, ForwardsToDefinition
<1>3. Place'
  <2>1. hooker.at = "write" => hooker.m \in Modules /\ Page[hooker.s] \in Pages
    BY DEF Place, Working, SlotsOf, TypeOK
  <2>2. hooker.at = "write" /\ hooker.m # m /\ HookedPage \in writable => HookedPage' \in writable'
    BY <2>1 DEF HookedPage
  <2> QED BY <2>2 DEF Place, Working
<1>4. Current'
  BY DEF Current, CrashOnlyRaced, Dead
<1>5. Swept'
  BY DEF Swept, Working, Visited, Due
<1> QED BY <1>1, <1>2, <1>3, <1>4, <1>5

LEMMA MapRestKeeps ==
  ASSUME IInv, NEW m \in Modules, MapRest(m)
  PROVE  IInv'
<1> USE GotAssumption DEF IInv, MapRest, History
<1>1. m \in raced
  BY DEF Current, Unready
<1>2. /\ phase' \in [Modules -> {"mapping", "linking", "ready"}]
      /\ \A n \in Modules : phase'[n] # "ready" => phase[n] # "ready"
  BY DEF TypeOK
<1>3. Unready' \subseteq raced /\ \A s \in unbound' : Waiting(s)'
  BY <1>2 DEF Current, Unready, Waiting, TypeOK
<1>4. /\ \A s \in Slots : slot'[s] = slot[s] \/ (Owner[s] = m /\ slot'[s] \in {Bound[s], NULL, Raw})
      /\ slot' \in [Slots -> Definitions \cup {New, NULL, Raw}] /\ unbound' \subseteq Slots
  BY DEF TypeOK
<1>5. /\ writable' \subseteq Modules \X Pages
      /\ \A n \in Modules, p \in Pages : <<n, p>> \in writable => <<n, p>> \in writable'
  BY DEF TypeOK, PagesOf
<1> QED BY <1>1, <1>2, <1>3, <1>4, <1>5, LinkingKeeps

LEMMA RelocateKeeps ==
  ASSUME IInv, NEW s \in Slots, Relocate(s)
  PROVE  IInv'
<1> USE GotAssumption DEF IInv, Relocate, History
<1>1. Owner[s] \in raced
  BY DEF Current, Unready, Waiting
<1>2. \A r \in Slots : slot'[r] = slot[r] \/ (Owner[r] = Owner[s] /\ slot'[r] \in {Bound[r], NULL, Raw})
  BY DEF TypeOK
<1>3. slot' \in [Slots -> Definitions \cup {New, NULL, Raw}] /\ unbound' \subseteq Slots
  BY DEF TypeOK, Definitions
<1>4. /\ phase' \in [Modules -> {"mapping", "linking", "ready"}] /\ Unready' \subseteq raced
      /\ \A r \in unbound' : Waiting(r)'
  BY DEF TypeOK, Current, Unready, Waiting
<1>5. writable' = writable /\ writable \subseteq Modules \X Pages
  BY DEF TypeOK
<1> QED BY <1>1, <1>2, <1>3, <1>4, <1>5, LinkingKeeps

LEMMA LinkedKeeps ==
  ASSUME IInv, NEW m \in Modules, Linked(m)
  PROVE  IInv'
<1> USE GotAssumption DEF IInv, Linked, History
<1>1. m \in raced
  BY DEF Current, Unready
<1>2. /\ phase' \in [Modules -> {"mapping", "linking", "ready"}] /\ Unready' \subseteq raced
      /\ \A s \in unbound' : Waiting(s)'
  BY DEF TypeOK, Current, Unready, Waiting
<1>3. slot' = slot /\ slot \in [Slots -> Definitions \cup {New, NULL, Raw}] /\ unbound' \subseteq Slots
  BY DEF TypeOK
<1>4. /\ writable' \subseteq Modules \X Pages
      /\ \A n \in Modules, p \in Pages : n # m /\ <<n, p>> \in writable => <<n, p>> \in writable'
  BY DEF TypeOK
<1> QED BY <1>1, <1>2, <1>3, <1>4, LinkingKeeps

LEMMA UnloadKeeps ==
  ASSUME IInv, NEW m \in Modules, Unload(m)
  PROVE  IInv'
<1> USE GotAssumption DEF IInv, Saved, Unready, Waiting, Unload, Library
<1>1. TypeOK' BY DEF TypeOK
<1>2. Provenance' BY DEF Provenance
<1>3. Place'
  <2>1. hooker.at = "write" /\ hooker.m # m => (HookedPage \in writable => HookedPage' \in writable')
    BY DEF HookedPage, PagesOf
  <2> QED BY <2>1 DEF Place, Working
<1>4. Passed' BY DEF Passed, ForwardsToDefinition
<1>5. Current'
  <2>1. \A e \in lines \cup entries : e[1] \in Modules
    BY DEF TypeOK
  <2> QED BY <2>1 DEF Current, CrashOnlyRaced, Dead, TypeOK
<1>6. Swept' BY DEF Swept, Working, Visited, Due
<1> QED BY <1>1, <1>2, <1>3, <1>4, <1>5, <1>6

(* Threads that call through a slot.                                       *)
LEMMA ThreadKeeps ==
  ASSUME IInv, NEW t \in Threads, Forward(t) \/ Leave(t) \/ \E s \in Slots : Enter(t, s)
  PROVE  IInv'
<1> USE GotAssumption DEF IInv, Saved, Unready, Waiting, Library, History
<1>0. UNCHANGED <<base, phase, slot, unbound, writable, lines, entries, hooker, left, work, old, raced, tainted, failed>>
  BY DEF Forward, Leave, Enter
<1>1. Provenance' /\ Current'
  BY <1>0 DEF Provenance, Current, CrashOnlyRaced, Dead
<1>2. Place'
  BY <1>0 DEF Place, Working, HookedPage
<1>3. Swept'
  BY <1>0 DEF Swept, Working, Visited, Due
<1>4. ASSUME Forward(t) PROVE TypeOK' /\ Passed'
  <2> USE <1>4 DEF Forward
  <2>1. thread[t].via \in Slots
    BY DEF TypeOK
  <2>2. /\ old[Symbol[thread[t].via]] # NULL \/ Symbol[thread[t].via] \in tainted
        /\ old[Symbol[thread[t].via]] \in Definitions \cup {NULL, Raw}
    BY <2>1 DEF Passed, TypeOK
  <2>3. /\ thread'[t].at = "original" /\ thread'[t].via = thread[t].via
        /\ thread'[t].to = old[Symbol[thread[t].via]]
        /\ \A u \in Threads : u # t => thread'[u] = thread[u]
    BY DEF TypeOK
  <2>4. thread' \in [Threads -> [at : {"outside", "replacement", "original"},
                                via : Slots \cup {NULL}, to : Definitions \cup {NULL, Raw}]]
    BY <2>1, <2>2 DEF TypeOK
  <2>5. TypeOK' BY <1>0, <2>1, <2>3, <2>4 DEF TypeOK
  <2>6. Symbol[thread[t].via] \notin tainted =>
          \E s \in Slots : Symbol[s] = Symbol[thread[t].via] /\ thread'[t].to = Bound[s]
    BY <2>1, <2>2, <2>3 DEF Provenance
  <2>7. ASSUME NEW u \in Threads, thread'[u].at = "replacement"
        PROVE  Saved(Symbol[thread'[u].via])
    <3>1. u # t /\ thread'[u] = thread[u]
      BY <2>3, <2>7
    <3> QED BY <2>7, <3>1 DEF Passed
  <2>8. ForwardsToDefinition'
    <3>1. ASSUME NEW u \in Threads, thread'[u].at = "original", Symbol[thread'[u].via] \notin tainted
          PROVE  \E s \in Slots : Symbol[s] = Symbol[thread'[u].via] /\ thread'[u].to = Bound[s]
      <4>1. CASE u = t BY <3>1, <4>1, <2>3, <2>6
      <4>2. CASE u # t
        <5>1. thread'[u] = thread[u]
          BY <4>2, <2>3
        <5> QED BY <3>1, <5>1 DEF Passed, ForwardsToDefinition
      <4> QED BY <4>1, <4>2
    <3> QED BY <1>0, <3>1 DEF ForwardsToDefinition
  <2>9. Passed' BY <1>0, <2>7, <2>8 DEF Passed
  <2> QED BY <2>5, <2>9
<1>5. ASSUME Leave(t) PROVE TypeOK' /\ Passed'
  <2> USE <1>5 DEF Leave, Outside
  <2>1. TypeOK' BY <1>0 DEF TypeOK
  <2>2. Passed' BY <1>0 DEF Passed, ForwardsToDefinition, TypeOK
  <2> QED BY <2>1, <2>2
<1>6. ASSUME NEW s \in Slots, Enter(t, s) PROVE TypeOK' /\ Passed'
  <2> USE <1>6 DEF Enter
  <2>1. /\ thread'[t] = [at |-> "replacement", via |-> s, to |-> NULL]
        /\ \A u \in Threads : u # t => thread'[u] = thread[u]
        /\ DOMAIN thread' = Threads
    BY DEF TypeOK
  <2>2. thread' \in [Threads -> [at : {"outside", "replacement", "original"},
                                via : Slots \cup {NULL}, to : Definitions \cup {NULL, Raw}]]
    BY DEF TypeOK
  <2>3. TypeOK' BY <1>0, <2>1, <2>2 DEF TypeOK
  <2>4. Saved(Symbol[s])
    BY DEF Provenance
  <2>5. Passed' BY <1>0, <2>1, <2>4 DEF Passed, ForwardsToDefinition
  <2> QED BY <2>3, <2>5
<1> QED BY <1>1, <1>2, <1>3, <1>4, <1>5, <1>6

LEMMA NextKeeps == IInv /\ [Next]_vars => IInv'
<1> SUFFICES ASSUME IInv, [Next]_vars PROVE IInv'
  OBVIOUS
<1>1. CASE UNCHANGED vars
  <2> USE <1>1 DEF vars, IInv, Saved, Unready
  <2>1. TypeOK' BY DEF TypeOK
  <2>2. Provenance' /\ Place' BY DEF Provenance, Place, Working, HookedPage
  <2>3. Passed'
    BY DEF Passed, ForwardsToDefinition
  <2>a. Unready' \subseteq raced' /\ \A s \in unbound' : Waiting(s)'
    <3>1. Unready' = Unready /\ raced' = raced /\ unbound' = unbound
      OBVIOUS
    <3>0. phase' = phase /\ base' = base
      OBVIOUS
    <3>2. \A s \in unbound : Waiting(s)' <=> Waiting(s)
      BY <3>0, Zenon DEF Waiting
    <3> HIDE DEF Unready, Waiting
    <3> QED BY <3>1, <3>2, Zenon DEF Current
  <2>b. (\A e \in lines \cup entries : base[e[1]] = e[2] \/ e[1] \in raced)'
    BY DEF Current
  <2>c. CrashOnlyRaced'
    BY DEF Current, CrashOnlyRaced, Dead
  <2>5. Current'
    BY <2>a, <2>b, <2>c DEF Current
  <2>4. Swept' BY DEF Swept, Working, Visited, Due
  <2> QED BY <2>1, <2>2, <2>3, <2>4, <2>5
<1>2. CASE SetHook
  BY <1>2, SetHookKeeps
<1>3. CASE Hooker
  BY <1>3, ParseKeeps, VisitKeeps, LoopsKeep, CrashKeeps, AlreadyReplacedKeeps,
     SaveOldKeeps, ProtectKeeps, WriteKeeps DEF Hooker
<1>4. CASE \E m \in Transient : MapRest(m) \/ Linked(m) \/ Unload(m) \/ \E b \in Bases : Map(m, b)
  BY <1>4, GotAssumption, MapRestKeeps, LinkedKeeps, UnloadKeeps, MapKeeps
<1>6. CASE \E s \in Slots : Relocate(s)
  BY <1>6, RelocateKeeps
<1>5. CASE \E t \in Threads : Forward(t) \/ Leave(t) \/ \E s \in Slots : Enter(t, s)
  BY <1>5, ThreadKeeps
<1> QED BY <1>1, <1>2, <1>3, <1>4, <1>5, <1>6 DEF Next

-----------------------------------------------------------------------------
(* The values, the hooker, the threads and the maps stay as described.     *)
THEOREM Invariant == Spec => []IInv
BY InitIInv, NextKeeps, PTL DEF Spec

(* The state of setHook and of the process is well typed.                  *)
THEOREM TypeCorrect == Spec => []TypeOK
BY Invariant, PTL DEF IInv

(* A call through a redirected slot reaches a definition of its function:  *)
(* replace_function sets *old_func first and never from a redirected slot; *)
(* the function must not have met a slot the linker had not bound.         *)
THEOREM CallsForwarded == Spec => []ForwardsToDefinition
BY Invariant, PTL DEF IInv, Passed

(* ... its own, when all slots of the function are bound to one.           *)
THEOREM CallsForwardedHome == Spec => []ForwardsHome
<1>1. IInv => ForwardsHome
  BY DEF IInv, TypeOK, Passed, ForwardsToDefinition, ForwardsHome, Uniform
<1> QED BY <1>1, Invariant, PTL

(* setHook crashes only over a module that was unmapped, or not yet linked,*)
(* while it ran.                                                           *)
THEOREM NoStaleEntry == Spec => []CrashOnlyRaced
BY Invariant, PTL DEF IInv, Current

(* When hook_all_modules has been over the last function, every slot it    *)
(* could write is redirected, in every listed module that was linked.      *)
THEOREM AllHooked == Spec => HookedOnReturn
<1> DEFINE A == At("module") /\ hooker'.at = "idle" =>
                  \A e \in entries, s \in Slots :
                    e[1] = Owner[s] /\ e[1] \notin raced /\ <<e[1], Symbol[s]>> \notin failed
                      => slot[s] = New
<1>1. IInv /\ [Next]_vars => [A]_vars
  <2> SUFFICES ASSUME IInv, Next, At("module"), hooker'.at = "idle",
                      NEW e \in entries, NEW s \in Slots, Due(e, s)
               PROVE  slot[s] = New
    BY DEF Due
  <2>0. hooker.at = "module" /\ DOMAIN hooker = {"at", "f", "m", "s"} /\ hooker' # hooker
    BY DEF At, IInv, TypeOK
  <2>a. ~SetHook /\ ~Parsed /\ ~ModuleDone /\ ~AlreadyReplaced /\ ~SaveOld /\ ~Protect
        /\ ~ProtectFails /\ ~Write /\ ~CrashInSlot
    BY <2>0 DEF SetHook, Parsed, ModuleDone, AlreadyReplaced, SaveOld, Protect, ProtectFails,
                Write, CrashInSlot, At
  <2>b. ~VisitModule /\ ~NextFunction
    BY DEF VisitModule, NextFunction, Position
  <2>c. ~CrashInModule
    BY <2>0 DEF CrashInModule, IInv, TypeOK
  <2>d. \A x \in Modules \X Bases : ~ReadHeader(x) /\ ~CrashInParse(x)
    BY <2>0 DEF ReadHeader, CrashInParse, At
  <2>e. /\ ~(\E m \in Transient : MapRest(m) \/ Linked(m) \/ Unload(m) \/ \E b \in Bases : Map(m, b))
        /\ ~(\E x \in Slots : Relocate(x))
    BY <2>0 DEF MapRest, Linked, Unload, Map, Relocate
  <2>f. ~(\E t \in Threads : Forward(t) \/ Leave(t) \/ \E x \in Slots : Enter(t, x))
    BY <2>0 DEF Forward, Leave, Enter
  <2>1. left = {} /\ Later = {}
    BY <2>a, <2>b, <2>c, <2>d, <2>e, <2>f DEF Next, Hooker, Return
  <2>2. hooker.f \in Funcs /\ ~Working
    BY DEF IInv, Place, Working, At
  <2>3. Symbol[s] \in Nat /\ hooker.f \in Nat /\ ~(Symbol[s] > hooker.f)
    BY <2>1, <2>2, GotAssumption DEF Later
  <2>4. Visited(e, s)
    BY <2>1, <2>2, <2>3 DEF Visited
  <2> QED BY <2>4 DEF IInv, Swept, At
<1>2. [][IInv]_vars /\ [][Next]_vars => [][A]_vars
  BY <1>1, PTL
<1> QED BY <1>2, Invariant, PTL DEF Spec, HookedOnReturn

-----------------------------------------------------------------------------
Tables ==
  /\ name \in [Symbols -> Names \cup {NoName}]
  /\ \A k \in Symbols : name[k] = NoName <=> k = 0
  /\ order \in [1 .. N -> 1 .. N]
  /\ \A k, l \in 1 .. N : order[k] = order[l] => k = l
  /\ symndx \in 1 .. N + 1 /\ symbol \in Names

(* No symbol of the bucket in front of i, which is in it, has the name.    *)
ChainSoFar ==
  /\ i \in InBucket(Bucket(symbol))
  /\ \A k \in InBucket(Bucket(symbol)) : k < i => name[k] # symbol

(* The symbols of the hash table do not have the name, nor do the symbols  *)
(* looked at so far unless one was found.                                  *)
LinearSoFar ==
  /\ \A k \in symndx .. N : name[k] # symbol
  /\ found = None => \A k \in 0 .. N : k < i => name[k] # symbol
  /\ found # None => name[found] = symbol

(* None of the list up to i has the name; i = 0 is its end.                *)
WalkSoFar ==
  \A l \in 1 .. N : Bucket(name[l]) = Bucket(symbol) /\ (i # 0 => order[l] <= order[i])
                      => name[l] # symbol

LookupInv ==
  /\ Tables /\ LookupTypeOK
  /\ pc \in {"gnu", "chain"} => Sorted /\ found = None
  /\ pc \in {"sysv", "walk"} => found = None
  /\ pc = "chain" => ChainSoFar
  /\ pc = "linear" => LinearSoFar
  /\ pc = "walk" => WalkSoFar /\ (i # 0 => Bucket(name[i]) = Bucket(symbol))
  /\ RightWhenDone

LEMMA Naming ==
  ASSUME Tables, NEW k \in 1 .. N
  PROVE  name[k] \in Names /\ Bucket(name[k]) \in Nat /\ k \in Symbols
<1> USE LookupAssumption DEF Symbols, Tables
<1>1. k \in Symbols /\ name[k] \in Names
  OBVIOUS
<1>2. Hash[name[k]] \in Nat
  BY <1>1
<1> QED BY <1>1, <1>2 DEF Bucket

LEMMA FirstIsFirst ==
  ASSUME Tables, NEW b
  PROVE  /\ First(b) = 0 <=> InBucket(b) = {}
         /\ First(b) # 0 => First(b) \in InBucket(b) /\ \A l \in InBucket(b) : First(b) <= l
<1> USE LookupAssumption DEF Tables, Symbols
<1>1. InBucket(b) \in SUBSET Nat /\ 0 \notin InBucket(b)
  BY DEF InBucket
<1>2. CASE InBucket(b) = {}
  BY <1>2 DEF First
<1>3. CASE InBucket(b) # {}
  <2>1. First(b) \in InBucket(b) /\ \A l \in InBucket(b) : First(b) <= l
    BY <1>1, <1>3, LeastIsLeast DEF First
  <2> QED BY <1>1, <1>3, <2>1
<1> QED BY <1>2, <1>3

LEMMA FollowingFollows ==
  ASSUME Tables, NEW b, NEW k \in Symbols
  PROVE  /\ Following(b, k) = 0 <=> After(b, k) = {}
         /\ Following(b, k) # 0 => /\ Following(b, k) \in After(b, k)
                                   /\ \A j \in After(b, k) : order[Following(b, k)] <= order[j]
<1> USE LookupAssumption DEF Tables
<1> DEFINE places == {order[l] : l \in After(b, k)}
<1>1. After(b, k) \subseteq 1 .. N
  BY DEF After
<1>2. CASE After(b, k) = {}
  BY <1>2 DEF Following
<1>3. CASE After(b, k) # {}
  <2>1. places \in SUBSET Nat /\ places # {}
    BY <1>1, <1>3, SMTT(30)
  <2>2. PICK x \in places : \A y \in places : x <= y
    BY <2>1, LeastIsLeast
  <2>3. PICK l \in After(b, k) : order[l] = x
    OBVIOUS
  <2>4. \A j \in After(b, k) : order[l] <= order[j]
    BY <2>2, <2>3
  <2>5. Following(b, k) \in After(b, k) /\ \A j \in After(b, k) : order[Following(b, k)] <= order[j]
    BY <1>3, <2>4 DEF Following
  <2>6. Following(b, k) # 0
    <3> HIDE DEF places
    <3>1. Following(b, k) \in 1 .. N
      BY <1>1, <2>5
    <3> QED BY <3>1
  <2> QED BY <1>3, <2>5, <2>6
<1> QED BY <1>2, <1>3

LEMMA LookupInitially == LookupInit => LookupInv
<1> SUFFICES ASSUME LookupInit PROVE LookupInv
  OBVIOUS
<1>1. Tables
  <2>1. PICK nm \in [Symbols -> Names \cup {NoName}] :
          (\A k \in Symbols : nm[k] = NoName <=> k = 0) /\ name = nm
    BY DEF LookupInit
  <2>2. PICK o \in [1 .. N -> 1 .. N] :
          (\A k, l \in 1 .. N : o[k] = o[l] => k = l) /\ order = o
    BY DEF LookupInit
  <2>3. symndx \in 1 .. N + 1 /\ symbol \in Names
    BY DEF LookupInit
  <2> QED BY <2>1, <2>2, <2>3 DEF Tables
<1>2. pc \in {"gnu", "sysv"} /\ found = None /\ i = 0 /\ (pc = "gnu" => Sorted)
  BY DEF LookupInit
<1> QED BY <1>1, <1>2 DEF LookupInv, LookupTypeOK, RightWhenDone

(* The bucket of a sorted table ends where the next symbol is not in it.   *)
LEMMA LastIsLast ==
  ASSUME Tables, Sorted, NEW k \in InBucket(Bucket(symbol)), Last(k)
  PROVE  \A l \in InBucket(Bucket(symbol)) : l <= k
<1> USE LookupAssumption DEF Symbols
<1>0. symndx \in 1 .. N + 1 /\ k \in symndx .. N /\ Bucket(name[k]) = Bucket(symbol)
  BY DEF InBucket, Tables
<1> SUFFICES ASSUME NEW l \in InBucket(Bucket(symbol)), k < l PROVE FALSE
  BY <1>0 DEF InBucket
<1>1. l \in symndx .. N /\ Bucket(name[l]) = Bucket(symbol) /\ k + 1 \in symndx .. N /\ k + 1 <= l
  BY <1>0 DEF InBucket, Tables
<1>2. Bucket(name[k + 1]) # Bucket(symbol)
  BY <1>0, <1>1 DEF Last, InBucket
<1>3. Bucket(name[k]) <= Bucket(name[k + 1])
  BY <1>0, <1>1 DEF Sorted
<1>4. Bucket(name[k + 1]) <= Bucket(name[l])
  <2>1. CASE k + 1 = l
    BY <1>0, <1>1, <1>2, <2>1
  <2>2. CASE k + 1 < l
    BY <1>1, <2>2 DEF Sorted
  <2> QED BY <1>0, <1>1, <2>1, <2>2
<1>5. k \in 1 .. N /\ k + 1 \in 1 .. N /\ l \in 1 .. N
  BY <1>0, <1>1
<1>6. Bucket(name[k]) \in Nat /\ Bucket(name[k + 1]) \in Nat /\ Bucket(name[l]) \in Nat
  BY <1>5, Naming
<1> QED BY <1>0, <1>1, <1>2, <1>3, <1>4, <1>6

LEMMA GnuStartKeeps == LookupInv /\ GnuStart => LookupInv'
<1> SUFFICES ASSUME LookupInv, GnuStart PROVE LookupInv'
  OBVIOUS
<1> USE LookupAssumption DEF LookupInv, GnuStart, tables
<1> DEFINE b == Bucket(symbol)
<1>1. Tables' /\ (Sorted => Sorted')
  BY DEF Tables, Sorted, Bucket
<1>2. InBucket(b)' = InBucket(b) /\ InBucket(b) \subseteq symndx .. N
  BY DEF InBucket, Bucket, Symbols, Tables
<1>3. CASE Bits(symbol) \subseteq Bloom /\ First(b) # 0
  <2>1. i' = First(b) /\ pc' = "chain" /\ First(b) \in InBucket(b) /\ \A l \in InBucket(b) : First(b) <= l
    BY <1>3, FirstIsFirst
  <2>2. ChainSoFar'
    BY <1>2, <2>1 DEF ChainSoFar, Bucket, Tables
  <2>3. LookupTypeOK'
    BY <1>2, <2>1 DEF LookupTypeOK
  <2> QED BY <1>1, <2>1, <2>2, <2>3 DEF RightWhenDone
<1>4. CASE ~(Bits(symbol) \subseteq Bloom /\ First(b) # 0)
  <2>1. i' = 0 /\ pc' = "linear" /\ found' = None
    BY <1>4
  <2>2. ASSUME NEW k \in symndx .. N, name[k] = symbol PROVE FALSE
    <3>1. Bits(symbol) \subseteq Bloom
      BY <2>2 DEF Bloom
    <3>2. k \in InBucket(b)
      BY <2>2 DEF InBucket, Symbols, Tables
    <3> QED BY <1>4, <3>1, <3>2, FirstIsFirst
  <2>3. LinearSoFar'
    BY <2>1, <2>2 DEF LinearSoFar
  <2>4. LookupTypeOK'
    BY <2>1 DEF LookupTypeOK, Tables
  <2> QED BY <1>1, <2>1, <2>3, <2>4 DEF RightWhenDone
<1> QED BY <1>3, <1>4

LEMMA GnuNextKeeps == LookupInv /\ GnuNext => LookupInv'
<1> SUFFICES ASSUME LookupInv, GnuNext PROVE LookupInv'
  OBVIOUS
<1> USE LookupAssumption DEF LookupInv, GnuNext, tables
<1> DEFINE b == Bucket(symbol)
<1>1. Tables' /\ (Sorted => Sorted')
  BY DEF Tables, Sorted, Bucket
<1>2. InBucket(b)' = InBucket(b) /\ InBucket(b) \subseteq symndx .. N /\ b' = b
  BY DEF InBucket, Bucket, Symbols, Tables
<1>3. i \in InBucket(b) /\ i \in Nat /\ i \in Symbols /\ i # None
  BY DEF ChainSoFar, InBucket, Symbols
<1>4. CASE name[i] = symbol
  <2>1. pc' = "done" /\ found' = i
    BY <1>4
  <2>2. RightWhenDone'
    BY <1>3, <1>4, <2>1 DEF RightWhenDone, Right
  <2>3. LookupTypeOK'
    BY <1>3, <2>1 DEF LookupTypeOK
  <2> QED BY <1>1, <2>1, <2>2, <2>3
<1>5. CASE name[i] # symbol /\ Last(i)
  <2>1. i' = 0 /\ pc' = "linear" /\ found' = None
    BY <1>5
  <2>2. ASSUME NEW k \in symndx .. N, name[k] = symbol PROVE FALSE
    <3>1. k \in InBucket(b)
      BY <2>2 DEF InBucket, Symbols, Tables
    <3>2. k <= i
      BY <1>3, <1>5, <3>1, LastIsLast
    <3>3. k < i
      BY <1>3, <1>5, <2>2, <3>2 DEF Tables
    <3> QED BY <2>2, <3>1, <3>3 DEF ChainSoFar
  <2>3. LinearSoFar'
    BY <2>1, <2>2 DEF LinearSoFar
  <2>4. LookupTypeOK'
    BY <2>1 DEF LookupTypeOK, Tables
  <2> QED BY <1>1, <2>1, <2>3, <2>4 DEF RightWhenDone
<1>6. CASE name[i] # symbol /\ ~Last(i)
  <2>1. i' = i + 1 /\ pc' = "chain" /\ found' = None
    BY <1>6
  <2>2. i + 1 \in InBucket(b)
    BY <1>3, <1>6 DEF Last, InBucket
  <2>3. ChainSoFar'
    <3>1. \A k \in InBucket(b) : k < i + 1 => name[k] # symbol
      <4> SUFFICES ASSUME NEW k \in InBucket(b), k < i + 1 PROVE name[k] # symbol
        OBVIOUS
      <4>1. k \in Nat
        BY DEF InBucket, Symbols
      <4>2. k < i \/ k = i
        BY <1>3, <4>1
      <4> QED BY <1>6, <4>2 DEF ChainSoFar
    <3> QED BY <1>2, <2>1, <2>2, <3>1 DEF ChainSoFar
  <2>4. LookupTypeOK'
    BY <1>2, <2>1, <2>2 DEF LookupTypeOK
  <2> QED BY <1>1, <2>1, <2>3, <2>4 DEF RightWhenDone
<1> QED BY <1>4, <1>5, <1>6

LEMMA LinearKeeps == LookupInv /\ Linear => LookupInv'
<1> SUFFICES ASSUME LookupInv, Linear PROVE LookupInv'
  OBVIOUS
<1> USE LookupAssumption DEF LookupInv, Linear, tables
<1>1. Tables' /\ symndx \in 1 .. N + 1 /\ i \in 0 .. symndx /\ LinearSoFar
  BY DEF Tables, LookupTypeOK
<1>2. CASE i < symndx
  <2>1. i' = i + 1 /\ pc' = "linear" /\ i \in 0 .. N /\ i # None /\ i + 1 \in 0 .. symndx
    BY <1>1, <1>2
  <2>2. CASE name[i] = symbol
    <3>1. found' = i
      BY <1>2, <2>2
    <3>2. LinearSoFar' /\ LookupTypeOK'
      BY <1>1, <2>1, <2>2, <3>1 DEF LinearSoFar, LookupTypeOK, Symbols
    <3> QED BY <1>1, <2>1, <3>2 DEF RightWhenDone
  <2>3. CASE name[i] # symbol
    <3>1. found' = found
      BY <1>2, <2>3
    <3>2. \A k \in 0 .. N : k < i + 1 => k < i \/ k = i
      BY <2>1
    <3>3. LinearSoFar'
      BY <1>1, <2>1, <2>3, <3>1, <3>2 DEF LinearSoFar
    <3>4. LookupTypeOK'
      BY <2>1, <3>1 DEF LookupTypeOK
    <3> QED BY <1>1, <2>1, <3>3, <3>4 DEF RightWhenDone
  <2> QED BY <2>2, <2>3
<1>3. CASE ~(i < symndx)
  <2>1. pc' = "done" /\ found' = found /\ i' = i /\ i = symndx
    BY <1>1, <1>3
  <2>2. \A k \in Symbols : k < i \/ k \in symndx .. N
    BY <1>1, <2>1 DEF Symbols
  <2>3. Right'
    BY <1>1, <2>1, <2>2 DEF LinearSoFar, Right, Symbols
  <2> QED BY <1>1, <2>1, <2>3 DEF LookupTypeOK, RightWhenDone
<1> QED BY <1>2, <1>3

(* The list of a bucket from k on: what the next symbol leaves out.        *)
LEMMA NextInList ==
  ASSUME Tables, NEW b, NEW k \in Symbols
  PROVE  /\ Following(b, k) \in Symbols
         /\ Following(b, k) # 0 => Bucket(name[Following(b, k)]) = b
         /\ \A l \in 1 .. N : Bucket(name[l]) = b /\ (k # 0 => ~(order[l] <= order[k])) =>
              /\ Following(b, k) # 0
              /\ order[l] <= order[Following(b, k)] => l = Following(b, k)
<1> USE LookupAssumption DEF Symbols
<1> DEFINE n == Following(b, k)
<1>1. /\ n = 0 <=> After(b, k) = {}
      /\ n # 0 => n \in After(b, k) /\ \A j \in After(b, k) : order[n] <= order[j]
  BY FollowingFollows
<1>2. After(b, k) \subseteq 1 .. N
  BY DEF After
<1> HIDE DEF n
<1>3. n \in Symbols
  BY <1>1, <1>2
<1>4. n # 0 => Bucket(name[n]) = b
  BY <1>1 DEF After
<1>5. ASSUME NEW l \in 1 .. N, Bucket(name[l]) = b, k # 0 => ~(order[l] <= order[k])
      PROVE  n # 0 /\ (order[l] <= order[n] => l = n)
  <2>0. order[l] \in Nat /\ (k # 0 => order[k] \in Nat)
    BY DEF Tables
  <2>1. l \in After(b, k)
    BY <1>5, <2>0 DEF After
  <2>2. n # 0 /\ n \in 1 .. N /\ order[n] <= order[l]
    BY <1>1, <1>2, <2>1
  <2>3. order[n] \in Nat
    BY <2>2 DEF Tables
  <2>4. order[l] <= order[n] => order[l] = order[n]
    BY <2>0, <2>2, <2>3
  <2> QED BY <2>2, <2>4 DEF Tables
<1> QED BY <1>3, <1>4, <1>5 DEF n

LEMMA Unnamed == Tables => name[0] # symbol /\ 0 \in Symbols
  BY LookupAssumption DEF Tables, Symbols

LEMMA SysvStartKeeps == LookupInv /\ SysvStart => LookupInv'
<1> SUFFICES ASSUME LookupInv, SysvStart PROVE LookupInv'
  OBVIOUS
<1> USE LookupAssumption DEF LookupInv, SysvStart, tables
<1> DEFINE b == Bucket(symbol)
           k == Following(b, 0)
<1>a. Tables'
  BY DEF Tables
<1>b. k \in Symbols
  BY NextInList, Unnamed
<1>1. Tables' /\ k \in Symbols /\ k # None /\ k \in Nat
  <2> HIDE DEF k
  <2> QED BY <1>a, <1>b DEF Symbols
<1>2. CASE name[k] = symbol
  <2>1. pc' = "done" /\ found' = k
    BY <1>2
  <2> HIDE DEF k
  <2> QED BY <1>1, <1>2, <2>1 DEF LookupTypeOK, RightWhenDone, Right
<1>3. CASE name[k] # symbol
  <2>1. pc' = "walk" /\ found' = None /\ i' = k
    BY <1>3
  <2>2. k # 0 => Bucket(name[k]) = b
    BY NextInList, Unnamed
  <2>3. \A l \in 1 .. N : Bucket(name[l]) = b => k # 0 /\ (order[l] <= order[k] => l = k)
    BY NextInList, Unnamed
  <2> HIDE DEF k
  <2>4. WalkSoFar'
    BY <1>3, <2>1, <2>3 DEF WalkSoFar, Bucket
  <2>5. LookupTypeOK' /\ RightWhenDone'
    BY <1>1, <2>1 DEF LookupTypeOK, RightWhenDone
  <2>6. (i # 0 => Bucket(name[i]) = Bucket(symbol))'
    BY <2>1, <2>2 DEF Bucket
  <2> QED BY <1>1, <2>1, <2>4, <2>5, <2>6
<1> QED BY <1>2, <1>3

LEMMA SysvNextKeeps == LookupInv /\ SysvNext => LookupInv'
<1> SUFFICES ASSUME LookupInv, SysvNext PROVE LookupInv'
  OBVIOUS
<1> USE LookupAssumption DEF LookupInv, SysvNext, tables
<1> DEFINE b == Bucket(symbol)
           k == Chain(i)
<1>1. i \in Symbols /\ WalkSoFar /\ (i # 0 => Bucket(name[i]) = b /\ k = Following(b, i)) /\ (i = 0 => k = 0)
  BY DEF LookupTypeOK, Chain
<1>2. Tables' /\ k \in Symbols /\ k # None /\ k \in Nat
  <2>1. k \in Symbols
    BY <1>1, NextInList, Unnamed
  <2>2. Tables'
    BY DEF Tables
  <2> HIDE DEF k
  <2> QED BY <2>1, <2>2 DEF Symbols
<1>3. k # 0 => Bucket(name[k]) = b
  BY <1>1, NextInList
<1>4. ASSUME NEW l \in 1 .. N, Bucket(name[l]) = b, name[l] = symbol
      PROVE  k # 0 /\ (order[l] <= order[k] => l = k)
  <2>1. i # 0 /\ ~(order[l] <= order[i])
    BY <1>1, <1>4 DEF WalkSoFar
  <2> QED BY <1>1, <1>4, <2>1, NextInList
<1> HIDE DEF k
<1>5. CASE name[k] = symbol
  <2>1. pc' = "done" /\ found' = k
    BY <1>5 DEF k
  <2> QED BY <1>2, <1>5, <2>1 DEF LookupTypeOK, RightWhenDone, Right
<1>6. CASE name[k] # symbol /\ k = 0
  <2>1. pc' = "done" /\ found' = None
    BY <1>6 DEF k
  <2>2. \A l \in Symbols : name[l] # symbol
    <3>1. \A l \in 1 .. N : name[l] # symbol
      BY <1>4, <1>6
    <3> QED BY <3>1, Unnamed DEF Symbols
  <2> QED BY <1>2, <2>1, <2>2 DEF LookupTypeOK, RightWhenDone, Right, Symbols
<1>7. CASE name[k] # symbol /\ k # 0
  <2>1. pc' = "walk" /\ found' = None /\ i' = k
    BY <1>7 DEF k
  <2>2. WalkSoFar'
    BY <1>4, <1>7, <2>1 DEF WalkSoFar, Bucket
  <2>3. LookupTypeOK' /\ RightWhenDone'
    BY <1>2, <2>1 DEF LookupTypeOK, RightWhenDone
  <2>4. (i # 0 => Bucket(name[i]) = Bucket(symbol))'
    BY <1>3, <2>1 DEF Bucket
  <2> QED BY <1>2, <2>1, <2>2, <2>3, <2>4
<1> QED BY <1>5, <1>6, <1>7

LEMMA LookupNextKeeps == LookupInv /\ [LookupNext]_lookupVars => LookupInv'
<1> SUFFICES ASSUME LookupInv, [LookupNext]_lookupVars PROVE LookupInv'
  OBVIOUS
<1>1. CASE UNCHANGED lookupVars
  BY <1>1 DEF lookupVars, tables, LookupInv, Tables, LookupTypeOK, Sorted, ChainSoFar, LinearSoFar, WalkSoFar,
              RightWhenDone, Right, InBucket, Bucket
<1> QED BY <1>1, GnuStartKeeps, GnuNextKeeps, LinearKeeps, SysvStartKeeps, SysvNextKeeps DEF LookupNext

(* Where find_symbol_by_name ends it has the right answer: a symbol of the *)
(* name, or that there is none.                                            *)
THEOREM AnswerIsRight == LookupSpec => []RightWhenDone
<1>1. LookupInv => RightWhenDone
  BY DEF LookupInv
<1> QED BY <1>1, LookupInitially, LookupNextKeeps, PTL DEF LookupSpec

(* The loops read no symbol outside the table (LookupTypeOK).                    *)
THEOREM NeverOutside == LookupSpec => []LookupTypeOK
<1>1. LookupInv => LookupTypeOK
  BY DEF LookupInv
<1> QED BY <1>1, LookupInitially, LookupNextKeeps, PTL DEF LookupSpec
=============================================================================
