------------------------------ MODULE InlineHook ------------------------------
(***************************************************************************)
(* The registry of the inline hook engine (inlinehook/.../inlineHook.c and *)
(* its callers in hookutils.c): the table info.item[], the first bytes of  *)
(* every target function, the trampoline pages, the "original function"    *)
(* variables handed out to the replacements and the instruction cache.     *)
(*                                                                         *)
(* The engine has no lock; the repository calls it from the UI thread only *)
(* (hookutils.c:32-51), so one call is active at a time.  Calls that work  *)
(* on several items are split into their loop iterations, because other    *)
(* threads run through the patched functions meanwhile (HookThreads).      *)
(***************************************************************************)
EXTENDS Integers, Sequences

CONSTANTS
  Targets,     \* functions the clients hook; all in r-xp mappings, none overlapping
  WithProto,   \* targets registered with a proto_addr that is not NULL
  Pages,       \* pages mmap can return for a trampoline
  Boundaries,  \* Boundaries[t]: <<orig offset, trampoline offset>> of each relocated instruction
  Cap,         \* length of info.item (1024)
  CountBound,  \* bound of the model on inlineHookItem.count
  NULL

OrigLen  == 4                      \* int orig_boundaries[4]
TrampLen == 20                     \* int trampoline_boundaries[20]
CountAt  == OrigLen + TrampLen     \* int count follows the two arrays in the struct

ASSUME ConstantAssumption ==
  /\ Cap \in Nat \ {0}
  /\ WithProto \subseteq Targets
  /\ NULL \notin Pages /\ NULL \notin Targets
  /\ Boundaries \in [Targets -> Seq(Nat \X Nat)]
  /\ CountBound \in 0..TrampLen

(* relocateInstruction starts at the first byte and moves on by what each  *)
(* instruction takes, which is never nothing; a copy takes at least four   *)
(* bytes (a Thumb one of two is padded with a NOP).                        *)
ASSUME OffsetsAssumption ==
  \A t \in Targets :
    LET B == Boundaries[t] IN
    /\ Len(B) > 0 /\ B[1] = <<0, 0>>
    /\ \A j, k \in 1..Len(B) :
         j < k => B[j][1] < B[k][1] /\ B[j][2] + 4 <= B[k][2]

VARIABLES
  item,     \* info.item: every slot, the ones above size keep what they last held
  size,     \* info.size
  code,     \* first bytes of each target: "orig", or "jump" to its replacement
  stale,    \* targets written since their last cacheflush
  mapped,   \* trampoline pages currently mapped
  proto,    \* *proto_addr of each target
  call,     \* the engine call in progress and the position of its loop
  crashed   \* the process dereferenced a NULL item

vars == <<item, size, code, stale, mapped, proto, call, crashed>>

Idle == [op |-> "none", cur |-> 0]

(* An inlineHookItem; ints is orig_boundaries, trampoline_boundaries and   *)
(* count as they lie in memory.                                            *)
Item == [target : Targets \cup {NULL}, saved : {"orig", "jump"},
         tramp : Pages \cup {NULL}, status : {"REGISTERED", "HOOKED"},
         ints : [0..CountAt -> Nat]]

ZeroItem == [target |-> NULL, saved |-> "orig", tramp |-> NULL,
             status |-> "REGISTERED", ints |-> [j \in 0..CountAt |-> 0]]

Live == 1..size
Find(t) == {i \in Live : item[i].target = t}
Hooked == {item[i].target : i \in {j \in Live : item[j].status = "HOOKED"}}

Init ==
  /\ item = [i \in 1..Cap |-> ZeroItem]
  /\ size = 0
  /\ code = [t \in Targets |-> "orig"]
  /\ stale = {}
  /\ mapped = {}
  /\ proto = [t \in Targets |-> NULL]
  /\ call = Idle
  /\ crashed = FALSE

-----------------------------------------------------------------------------
(* Mutant: *count advanced before it is used as the index.                 *)
RelocatedOneUp(ints, t) ==
  LET c == ints[CountAt] + 1
      n == Len(Boundaries[t])
  IN  [j \in 0..CountAt |->
         IF j = CountAt THEN ints[CountAt] + n
         ELSE IF j - c \in 0..(n - 1) THEN Boundaries[t][j - c + 1][1]
         ELSE IF j - OrigLen - c \in 0..(n - 1)
              THEN Boundaries[t][j - OrigLen - c + 1][2]
         ELSE ints[j]]

(* relocateInstruction appends the boundaries of t at index *count and     *)
(* advances *count, which nobody resets when a slot is used again.  An     *)
(* index past orig_boundaries[3] lands in trampoline_boundaries; where     *)
(* both writes hit one int the orig one comes later.                       *)
Relocated(ints, t) ==
  LET c == ints[CountAt]
      n == Len(Boundaries[t])
  IN  [j \in 0..CountAt |->
         IF j = CountAt THEN c + n
         ELSE IF j - c \in 0..(n - 1) THEN Boundaries[t][j - c + 1][1]
         ELSE IF j - OrigLen - c \in 0..(n - 1)
              THEN Boundaries[t][j - OrigLen - c + 1][2]
         ELSE ints[j]]

(* The boundaries of t still fit below the count field.                    *)
Fits(ints, t) == ints[CountAt] + Len(Boundaries[t]) <= CountBound

(* registerInlineHook past its error returns, up to the NULL check it does *)
(* not make on addInlineHookItem.                                          *)
AddItem(t) ==
  /\ Find(t) = {}
  /\ size < Cap
  /\ Fits(item[size + 1].ints, t)
  /\ \E p \in Pages \ mapped :
       /\ item' = [item EXCEPT ![size + 1] =
                     [target |-> t, saved |-> code[t], tramp |-> p,
                      status |-> "REGISTERED", ints |-> Relocated(@.ints, t)]]
       /\ mapped' = mapped \cup {p}
  /\ size' = size + 1
  /\ UNCHANGED <<code, stale, proto, crashed>>

(* Mutant: no cacheflush after the patch.                                  *)
HookItemUnflushed(i) ==
  LET t == item[i].target IN
  /\ code' = [code EXCEPT ![t] = "jump"]
  /\ proto' = [proto EXCEPT ![t] = IF t \in WithProto THEN item[i].tramp ELSE @]
  /\ item' = [item EXCEPT ![i].status = "HOOKED"]
  /\ stale' = stale \cup {t}
  /\ UNCHANGED <<size, mapped, crashed>>

(* Mutant: *proto_addr set only the first time.                            *)
HookItemKeepsProto(i) ==
  LET t == item[i].target IN
  /\ code' = [code EXCEPT ![t] = "jump"]
  /\ proto' = [proto EXCEPT ![t] = IF t \in WithProto /\ @ = NULL THEN item[i].tramp ELSE @]
  /\ item' = [item EXCEPT ![i].status = "HOOKED"]
  /\ stale' = stale \ {t}
  /\ UNCHANGED <<size, mapped, crashed>>

(* doInlineHook: patch, publish the trampoline, flush.                     *)
HookItem(i) ==
  LET t == item[i].target IN
  /\ code' = [code EXCEPT ![t] = "jump"]
  /\ proto' = [proto EXCEPT ![t] = IF t \in WithProto THEN item[i].tramp ELSE @]
  /\ item' = [item EXCEPT ![i].status = "HOOKED"]
  /\ stale' = stale \ {t}
  /\ UNCHANGED <<size, mapped, crashed>>

(* Mutant: deleteInlineHookItem only counts size down.                     *)
UnHookItemNoSwap(i) ==
  LET t == item[i].target IN
  /\ code' = [code EXCEPT ![t] = item[i].saved]
  /\ mapped' = mapped \ {item[i].tramp}
  /\ size' = size - 1
  /\ stale' = stale \ {t}
  /\ UNCHANGED <<item, proto, crashed>>

(* doInlineUnHook: restore, unmap, swap the last item into slot i, and     *)
(* flush the target that slot i names now.                                 *)
UnHookItem(i) ==
  LET t == item[i].target IN
  /\ code' = [code EXCEPT ![t] = item[i].saved]
  /\ mapped' = mapped \ {item[i].tramp}
  /\ item' = [item EXCEPT ![i] = item[size]]
  /\ size' = size - 1
  /\ stale' = (stale \cup {t}) \ {item[size].target}
  /\ UNCHANGED <<proto, crashed>>

(* doProcessThreadPC's lookup: the value beside the first entry equal to   *)
(* off in the table that starts at key, or -1 if there is none.            *)
Entry(s, key, val, off) ==
  LET hits == {k \in 0..(s.ints[CountAt] - 1) : s.ints[key + k] = off}
  IN  IF hits = {} THEN -1
      ELSE s.ints[val + (CHOOSE k \in hits : \A m \in hits : k <= m)]

(* An item whose boundaries nothing overwrote: at most four instructions,  *)
(* in a slot whose count started at zero.                                  *)
CleanCount(s) ==
  s.ints[CountAt] = Len(Boundaries[s.target]) /\ s.ints[CountAt] <= OrigLen

-----------------------------------------------------------------------------
Ready == call = Idle /\ ~crashed

(* registerInlineHook                                                      *)
Register(t) == Ready /\ AddItem(t) /\ UNCHANGED call

(* registerInlineHook with a full table writes through a NULL item.        *)
RegisterWhenFull(t) ==
  /\ Ready
  /\ Find(t) = {}
  /\ size >= Cap
  /\ crashed' = TRUE
  /\ UNCHANGED <<item, size, code, stale, mapped, proto, call>>

(* inlineHook                                                              *)
InlineHook(t) ==
  /\ Ready
  /\ \E i \in Find(t) : item[i].status = "REGISTERED" /\ HookItem(i)
  /\ UNCHANGED call

(* hook() registers, then hooks the item it added.                         *)
HookStart(t) ==
  /\ Ready
  /\ AddItem(t)
  /\ call' = [op |-> "hook", cur |-> size + 1]

HookFinish ==
  /\ call.op = "hook"
  /\ HookItem(call.cur)
  /\ call' = Idle

(* inlineUnHook, and unHook() around it                                    *)
InlineUnHook(t) ==
  /\ Ready
  /\ \E i \in Find(t) : item[i].status = "HOOKED" /\ UnHookItem(i)
  /\ UNCHANGED call

(* inlineHookAll and inlineUnHookAll: the for loop over info.item          *)
AllStart(op) ==
  /\ Ready
  /\ call' = [op |-> op, cur |-> 1]
  /\ UNCHANGED <<item, size, code, stale, mapped, proto, crashed>>

AllVisit(op, status) ==
  /\ call.op = op
  /\ call.cur \in Live
  /\ item[call.cur].status = status

HookAllHook ==
  /\ AllVisit("hookAll", "REGISTERED")
  /\ HookItem(call.cur)
  /\ call' = [call EXCEPT !.cur = @ + 1]

(* Mutant: no --i after the removal.                                       *)
UnHookAllRemoveSkips ==
  /\ AllVisit("unhookAll", "HOOKED")
  /\ UnHookItem(call.cur)
  /\ call' = [call EXCEPT !.cur = @ + 1]

(* --i after the removal: slot i now holds an item not visited yet.        *)
UnHookAllRemove ==
  /\ AllVisit("unhookAll", "HOOKED")
  /\ UnHookItem(call.cur)
  /\ UNCHANGED call

AllSkip ==
  /\ AllVisit("hookAll", "HOOKED") \/ AllVisit("unhookAll", "REGISTERED")
  /\ call' = [call EXCEPT !.cur = @ + 1]
  /\ UNCHANGED <<item, size, code, stale, mapped, proto, crashed>>

AllReturn ==
  /\ call.op \in {"hookAll", "unhookAll"}
  /\ call.cur > size
  /\ call' = Idle
  /\ UNCHANGED <<item, size, code, stale, mapped, proto, crashed>>

Next ==
  \/ \E t \in Targets :
       \/ Register(t) \/ RegisterWhenFull(t) \/ InlineHook(t)
       \/ HookStart(t) \/ InlineUnHook(t)
  \/ HookFinish
  \/ AllStart("hookAll") \/ AllStart("unhookAll")
  \/ HookAllHook \/ UnHookAllRemove \/ AllSkip \/ AllReturn

Spec == Init /\ [][Next]_vars

-----------------------------------------------------------------------------
(* Type correctness of the engine's state.                                 *)
TypeOK ==
  /\ item \in [1..Cap -> Item]
  /\ size \in 0..Cap
  /\ code \in [Targets -> {"orig", "jump"}]
  /\ stale \subseteq Targets
  /\ mapped \subseteq Pages
  /\ proto \in [Targets -> Pages \cup {NULL}]
  /\ call \in [op : {"none", "hook", "hookAll", "unhookAll"}, cur : 0..(Cap + 1)]
  /\ crashed \in BOOLEAN

(* No function is entered twice in info.item, whatever mix of hook, unhook *)
(* and swap-with-last went before: inlineHook and inlineUnHook act on the  *)
(* first match and would never reach a second one.                         *)
OneItemPerTarget ==
  \A i, j \in Live : item[i].target = item[j].target => i = j

(* A function jumps to its replacement exactly while its item is HOOKED,   *)
(* and the bytes saved for every live item are the original ones, so that  *)
(* unhooking restores the function and never an older patch of it.         *)
CodeMatchesRegistry ==
  /\ \A t \in Targets : code[t] = "jump" <=> t \in Hooked
  /\ \A i \in Live : item[i].saved = "orig"

(* The mapped pages are the trampolines of the live items, one each: none  *)
(* leaks at munmap in doInlineUnHook and none is unmapped under an item    *)
(* that the swap moved.                                                    *)
TrampolinesOwned ==
  /\ mapped = {item[i].tramp : i \in Live}
  /\ \A i, j \in Live : item[i].tramp = item[j].tramp => i = j

(* While a function is hooked, its "original function" variable leads to   *)
(* its own mapped trampoline, also after other items were removed, moved   *)
(* and their pages used again.                                             *)
ProtoReachesTrampoline ==
  \A i \in Live :
    item[i].status = "HOOKED" /\ item[i].target \in WithProto =>
      proto[item[i].target] = item[i].tramp /\ item[i].tramp \in mapped

(* The instruction cache holds the patch of every hooked function: the     *)
(* flush of another item that doInlineUnHook performs after the swap never *)
(* leaves a hooked one behind.                                             *)
HookedIsFlushed == Hooked \cap stale = {}

(* inlineUnHookAll leaves no item hooked and inlineHookAll leaves none     *)
(* merely registered, although the first one shrinks and reorders the      *)
(* table it walks.                                                         *)
LoopsVisitAll ==
  [][call' = Idle =>
       \A i \in 1..size' :
         /\ call.op = "unhookAll" => item'[i].status # "HOOKED"
         /\ call.op = "hookAll"   => item'[i].status # "REGISTERED"]_vars

(* Behind the position of a running loop every item is done, the one a     *)
(* hook() call added is still waiting for its patch, and a call that       *)
(* returned leaves no position behind.                                     *)
LoopPosition ==
  /\ call.op = "none" => call = Idle
  /\ call.op = "hook" => call.cur \in Live /\ item[call.cur].status = "REGISTERED"
  /\ call.op \in {"hookAll", "unhookAll"} => call.cur \in 1..(size + 1)
  /\ call.op = "hookAll" =>
       \A i \in 1..(call.cur - 1) : item[i].status = "HOOKED"
  /\ call.op = "unhookAll" =>
       \A i \in 1..(call.cur - 1) : item[i].status = "REGISTERED"

(* For such an item freeze moves a thread stopped at an instruction to the *)
(* copy of that very instruction and back; the table travels with the item *)
(* when doInlineUnHook swaps it into another slot.                         *)
BoundariesExact ==
  \A i \in Live : CleanCount(item[i]) =>
    \A k \in 1..Len(Boundaries[item[i].target]) :
      LET b == Boundaries[item[i].target][k] IN
      /\ Entry(item[i], 0, OrigLen, b[1]) = b[2]
      /\ Entry(item[i], OrigLen, 0, b[2]) = b[1]

-----------------------------------------------------------------------------
(* The table a client sees.                                                *)
StateOf(t) ==
  IF Find(t) = {} THEN "free"
  ELSE IF t \in Hooked THEN "hooked" ELSE "registered"

Table == INSTANCE HookTable
           WITH state <- [t \in Targets |-> StateOf(t)],
                redirected <- {t \in Targets : code[t] = "jump"},
                used <- size

(* Seen through StateOf, every step of the engine is one step of the table *)
(* or invisible: swaps, half-done loops and stale slots never show.        *)
ImplementsTable == Table!TableSpec
=============================================================================
