--------------------------- MODULE InlineHookProofs ---------------------------
(***************************************************************************)
(* Proofs about the inline hook engine: its registry (InlineHook) and the  *)
(* threads that run meanwhile (HookThreads), for any functions, pages,     *)
(* table length and threads.                                               *)
(*                                                                         *)
(* The engine changes its state through three steps: AddItem, HookItem and *)
(* UnHookItem.  One lemma per step shows that it keeps Core, the part of   *)
(* the inductive invariant that does not speak of the call in progress;    *)
(* the actions of Next then only have to account for LoopPosition.  Tables *)
(* adds what the boundary arrays hold.                                     *)
(*                                                                         *)
(* The invariant of the threads, TInv, says of each thread that is not     *)
(* exposed where it may be (Placed).  A thread step changes one thread     *)
(* (ThreadMove), a freeze moves it (EnabledMoves, DisabledMoves), and a    *)
(* registry step moves none but may expose some (PatchPlaces,              *)
(* RemovePlaces).                                                          *)
(***************************************************************************)
EXTENDS HookThreads, WellFoundedInduction, TLAPS

(* Live slots name a function and a page; the rest may hold anything.      *)
LiveOK ==
  \A i \in Live : item[i].target \in Targets /\ item[i].tramp \in Pages

StateOK ==
  /\ item \in [1..Cap -> Item]
  /\ size \in 0..Cap
  /\ code \in [Targets -> {"orig", "jump"}]
  /\ stale \subseteq Targets
  /\ mapped \subseteq Pages
  /\ proto \in [Targets -> Pages \cup {NULL}]

Core ==
  /\ StateOK
  /\ LiveOK
  /\ OneItemPerTarget
  /\ CodeMatchesRegistry
  /\ TrampolinesOwned
  /\ ProtoReachesTrampoline
  /\ HookedIsFlushed

IInv == TypeOK /\ Core /\ LoopPosition

(* The functions the table knows.                                          *)
Names == {item[i].target : i \in Live}

-----------------------------------------------------------------------------
(* relocateInstruction leaves the two boundary arrays and the counter      *)
(* natural numbers as long as the new entries fit.                         *)
LEMMA RelocatedType ==
  ASSUME NEW ints \in [0..CountAt -> Nat], NEW t \in Targets, Fits(ints, t)
  PROVE  Relocated(ints, t) \in [0..CountAt -> Nat]
<1>1. Boundaries[t] \in Seq(Nat \X Nat)
  BY ConstantAssumption
<1>2. Len(Boundaries[t]) \in Nat /\ \A k \in 1..Len(Boundaries[t]) :
         Boundaries[t][k][1] \in Nat /\ Boundaries[t][k][2] \in Nat
  BY <1>1
<1>3. CountAt \in 0..CountAt /\ ints[CountAt] \in Nat
  BY DEF CountAt, OrigLen, TrampLen
<1>4. ASSUME NEW j \in 0..CountAt
      PROVE  Relocated(ints, t)[j] \in Nat
  <2> DEFINE c == ints[CountAt]
             n == Len(Boundaries[t])
             B == Boundaries[t]
             r == IF j = CountAt THEN c + n
                  ELSE IF j - c \in 0..(n - 1) THEN B[j - c + 1][1]
                  ELSE IF j - OrigLen - c \in 0..(n - 1)
                       THEN B[j - OrigLen - c + 1][2]
                  ELSE ints[j]
  <2>1. Relocated(ints, t)[j] = r
    BY DEF Relocated
  <2>2. j \in Int /\ c \in Int /\ n \in Nat /\ c + n \in Nat /\ OrigLen \in Int
    <3>1. j \in Int /\ OrigLen \in Int
      BY DEF CountAt, OrigLen, TrampLen
    <3>2. c \in Nat /\ n \in Nat
      BY <1>2, <1>3
    <3> QED BY <3>1, <3>2
  <2>3. ints[j] \in Nat
    OBVIOUS
  <2>4. \A k \in 1..n : B[k][1] \in Nat /\ B[k][2] \in Nat
    BY <1>2
  <2>5. j - c \in 0..(n - 1) => j - c + 1 \in 1..n
    BY <2>2
  <2>6. j - OrigLen - c \in 0..(n - 1) => j - OrigLen - c + 1 \in 1..n
    BY <2>2
  <2> HIDE DEF c, n, B
  <2>7. r \in Nat
    BY <2>2, <2>3, <2>4, <2>5, <2>6
  <2> QED BY <2>1, <2>7
<1> QED BY <1>4 DEF Relocated

(* A registered function takes a fresh slot and a fresh page.              *)
LEMMA AddItemKeepsCore ==
  ASSUME Core, NEW t \in Targets, AddItem(t)
  PROVE  Core' /\ Names' = Names \cup {t} /\ Hooked' = Hooked
<1> USE DEF Core
<1>1. PICK p \in Pages \ mapped :
        /\ item' = [item EXCEPT ![size + 1] =
                      [target |-> t, saved |-> code[t], tramp |-> p,
                       status |-> "REGISTERED",
                       ints |-> Relocated(item[size + 1].ints, t)]]
        /\ mapped' = mapped \cup {p}
  BY DEF AddItem
<1>2. /\ size' = size + 1 /\ size < Cap /\ Fits(item[size + 1].ints, t)
      /\ Find(t) = {}
      /\ UNCHANGED <<code, stale, proto>>
  BY DEF AddItem
<1>3. Cap \in Nat /\ size \in Nat /\ size + 1 \in 1..Cap
  BY <1>2, ConstantAssumption DEF StateOK
<1>4. Relocated(item[size + 1].ints, t) \in [0..CountAt -> Nat]
  BY <1>2, <1>3, RelocatedType DEF StateOK, Item
<1>5. code[t] \in {"orig", "jump"}
  BY DEF StateOK
<1>6. item' \in [1..Cap -> Item]
  <2> DEFINE new == [target |-> t, saved |-> code[t], tramp |-> p,
                     status |-> "REGISTERED",
                     ints |-> Relocated(item[size + 1].ints, t)]
  <2>1. new \in Item
    BY <1>4, <1>5 DEF Item
  <2> HIDE DEF new
  <2> QED BY <1>1, <2>1 DEF StateOK, new
<1>7. StateOK'
  BY <1>1, <1>2, <1>3, <1>6 DEF StateOK
<1>8. /\ Live' = Live \cup {size + 1} /\ size + 1 \notin Live
      /\ \A i \in Live : item'[i] = item[i]
      /\ item'[size + 1].target = t /\ item'[size + 1].tramp = p
      /\ item'[size + 1].status = "REGISTERED"
      /\ item'[size + 1].saved = code[t]
  BY <1>1, <1>2, <1>3 DEF Live, StateOK
<1>9. \A i \in Live : item[i].target # t /\ item[i].tramp # p
  BY <1>1, <1>2 DEF Find, TrampolinesOwned
<1>10. Hooked' = Hooked /\ t \notin Hooked
  BY <1>8, <1>9 DEF Hooked
<1>11. LiveOK'
  BY <1>8 DEF LiveOK
<1>12. OneItemPerTarget'
  BY <1>8, <1>9 DEF OneItemPerTarget
<1>13. CodeMatchesRegistry'
  <2>1. code[t] = "orig"
    BY <1>5, <1>10 DEF CodeMatchesRegistry
  <2> QED BY <1>2, <1>8, <1>10, <2>1 DEF CodeMatchesRegistry
<1>14. TrampolinesOwned'
  BY <1>1, <1>8, <1>9 DEF TrampolinesOwned
<1>15. ProtoReachesTrampoline'
  BY <1>1, <1>2, <1>8 DEF ProtoReachesTrampoline
<1>16. HookedIsFlushed'
  BY <1>2, <1>10 DEF HookedIsFlushed
<1>17. Names' = Names \cup {t}
  BY <1>8 DEF Names
<1> QED BY <1>7, <1>10, <1>11, <1>12, <1>13, <1>14, <1>15, <1>16, <1>17

(* Patching a registered item.                                             *)
LEMMA HookItemKeepsCore ==
  ASSUME Core, NEW i \in Live, item[i].status = "REGISTERED", HookItem(i)
  PROVE  Core' /\ Names' = Names /\ Hooked' = Hooked \cup {item[i].target}
<1> USE DEF Core
<1> DEFINE t == item[i].target
<1>1. /\ code' = [code EXCEPT ![t] = "jump"]
      /\ proto' = [proto EXCEPT ![t] = IF t \in WithProto THEN item[i].tramp
                                                          ELSE proto[t]]
      /\ item' = [item EXCEPT ![i].status = "HOOKED"]
      /\ stale' = stale \ {t}
      /\ UNCHANGED <<size, mapped>>
  BY DEF HookItem
<1>2. t \in Targets /\ item[i].tramp \in Pages /\ i \in 1..Cap
      /\ item[i] \in Item
  BY ConstantAssumption DEF LiveOK, StateOK, Live
<1> HIDE DEF t
<1>3. Live' = Live
  BY <1>1 DEF Live
<1>4. /\ item'[i] = [item[i] EXCEPT !.status = "HOOKED"]
      /\ \A j \in Live : j # i => item'[j] = item[j]
  BY <1>1, <1>2, ConstantAssumption DEF StateOK, Live
<1>5. \A j \in Live : /\ item'[j].target = item[j].target
                      /\ item'[j].tramp = item[j].tramp
                      /\ item'[j].saved = item[j].saved
                      /\ j # i => item'[j].status = item[j].status
  BY <1>2, <1>4 DEF Item
<1>6. item'[i].status = "HOOKED"
  BY <1>2, <1>4 DEF Item
<1>7. StateOK'
  <2>1. item' \in [1..Cap -> Item]
    BY <1>1, <1>2 DEF StateOK, Item
  <2> QED BY <1>1, <1>2, <2>1 DEF StateOK
<1>8. Hooked' = Hooked \cup {t}
  BY <1>3, <1>5, <1>6 DEF Hooked, t
<1>9. LiveOK' /\ OneItemPerTarget' /\ TrampolinesOwned'
  BY <1>1, <1>3, <1>5 DEF LiveOK, OneItemPerTarget, TrampolinesOwned
<1>10. CodeMatchesRegistry'
  BY <1>1, <1>2, <1>3, <1>5, <1>8 DEF CodeMatchesRegistry, StateOK
<1>11. ProtoReachesTrampoline'
  <2> SUFFICES ASSUME NEW j \in Live, item'[j].status = "HOOKED",
                      item'[j].target \in WithProto
               PROVE  /\ proto'[item'[j].target] = item'[j].tramp
                      /\ item'[j].tramp \in mapped'
    BY <1>3 DEF ProtoReachesTrampoline
  <2>1. CASE j = i
    BY <1>1, <1>2, <1>5, <2>1 DEF TrampolinesOwned, StateOK, t
  <2>2. CASE j # i
    <3>1. item[j].target # t /\ item[j].target \in Targets
      BY <2>2 DEF OneItemPerTarget, LiveOK, t
    <3> QED BY <1>1, <1>5, <2>2, <3>1 DEF ProtoReachesTrampoline, StateOK
  <2> QED BY <2>1, <2>2
<1>12. HookedIsFlushed'
  BY <1>1, <1>8 DEF HookedIsFlushed
<1>13. Names' = Names
  BY <1>3, <1>5 DEF Names
<1> QED BY <1>7, <1>8, <1>9, <1>10, <1>11, <1>12, <1>13 DEF t

(* Removing a hooked item: slot j of the shorter table holds what src(j)   *)
(* held, and src runs through all live slots but the removed one.          *)
LEMMA UnHookItemKeepsCore ==
  ASSUME Core, NEW i \in Live, item[i].status = "HOOKED", UnHookItem(i)
  PROVE  /\ Core' /\ Names' = Names \ {item[i].target}
         /\ Hooked' = Hooked \ {item[i].target}
<1> USE DEF Core
<1> DEFINE t == item[i].target
           src(j) == IF j = i THEN size ELSE j
<1>1. /\ code' = [code EXCEPT ![t] = item[i].saved]
      /\ mapped' = mapped \ {item[i].tramp}
      /\ item' = [item EXCEPT ![i] = item[size]]
      /\ size' = size - 1
      /\ stale' = (stale \cup {t}) \ {item[size].target}
      /\ UNCHANGED proto
  BY DEF UnHookItem
<1>2. /\ size \in Live /\ size \in Nat \ {0} /\ Cap \in Nat
      /\ \A j \in Live : j \in 1..Cap /\ item[j] \in Item
      /\ \A j \in Live : item[j].target \in Targets
  BY ConstantAssumption DEF StateOK, Live, LiveOK
<1>3. t \in Targets /\ item[i].saved = "orig" /\ t \in Hooked
  BY <1>2 DEF CodeMatchesRegistry, Hooked
<1>4. \A j \in Live' : item'[j] = item[src(j)] /\ src(j) \in Live \ {i}
  <2> SUFFICES ASSUME NEW j \in Live'
               PROVE  item'[j] = item[src(j)] /\ src(j) \in Live \ {i}
    OBVIOUS
  <2>1. j \in 1..(size - 1) /\ j \in Live /\ j # size
    BY <1>1, <1>2 DEF Live
  <2>2. CASE j = i
    BY <1>1, <1>2, <2>1, <2>2 DEF StateOK
  <2>3. CASE j # i
    BY <1>1, <1>2, <2>1, <2>3 DEF StateOK
  <2> QED BY <2>2, <2>3
<1>5. \A j, k \in Live' : src(j) = src(k) => j = k
  BY <1>1, <1>2 DEF Live
<1>6. \A k \in Live \ {i} : \E j \in Live' : src(j) = k
  <2> SUFFICES ASSUME NEW k \in Live \ {i}
               PROVE  \E j \in Live' : src(j) = k
    OBVIOUS
  <2>1. CASE k = size
    BY <1>1, <1>2, <2>1 DEF Live
  <2>2. CASE k # size
    BY <1>1, <1>2, <2>2 DEF Live
  <2> QED BY <2>1, <2>2
<1> HIDE DEF src
<1>7. StateOK'
  BY <1>1, <1>2, <1>3 DEF StateOK
<1>8. LiveOK'
  BY <1>4 DEF LiveOK
<1>9. OneItemPerTarget'
  BY <1>4, <1>5 DEF OneItemPerTarget
<1>10. \A k \in Live \ {i} : item[k].target # t /\ item[k].tramp # item[i].tramp
  BY DEF OneItemPerTarget, TrampolinesOwned
<1> HIDE DEF t
<1>11. Hooked' = Hooked \ {t}
  <2>1. \A u : u \in Hooked' <=> \E j \in Live' : item'[j].status = "HOOKED"
                                               /\ item'[j].target = u
    BY DEF Hooked
  <2>2. \A u : u \in Hooked <=> \E k \in Live : item[k].status = "HOOKED"
                                             /\ item[k].target = u
    BY DEF Hooked
  <2> QED BY <1>4, <1>6, <1>10, <2>1, <2>2 DEF t
<1>12. CodeMatchesRegistry'
  BY <1>1, <1>3, <1>4, <1>11 DEF CodeMatchesRegistry, StateOK
<1>13. TrampolinesOwned'
  <2>1. mapped' = {item[k].tramp : k \in Live \ {i}}
    BY <1>1, <1>10 DEF TrampolinesOwned
  <2>2. mapped' = {item'[j].tramp : j \in Live'}
    BY <1>4, <1>6, <2>1
  <2> QED BY <1>4, <1>5, <2>2 DEF TrampolinesOwned
<1>14. ProtoReachesTrampoline'
  <2>1. \A j \in Live' : item'[j].tramp \in mapped'
    BY <1>13 DEF TrampolinesOwned
  <2> QED BY <1>1, <1>4, <2>1 DEF ProtoReachesTrampoline
<1>15. HookedIsFlushed'
  BY <1>1, <1>11 DEF HookedIsFlushed
<1>16. Names' = Names \ {t}
  <2>1. \A u : u \in Names' <=> \E j \in Live' : item'[j].target = u
    BY DEF Names
  <2>2. \A u : u \in Names <=> \E k \in Live : item[k].target = u
    BY DEF Names
  <2> QED BY <1>4, <1>6, <1>10, <2>1, <2>2 DEF t
<1> QED BY <1>7, <1>8, <1>9, <1>11, <1>12, <1>13, <1>14, <1>15, <1>16 DEF t

-----------------------------------------------------------------------------
(* Nothing of Core or LoopPosition depends on crashed, and a call that only *)
(* moves its position leaves Core alone.                                   *)
LEMMA CoreUnchanged ==
  ASSUME Core, UNCHANGED <<item, size, code, stale, mapped, proto>>
  PROVE  Core'
<1> QED
  BY DEF Core, StateOK, LiveOK, Live, OneItemPerTarget, CodeMatchesRegistry,
     Hooked, TrampolinesOwned, ProtoReachesTrampoline, HookedIsFlushed

(* The zeroed table of the engine (static info) satisfies the invariant.    *)
LEMMA InitInvariant == Init => IInv
<1> SUFFICES ASSUME Init PROVE IInv
  OBVIOUS
<1>1. size = 0 /\ Live = {} /\ Hooked = {}
  BY DEF Init, Live, Hooked
<1>2. ZeroItem \in Item
  BY DEF ZeroItem, Item
<1>3. StateOK
  BY <1>2, ConstantAssumption DEF Init, StateOK
<1>4. Core
  BY <1>1, <1>3 DEF Core, Init, LiveOK, OneItemPerTarget, CodeMatchesRegistry,
     TrampolinesOwned, ProtoReachesTrampoline, HookedIsFlushed
<1>5. LoopPosition
  BY DEF Init, Idle, LoopPosition
<1>6. call \in [op : {"none", "hook", "hookAll", "unhookAll"}, cur : 0..(Cap + 1)]
  BY ConstantAssumption DEF Init, Idle
<1> QED BY <1>3, <1>4, <1>5, <1>6 DEF IInv, TypeOK, StateOK, Init

CallOK == call \in [op : {"none", "hook", "hookAll", "unhookAll"}, cur : 0..(Cap + 1)]

(* Types of table, call and crash flag apart.                               *)
LEMMA TypeSplit == TypeOK <=> StateOK /\ CallOK /\ crashed \in BOOLEAN
  BY DEF TypeOK, StateOK, CallOK

(* Between calls there is no position to speak of.                         *)
LEMMA IdleIsAPosition ==
  ASSUME call' = Idle
  PROVE  LoopPosition' /\ (Cap \in Nat => CallOK')
  BY DEF LoopPosition, CallOK, Idle

(* Every step keeps the invariant: Core by the lemma of the operation it   *)
(* performs, LoopPosition by where the step leaves the call.               *)
LEMMA NextInvariant == IInv /\ [Next]_vars => IInv'
<1> SUFFICES ASSUME IInv, [Next]_vars PROVE IInv'
  OBVIOUS
<1>0. /\ Core /\ LoopPosition /\ CallOK /\ StateOK
      /\ Cap \in Nat /\ size \in 0..Cap /\ crashed \in BOOLEAN
  BY TypeSplit, ConstantAssumption DEF IInv, Core, StateOK
<1> SUFFICES Core' /\ CallOK' /\ LoopPosition' /\ crashed' \in BOOLEAN
  BY TypeSplit DEF IInv, Core, TypeOK, StateOK, CallOK
<1>1. ASSUME NEW t \in Targets, Register(t)
      PROVE  Core' /\ CallOK' /\ LoopPosition' /\ crashed' \in BOOLEAN
  <2>1. call' = Idle /\ AddItem(t) /\ crashed' = crashed
    BY <1>1 DEF Register, Ready, AddItem
  <2> QED BY <1>0, <2>1, AddItemKeepsCore, IdleIsAPosition
<1>2. ASSUME NEW t \in Targets, RegisterWhenFull(t)
      PROVE  Core' /\ CallOK' /\ LoopPosition' /\ crashed' \in BOOLEAN
  <2>1. call' = Idle /\ crashed' = TRUE
    BY <1>2 DEF RegisterWhenFull, Ready
  <2>2. Core'
    BY <1>0, <1>2, CoreUnchanged DEF RegisterWhenFull
  <2> QED BY <1>0, <2>1, <2>2, IdleIsAPosition
<1>3. ASSUME NEW t \in Targets, InlineHook(t)
      PROVE  Core' /\ CallOK' /\ LoopPosition' /\ crashed' \in BOOLEAN
  <2>1. PICK i \in Live : item[i].status = "REGISTERED" /\ HookItem(i)
    BY <1>3 DEF InlineHook, Find
  <2>2. call' = Idle /\ crashed' = crashed
    BY <1>3, <2>1 DEF InlineHook, Ready, HookItem
  <2> QED BY <1>0, <2>1, <2>2, HookItemKeepsCore, IdleIsAPosition
<1>4. ASSUME NEW t \in Targets, HookStart(t)
      PROVE  Core' /\ CallOK' /\ LoopPosition' /\ crashed' \in BOOLEAN
  <2>1. /\ AddItem(t) /\ crashed' = crashed /\ size < Cap /\ size' = size + 1
        /\ call' = [op |-> "hook", cur |-> size + 1]
    BY <1>4 DEF HookStart, AddItem
  <2>2. item'[size + 1].status = "REGISTERED"
    BY <1>0, <2>1 DEF AddItem, StateOK
  <2>3. CallOK'
    BY <1>0, <2>1 DEF CallOK
  <2>4. LoopPosition'
    BY <1>0, <2>1, <2>2 DEF LoopPosition, Live
  <2> QED BY <1>0, <2>1, <2>3, <2>4, AddItemKeepsCore
<1>5. ASSUME NEW t \in Targets, InlineUnHook(t)
      PROVE  Core' /\ CallOK' /\ LoopPosition' /\ crashed' \in BOOLEAN
  <2>1. PICK i \in Live : item[i].status = "HOOKED" /\ UnHookItem(i)
    BY <1>5 DEF InlineUnHook, Find
  <2>2. call' = Idle /\ crashed' = crashed
    BY <1>5, <2>1 DEF InlineUnHook, Ready, UnHookItem
  <2> QED BY <1>0, <2>1, <2>2, UnHookItemKeepsCore, IdleIsAPosition
<1>6. CASE HookFinish
  <2>1. call.cur \in Live /\ item[call.cur].status = "REGISTERED"
    BY <1>0, <1>6 DEF HookFinish, LoopPosition
  <2>2. call' = Idle /\ crashed' = crashed /\ HookItem(call.cur)
    BY <1>6 DEF HookFinish, HookItem
  <2> QED BY <1>0, <2>1, <2>2, HookItemKeepsCore, IdleIsAPosition
<1>7. ASSUME NEW op \in {"hookAll", "unhookAll"}, AllStart(op)
      PROVE  Core' /\ CallOK' /\ LoopPosition' /\ crashed' \in BOOLEAN
  <2>1. /\ call' = [op |-> op, cur |-> 1]
        /\ UNCHANGED <<item, size, code, stale, mapped, proto, crashed>>
    BY <1>7 DEF AllStart
  <2>2. CallOK' /\ LoopPosition'
    BY <1>0, <2>1 DEF CallOK, LoopPosition
  <2> QED BY <1>0, <2>1, <2>2, CoreUnchanged
<1>8. CASE HookAllHook
  <2> DEFINE k == call.cur
  <2>1. /\ call.op = "hookAll" /\ k \in Live /\ item[k].status = "REGISTERED"
        /\ HookItem(k) /\ call' = [call EXCEPT !.cur = k + 1]
        /\ crashed' = crashed /\ size' = size
        /\ item' = [item EXCEPT ![k].status = "HOOKED"]
    BY <1>8 DEF HookAllHook, AllVisit, HookItem
  <2>2. k \in 1..size /\ \A i \in 1..(k - 1) : item[i].status = "HOOKED"
    BY <1>0, <2>1 DEF LoopPosition, Live
  <2>3. call' = [op |-> "hookAll", cur |-> k + 1]
    BY <1>0, <2>1 DEF CallOK
  <2>4. \A i \in 1..k : item'[i].status = "HOOKED"
    <3>1. \A i \in 1..k : i \in 1..Cap /\ item[i] \in Item
      BY <1>0, <2>2 DEF StateOK
    <3>2. \A i \in 1..(k - 1) : item'[i] = item[i]
      BY <1>0, <2>1, <2>2, <3>1 DEF StateOK
    <3>a. k \in 1..size /\ size \in 0..Cap /\ Cap \in Nat
      BY <1>0, <2>2, ConstantAssumption DEF StateOK
    <3>b. k \in 1..k /\ k \in 1..Cap
      BY <3>a
    <3>c. item'[k] = [item[k] EXCEPT !.status = "HOOKED"]
      BY <1>0, <2>1, <3>b DEF StateOK
    <3>3. k \in 1..k /\ item'[k] = [item[k] EXCEPT !.status = "HOOKED"]
      BY <3>b, <3>c
    <3>4. item'[k].status = "HOOKED"
      BY <3>1, <3>3 DEF Item
    <3>5. k \in Nat /\ \A i \in 1..k : i = k \/ i \in 1..(k - 1)
      BY <1>0, <2>2
    <3> QED BY <2>2, <3>2, <3>4, <3>5
  <2>5. CallOK' /\ LoopPosition'
    BY <1>0, <2>1, <2>2, <2>3, <2>4 DEF CallOK, LoopPosition
  <2> QED BY <1>0, <2>1, <2>5, HookItemKeepsCore
<1>9. CASE UnHookAllRemove
  <2> DEFINE k == call.cur
  <2>1. /\ call.op = "unhookAll" /\ k \in Live /\ item[k].status = "HOOKED"
        /\ UnHookItem(k) /\ call' = call
        /\ crashed' = crashed /\ size' = size - 1
        /\ item' = [item EXCEPT ![k] = item[size]]
    BY <1>9 DEF UnHookAllRemove, AllVisit, UnHookItem
  <2>2. k \in 1..size /\ \A i \in 1..(k - 1) : item[i].status = "REGISTERED"
    BY <1>0, <2>1 DEF LoopPosition, Live
  <2>3. \A i \in 1..(k - 1) : item'[i] = item[i]
    BY <1>0, <2>1, <2>2 DEF StateOK
  <2>4. CallOK' /\ LoopPosition'
    BY <1>0, <2>1, <2>2, <2>3 DEF CallOK, LoopPosition
  <2> QED BY <1>0, <2>1, <2>4, UnHookItemKeepsCore
<1>10. CASE AllSkip
  <2> DEFINE k == call.cur
  <2>1. /\ \/ call.op = "hookAll" /\ item[k].status = "HOOKED"
           \/ call.op = "unhookAll" /\ item[k].status = "REGISTERED"
        /\ k \in 1..size /\ call' = [call EXCEPT !.cur = k + 1]
        /\ UNCHANGED <<item, size, code, stale, mapped, proto, crashed>>
    BY <1>10 DEF AllSkip, AllVisit, Live
  <2>2. call' = [op |-> call.op, cur |-> k + 1]
    BY <1>0, <2>1 DEF CallOK
  <2>3. CallOK' /\ LoopPosition'
    BY <1>0, <2>1, <2>2 DEF CallOK, LoopPosition
  <2> QED BY <1>0, <2>1, <2>3, CoreUnchanged
<1>11. CASE AllReturn
  <2>1. /\ call' = Idle
        /\ UNCHANGED <<item, size, code, stale, mapped, proto, crashed>>
    BY <1>11 DEF AllReturn
  <2> QED BY <1>0, <2>1, CoreUnchanged, IdleIsAPosition
<1>12. CASE UNCHANGED vars
  <2>1. Core'
    BY <1>0, <1>12, CoreUnchanged DEF vars
  <2>2. CallOK' /\ LoopPosition' /\ crashed' \in BOOLEAN
    BY <1>0, <1>12 DEF vars, CallOK, LoopPosition, Live, Idle
  <2> QED BY <2>1, <2>2
<1> QED
  BY <1>1, <1>2, <1>3, <1>4, <1>5, <1>6, <1>7, <1>8, <1>9, <1>10, <1>11, <1>12
  DEF Next

(* The inductive invariant holds in every state of the engine.             *)
THEOREM Invariant == Spec => []IInv
<1> QED BY InitInvariant, NextInvariant, PTL DEF Spec

(* The engine's state is well typed; in particular the boundary tables     *)
(* stay tables of naturals whatever is relocated into them.                *)
THEOREM TypeCorrect == Spec => []TypeOK
<1>1. IInv => TypeOK
  BY DEF IInv
<1> QED BY <1>1, Invariant, PTL

(* No target ever has two items.                                           *)
THEOREM RegistryHasNoDuplicates == Spec => []OneItemPerTarget
<1>1. IInv => OneItemPerTarget
  BY DEF IInv, Core
<1> QED BY <1>1, Invariant, PTL

(* A function is redirected exactly while its item is HOOKED, and what was *)
(* saved for it is always the original code.                               *)
THEOREM CodeFollowsRegistry == Spec => []CodeMatchesRegistry
<1>1. IInv => CodeMatchesRegistry
  BY DEF IInv, Core
<1> QED BY <1>1, Invariant, PTL

(* Trampoline pages are neither leaked, shared nor unmapped too early, and *)
(* every hooked function's original stays callable.                        *)
THEOREM TrampolinesLive == Spec => [](TrampolinesOwned /\ ProtoReachesTrampoline)
<1>1. IInv => TrampolinesOwned /\ ProtoReachesTrampoline
  BY DEF IInv, Core
<1> QED BY <1>1, Invariant, PTL

(* Flushing the wrong target after a removal never leaves a hooked         *)
(* function with a stale instruction cache.                                *)
THEOREM HookedStayFlushed == Spec => []HookedIsFlushed
<1>1. IInv => HookedIsFlushed
  BY DEF IInv, Core
<1> QED BY <1>1, Invariant, PTL

(* A loop over the table returns with its work done, although removals     *)
(* shrink and reorder the table under it.                                  *)
THEOREM LoopsComplete == Spec => LoopsVisitAll
<1>1. ASSUME IInv, [Next]_vars
      PROVE  [call' = Idle =>
               \A i \in 1..size' :
                 /\ call.op = "unhookAll" => item'[i].status # "HOOKED"
                 /\ call.op = "hookAll"   => item'[i].status # "REGISTERED"]_vars
  <2> SUFFICES ASSUME call' = Idle, call.op \in {"hookAll", "unhookAll"}
               PROVE  \A i \in 1..size' :
                 /\ call.op = "unhookAll" => item'[i].status # "HOOKED"
                 /\ call.op = "hookAll"   => item'[i].status # "REGISTERED"
    OBVIOUS
  <2>1. call # Idle /\ call.op # "hook"
    BY DEF Idle
  <2>2. AllReturn \/ HookAllHook \/ UnHookAllRemove \/ AllSkip
    BY <1>1, <2>1 DEF Next, vars, Register, RegisterWhenFull, InlineHook,
       HookStart, InlineUnHook, HookFinish, AllStart, Ready
  <2>3. CallOK /\ LoopPosition /\ size \in Nat
    BY <1>1, TypeSplit, ConstantAssumption DEF IInv, StateOK
  <2>4. CASE AllReturn
    <3>1. size' = size /\ item' = item /\ call.cur > size
      BY <2>4 DEF AllReturn
    <3>2. call.cur \in 1..(size + 1)
      BY <2>3 DEF LoopPosition
    <3>3. \A i \in 1..size : i \in 1..(call.cur - 1)
      BY <2>3, <3>1, <3>2
    <3> QED BY <2>3, <3>1, <3>3 DEF LoopPosition
  <2>5. CASE HookAllHook \/ AllSkip
    <3>1. call' = [call EXCEPT !.cur = call.cur + 1]
      BY <2>5 DEF HookAllHook, AllSkip
    <3>2. call'.op = call.op
      BY <2>3, <3>1 DEF CallOK
    <3> QED BY <3>2 DEF Idle
  <2>6. CASE UnHookAllRemove
    BY <2>1, <2>6 DEF UnHookAllRemove
  <2> QED BY <2>2, <2>4, <2>5, <2>6
<1> QED BY <1>1, Invariant, PTL DEF Spec, LoopsVisitAll

-----------------------------------------------------------------------------
(* The boundary tables.                                                    *)

(* What relocateInstruction recorded for the target of s is still in s.    *)
Exact(s) ==
  LET B == Boundaries[s.target] IN
  \A k \in 1..Len(B) : /\ s.ints[k - 1] = B[k][1]
                       /\ s.ints[OrigLen + k - 1] = B[k][2]

(* No slot, live or stale, counts more boundaries than the model allows,   *)
(* and an item with a clean count has its boundaries.                      *)
Tables ==
  /\ \A i \in 1..Cap : item[i].ints[CountAt] <= CountBound
  /\ \A i \in Live : CleanCount(item[i]) => Exact(item[i])

(* Every step of the engine is one of its three operations on the table,   *)
(* or leaves the table alone.                                              *)
LEMMA StepKinds ==
  ASSUME IInv, [Next]_vars
  PROVE  \/ \E t \in Targets : AddItem(t)
         \/ \E i \in Live : item[i].status = "REGISTERED" /\ HookItem(i)
         \/ \E i \in Live : item[i].status = "HOOKED" /\ UnHookItem(i)
         \/ UNCHANGED <<item, size, code, stale, mapped, proto>>
<1>1. LoopPosition
  BY DEF IInv
<1>2. CASE \E t \in Targets : Register(t) \/ HookStart(t)
  BY <1>2 DEF Register, HookStart
<1>3. CASE \E t \in Targets : InlineHook(t) \/ InlineUnHook(t)
  BY <1>3 DEF InlineHook, InlineUnHook, Find
<1>4. CASE HookFinish
  BY <1>1, <1>4 DEF HookFinish, LoopPosition
<1>5. CASE HookAllHook \/ UnHookAllRemove
  BY <1>5 DEF HookAllHook, UnHookAllRemove, AllVisit
<1>6. CASE \/ \E t \in Targets : RegisterWhenFull(t)
           \/ AllStart("hookAll") \/ AllStart("unhookAll")
           \/ AllSkip \/ AllReturn \/ UNCHANGED vars
  BY <1>6 DEF RegisterWhenFull, AllStart, AllSkip, AllReturn, vars
<1> QED BY <1>2, <1>3, <1>4, <1>5, <1>6 DEF Next

(* The offsets a target's boundaries hold are naturals.                    *)
LEMMA Offsets ==
  ASSUME NEW t \in Targets
  PROVE  /\ Len(Boundaries[t]) \in Nat \ {0}
         /\ \A k \in 1..Len(Boundaries[t]) :
              Boundaries[t][k][1] \in Nat /\ Boundaries[t][k][2] \in Nat
         /\ \A j, k \in 1..Len(Boundaries[t]) :
              j < k => /\ Boundaries[t][j][1] < Boundaries[t][k][1]
                       /\ Boundaries[t][j][2] + 4 <= Boundaries[t][k][2]
         /\ Boundaries[t][1][1] = 0 /\ Boundaries[t][1][2] = 0
<1>1. Boundaries[t] \in Seq(Nat \X Nat)
  BY ConstantAssumption
<1>2. Len(Boundaries[t]) \in Nat \ {0} /\ Boundaries[t][1] = <<0, 0>>
  BY <1>1, OffsetsAssumption
<1> QED BY <1>1, <1>2, OffsetsAssumption

(* A relocation that leaves a clean count started at zero and wrote every  *)
(* boundary where Exact looks for it.                                      *)
LEMMA RelocatedExact ==
  ASSUME NEW ints \in [0..CountAt -> Nat], NEW t \in Targets, Fits(ints, t),
         NEW s \in Item, s.target = t, s.ints = Relocated(ints, t)
  PROVE  /\ s.ints[CountAt] <= CountBound
         /\ CleanCount(s) => Exact(s)
<1> DEFINE c == ints[CountAt]
           n == Len(Boundaries[t])
           B == Boundaries[t]
<1>1. CountAt = 24 /\ OrigLen = 4
  BY DEF CountAt, OrigLen, TrampLen
<1>2. c \in Nat /\ n \in Nat
  <2>1. CountAt \in 0..CountAt
    BY <1>1
  <2> QED BY <2>1, Offsets
<1>3. \A j \in 0..CountAt :
        s.ints[j] = IF j = CountAt THEN c + n
                    ELSE IF j - c \in 0..(n - 1) THEN B[j - c + 1][1]
                    ELSE IF j - OrigLen - c \in 0..(n - 1)
                         THEN B[j - OrigLen - c + 1][2]
                    ELSE ints[j]
  BY DEF Relocated
<1>4. CleanCount(s) => s.ints[CountAt] = n /\ n <= OrigLen
  BY DEF CleanCount
<1>5. Fits(ints, t) => c + n <= CountBound
  BY DEF Fits
<1>6. Exact(s) <=> \A k \in 1..n : s.ints[k - 1] = B[k][1] /\ s.ints[OrigLen + k - 1] = B[k][2]
  BY DEF Exact
<1> HIDE DEF c, n, B
<1>7. s.ints[CountAt] = c + n
  BY <1>1, <1>3
<1>8. ASSUME CleanCount(s) PROVE Exact(s)
  <2>1. c = 0 /\ n <= 4
    BY <1>1, <1>2, <1>4, <1>7, <1>8
  <2>2. ASSUME NEW k \in 1..n
        PROVE  s.ints[k - 1] = B[k][1] /\ s.ints[OrigLen + k - 1] = B[k][2]
    <3>1. /\ k - 1 \in 0..CountAt /\ k - 1 # CountAt
          /\ k - 1 - c \in 0..(n - 1) /\ k - 1 - c + 1 = k
      BY <1>1, <1>2, <2>1
    <3>2. PICK m \in 0..CountAt :
            /\ m = OrigLen + k - 1 /\ m # CountAt /\ m - c \notin 0..(n - 1)
            /\ m - OrigLen - c \in 0..(n - 1) /\ m - OrigLen - c + 1 = k
      BY <1>1, <1>2, <2>1
    <3>3. s.ints[k - 1] = B[k - 1 - c + 1][1]
      BY <1>3, <3>1
    <3>4. s.ints[m] = B[m - OrigLen - c + 1][2]
      BY <1>3, <3>2
    <3> QED BY <3>1, <3>2, <3>3, <3>4
  <2> QED BY <1>6, <2>2
<1> QED BY <1>5, <1>7, <1>8

LEMMA TablesInitially == Init => Tables
<1> SUFFICES ASSUME Init PROVE Tables
  OBVIOUS
<1>1. CountAt \in 0..CountAt /\ CountBound \in Nat
  BY ConstantAssumption DEF CountAt, OrigLen, TrampLen
<1> QED BY <1>1 DEF Init, Tables, Live, ZeroItem

LEMMA TablesStep ==
  ASSUME IInv, Tables, [Next]_vars
  PROVE  Tables'
<1>1. /\ Core /\ StateOK /\ LiveOK /\ Cap \in Nat /\ size \in 0..Cap
      /\ item \in [1..Cap -> Item] /\ IInv'
  BY ConstantAssumption, NextInvariant DEF IInv, Core, StateOK
<1>2. ASSUME NEW t \in Targets, AddItem(t)
      PROVE  Tables'
  <2> DEFINE m == size + 1
  <2>1. m \in 1..Cap /\ size' = m /\ Fits(item[m].ints, t) /\ item[m] \in Item
    BY <1>1, <1>2 DEF AddItem
  <2>2. PICK p \in Pages :
          item' = [item EXCEPT ![m] =
                     [target |-> t, saved |-> code[t], tramp |-> p,
                      status |-> "REGISTERED", ints |-> Relocated(item[m].ints, t)]]
    BY <1>2 DEF AddItem
  <2>3. /\ item'[m].target = t /\ item'[m].ints = Relocated(item[m].ints, t)
        /\ \A i \in 1..Cap : i # m => item'[i] = item[i]
    BY <1>1, <2>1, <2>2
  <2>4. item[m].ints \in [0..CountAt -> Nat] /\ item'[m] \in Item
    BY <1>1, <2>1 DEF Item, IInv, Core, StateOK
  <2>5. item'[m].ints[CountAt] <= CountBound /\ (CleanCount(item'[m]) => Exact(item'[m]))
    BY <2>1, <2>3, <2>4, RelocatedExact
  <2>6. \A i \in Live' : i = m \/ (i \in Live /\ i # m)
    BY <1>1, <2>1 DEF Live
  <2>7. \A i \in Live : i \in 1..Cap
    BY <1>1 DEF Live
  <2> QED BY <2>3, <2>5, <2>6, <2>7 DEF Tables
<1>3. ASSUME NEW i \in Live, HookItem(i)
      PROVE  Tables'
  <2>1. item' = [item EXCEPT ![i].status = "HOOKED"] /\ size' = size
    BY <1>3 DEF HookItem
  <2>2. \A j \in 1..Cap : item'[j].target = item[j].target /\ item'[j].ints = item[j].ints
    BY <1>1, <2>1 DEF Item
  <2>3. \A j \in Live : /\ j \in 1..Cap
                        /\ CleanCount(item'[j]) <=> CleanCount(item[j])
                        /\ Exact(item'[j]) <=> Exact(item[j])
    <3>1. \A j \in Live : j \in 1..Cap
      BY <1>1 DEF Live
    <3> QED BY <2>2, <3>1 DEF CleanCount, Exact
  <2> QED BY <2>1, <2>2, <2>3 DEF Tables, Live
<1>4. ASSUME NEW i \in Live, UnHookItem(i)
      PROVE  Tables'
  <2>1. item' = [item EXCEPT ![i] = item[size]] /\ size' = size - 1
    BY <1>4 DEF UnHookItem
  <2>2. size \in Live /\ size \in 1..Cap /\ i \in 1..Cap
    BY <1>1 DEF Live
  <2>3. \A j \in 1..Cap : item'[j] = item[j] \/ item'[j] = item[size]
    BY <1>1, <2>1, <2>2
  <2>4. \A j \in Live' : j \in Live /\ j \in 1..Cap
    BY <1>1, <2>1 DEF Live
  <2> QED BY <2>2, <2>3, <2>4 DEF Tables
<1>5. CASE UNCHANGED <<item, size, code, stale, mapped, proto>>
  BY <1>5 DEF Tables, Live
<1> QED BY <1>2, <1>3, <1>4, <1>5, StepKinds

(* In an exact table the entry found for an offset is the one of the       *)
(* instruction there, and none is found for any other offset.              *)
LEMMA EntryOfExact ==
  ASSUME NEW s \in Item, s.target \in Targets, CleanCount(s), Exact(s), NEW off
  PROVE  /\ \A k \in 1..Len(Boundaries[s.target]) :
              LET b == Boundaries[s.target][k] IN
              /\ off = b[1] => Entry(s, 0, OrigLen, off) = b[2]
              /\ off = b[2] => Entry(s, OrigLen, 0, off) = b[1]
         /\ (\A k \in 1..Len(Boundaries[s.target]) : off # Boundaries[s.target][k][2])
              => Entry(s, OrigLen, 0, off) = -1
<1> DEFINE B == Boundaries[s.target]
           n == Len(B)
           hits(key) == {k \in 0..(s.ints[CountAt] - 1) : s.ints[key + k] = off}
<1>1. n \in Nat \ {0} /\ n <= 4 /\ s.ints[CountAt] = n /\ OrigLen = 4
  BY Offsets DEF CleanCount, OrigLen
<1>2. \A k \in 1..n : B[k][1] \in Nat /\ B[k][2] \in Nat
  BY Offsets
<1>3. \A j, k \in 1..n : j # k => B[j][1] # B[k][1] /\ B[j][2] # B[k][2]
  <2> SUFFICES ASSUME NEW j \in 1..n, NEW k \in 1..n, j # k
               PROVE  B[j][1] # B[k][1] /\ B[j][2] # B[k][2]
    OBVIOUS
  <2>1. CASE j < k
    BY <1>1, <1>2, <2>1, Offsets
  <2>2. CASE k < j
    BY <1>1, <1>2, <2>2, Offsets
  <2> QED BY <1>1, <2>1, <2>2
<1>4. \A k \in 1..n : s.ints[k - 1] = B[k][1] /\ s.ints[4 + (k - 1)] = B[k][2]
  <2>1. \A k \in 1..n : OrigLen + k - 1 = 4 + (k - 1)
    BY <1>1
  <2> QED BY <2>1 DEF Exact
<1>5. \A j \in 0..(n - 1) : s.ints[0 + j] = B[j + 1][1] /\ s.ints[4 + j] = B[j + 1][2]
                            /\ j + 1 \in 1..n
  <2> SUFFICES ASSUME NEW j \in 0..(n - 1)
               PROVE  /\ s.ints[0 + j] = B[j + 1][1] /\ s.ints[4 + j] = B[j + 1][2]
                      /\ j + 1 \in 1..n
    OBVIOUS
  <2>1. j + 1 \in 1..n /\ (j + 1) - 1 = j /\ 0 + j = j
    BY <1>1
  <2> QED BY <1>4, <2>1
<1>6. ASSUME NEW k \in 1..n, off = B[k][1]
      PROVE  Entry(s, 0, OrigLen, off) = B[k][2]
  <2>1. k - 1 \in 0..(n - 1) /\ (k - 1) + 1 = k
    BY <1>1
  <2>2. hits(0) = {k - 1}
    <3>1. ASSUME NEW j \in 0..(n - 1)
          PROVE  s.ints[0 + j] = off <=> j = k - 1
      <4>1. s.ints[0 + j] = B[j + 1][1] /\ j + 1 \in 1..n
        BY <1>5
      <4>2. j + 1 # k => B[j + 1][1] # B[k][1]
        BY <1>3, <4>1
      <4>3. j + 1 = k <=> j = k - 1
        BY <1>1
      <4> QED BY <1>6, <4>1, <4>2, <4>3
    <3> QED BY <1>1, <2>1, <3>1
  <2>3. (CHOOSE m \in hits(0) : \A l \in hits(0) : m <= l) = k - 1
    BY <1>1, <2>1, <2>2
  <2>4. s.ints[4 + (k - 1)] = B[k][2]
    BY <1>4
  <2> QED BY <1>1, <2>2, <2>3, <2>4 DEF Entry
<1>7. ASSUME NEW k \in 1..n, off = B[k][2]
      PROVE  Entry(s, OrigLen, 0, off) = B[k][1]
  <2>1. k - 1 \in 0..(n - 1) /\ (k - 1) + 1 = k /\ 0 + (k - 1) = k - 1
    BY <1>1
  <2>2. hits(4) = {k - 1}
    <3>1. ASSUME NEW j \in 0..(n - 1)
          PROVE  s.ints[4 + j] = off <=> j = k - 1
      <4>1. s.ints[4 + j] = B[j + 1][2] /\ j + 1 \in 1..n
        BY <1>5
      <4>2. j + 1 # k => B[j + 1][2] # B[k][2]
        BY <1>3, <4>1
      <4>3. j + 1 = k <=> j = k - 1
        BY <1>1
      <4> QED BY <1>7, <4>1, <4>2, <4>3
    <3> QED BY <1>1, <2>1, <3>1
  <2>3. (CHOOSE m \in hits(4) : \A l \in hits(4) : m <= l) = k - 1
    BY <1>1, <2>1, <2>2
  <2>4. s.ints[0 + (k - 1)] = B[k][1]
    BY <1>4, <2>1
  <2> QED BY <1>1, <2>2, <2>3, <2>4 DEF Entry
<1>8. ASSUME \A k \in 1..n : off # B[k][2]
      PROVE  Entry(s, OrigLen, 0, off) = -1
  <2>1. hits(4) = {}
    BY <1>1, <1>5, <1>8
  <2> QED BY <1>1, <2>1 DEF Entry
<1> QED BY <1>6, <1>7, <1>8

LEMMA TablesAreExact == IInv /\ Tables => BoundariesExact
<1> SUFFICES ASSUME IInv, Tables, NEW i \in Live, CleanCount(item[i]),
                    NEW k \in 1..Len(Boundaries[item[i].target])
             PROVE  LET b == Boundaries[item[i].target][k] IN
                    /\ Entry(item[i], 0, OrigLen, b[1]) = b[2]
                    /\ Entry(item[i], OrigLen, 0, b[2]) = b[1]
  BY DEF BoundariesExact
<1>1. item[i] \in Item /\ item[i].target \in Targets
  BY ConstantAssumption DEF IInv, Core, StateOK, LiveOK, Live
<1>2. Exact(item[i])
  BY DEF Tables
<1> QED BY <1>1, <1>2, EntryOfExact

LEMMA TablesInvariant == Spec => [](IInv /\ Tables)
<1>1. IInv /\ Tables /\ [Next]_vars => Tables'
  BY TablesStep
<1> QED BY <1>1, TablesInitially, Invariant, PTL DEF Spec

(* Freeze finds, for the instruction a thread stopped at, the copy of that *)
(* very instruction, and back, in every item whose slot started at count   *)
(* zero and whose boundaries fit: also after swaps and reuse of slots.     *)
THEOREM TablesStayExact == Spec => []BoundariesExact
<1> QED BY TablesInvariant, TablesAreExact, PTL

-----------------------------------------------------------------------------
(* The refinement: what a client sees of a state is fixed by the names in  *)
(* the table, the hooked ones and the code.                                *)
LEMMA StateOfNames ==
  ASSUME NEW t
  PROVE  StateOf(t) = IF t \notin Names THEN "free"
                      ELSE IF t \in Hooked THEN "hooked" ELSE "registered"
  BY DEF StateOf, Names, Find

View == [t \in Targets |-> StateOf(t)]
Jumps == {t \in Targets : code[t] = "jump"}

(* Registering enters a function the client sees as free.                  *)
LEMMA AddItemEnters ==
  ASSUME Core, NEW t \in Targets, AddItem(t)
  PROVE  Table!Enter(t)
<1>1. Core' /\ Names' = Names \cup {t} /\ Hooked' = Hooked
  BY AddItemKeepsCore
<1>2. Find(t) = {} /\ size < Cap /\ code' = code
  BY DEF AddItem
<1>3. size \in Nat /\ Cap \in Nat /\ Names \subseteq Targets /\ Hooked \subseteq Names
  BY ConstantAssumption DEF Core, StateOK, LiveOK, Names, Hooked
<1>4. t \notin Names
  BY <1>2 DEF Find, Names
<1>5. View[t] = "free"
  BY <1>4, StateOfNames DEF View
<1>6. View' = [View EXCEPT ![t] = "registered"]
  <2>1. \A u \in Targets : StateOf(u)' = IF u = t THEN "registered" ELSE StateOf(u)
    BY <1>1, <1>3, <1>4 DEF StateOf, Find, Names
  <2> QED BY <2>1 DEF View
<1>7. size < Cap /\ size' = size + 1
  BY DEF AddItem
<1>8. Jumps' = Jumps
  BY <1>2 DEF Jumps
<1> QED BY <1>5, <1>6, <1>7, <1>8 DEF Table!Enter, View, Jumps

(* Patching redirects a registered function.                               *)
LEMMA HookItemRedirects ==
  ASSUME Core, NEW i \in Live, item[i].status = "REGISTERED", HookItem(i),
         NEW t, t = item[i].target
  PROVE  Table!Redirect(t)
<1>1. Core' /\ Names' = Names /\ Hooked' = Hooked \cup {t}
  BY HookItemKeepsCore
<1>2. t \in Targets /\ t \in Names /\ t \notin Hooked
  BY DEF Core, LiveOK, Names, Hooked, OneItemPerTarget
<1>3. code' = [code EXCEPT ![t] = "jump"] /\ code \in [Targets -> {"orig", "jump"}]
  BY DEF HookItem, Core, StateOK
<1>4. View[t] = "registered"
  BY <1>2, StateOfNames DEF View
<1>5. View' = [View EXCEPT ![t] = "hooked"]
  <2>1. \A u \in Targets : StateOf(u)' = IF u = t THEN "hooked" ELSE StateOf(u)
    BY <1>1, <1>2 DEF StateOf, Find, Names
  <2> QED BY <2>1 DEF View
<1>6. Jumps' = Jumps \cup {t}
  BY <1>2, <1>3 DEF Jumps
<1> QED BY <1>4, <1>5, <1>6 DEF Table!Redirect, View, Jumps, HookItem

(* Unhooking releases a hooked function.                                   *)
LEMMA UnHookItemReleases ==
  ASSUME Core, NEW i \in Live, item[i].status = "HOOKED", UnHookItem(i),
         NEW t, t = item[i].target
  PROVE  Table!Release(t)
<1>1. Core' /\ Names' = Names \ {t} /\ Hooked' = Hooked \ {t}
  BY UnHookItemKeepsCore
<1>2. t \in Targets /\ t \in Names /\ t \in Hooked
  BY DEF Core, LiveOK, Names, Hooked
<1>3. code' = [code EXCEPT ![t] = "orig"] /\ code \in [Targets -> {"orig", "jump"}]
  BY DEF UnHookItem, Core, StateOK, CodeMatchesRegistry
<1>4. View[t] = "hooked"
  BY <1>2, StateOfNames DEF View
<1>5. View' = [View EXCEPT ![t] = "free"]
  <2>1. \A u \in Targets : StateOf(u)' = IF u = t THEN "free" ELSE StateOf(u)
    BY <1>1, <1>2 DEF StateOf, Find, Names
  <2> QED BY <2>1 DEF View
<1>6. Jumps' = Jumps \ {t}
  BY <1>2, <1>3 DEF Jumps
<1> QED BY <1>4, <1>5, <1>6 DEF Table!Release, View, Jumps, UnHookItem

(* Every engine step is a step of the client's table or invisible to it.   *)
LEMMA StepImplementsTable ==
  IInv /\ [Next]_vars => [Table!TableNext]_<<View, Jumps, size>>
<1> SUFFICES ASSUME IInv, [Next]_vars
             PROVE  Table!TableNext \/ UNCHANGED <<View, Jumps, size>>
  OBVIOUS
<1>1. Core /\ LoopPosition /\ \A i \in Live : item[i].target \in Targets
  BY DEF IInv, Core, LiveOK
<1>2. ASSUME NEW t \in Targets, AddItem(t)
      PROVE  Table!TableNext
  BY <1>1, <1>2, AddItemEnters DEF Table!TableNext
<1>3. ASSUME NEW i \in Live, item[i].status = "REGISTERED", HookItem(i)
      PROVE  Table!TableNext
  <2>1. PICK t \in Targets : t = item[i].target
    BY <1>1
  <2>2. Table!Redirect(t)
    BY <1>1, <1>3, <2>1, HookItemRedirects
  <2> QED BY <2>2 DEF Table!TableNext
<1>4. ASSUME NEW i \in Live, item[i].status = "HOOKED", UnHookItem(i)
      PROVE  Table!TableNext
  <2>1. PICK t \in Targets : t = item[i].target
    BY <1>1
  <2>2. Table!Release(t)
    BY <1>1, <1>4, <2>1, UnHookItemReleases
  <2> QED BY <2>2 DEF Table!TableNext
<1>5. ASSUME UNCHANGED <<item, size, code>>
      PROVE  UNCHANGED <<View, Jumps, size>>
  BY <1>5 DEF View, Jumps, StateOf, Find, Hooked, Live
<1>6. CASE \E t \in Targets : Register(t) \/ HookStart(t)
  BY <1>2, <1>6 DEF Register, HookStart
<1>7. CASE \E t \in Targets : InlineHook(t)
  <2>1. PICK t \in Targets : InlineHook(t)
    BY <1>7
  <2>2. PICK i \in Live : item[i].status = "REGISTERED" /\ HookItem(i)
    BY <2>1 DEF InlineHook, Find
  <2> QED BY <1>3, <2>2
<1>8. CASE \E t \in Targets : InlineUnHook(t)
  <2>1. PICK t \in Targets : InlineUnHook(t)
    BY <1>8
  <2>2. PICK i \in Live : item[i].status = "HOOKED" /\ UnHookItem(i)
    BY <2>1 DEF InlineUnHook, Find
  <2> QED BY <1>4, <2>2
<1>9. CASE HookFinish
  BY <1>1, <1>3, <1>9 DEF HookFinish, LoopPosition
<1>10. CASE HookAllHook
  BY <1>3, <1>10 DEF HookAllHook, AllVisit
<1>11. CASE UnHookAllRemove
  BY <1>4, <1>11 DEF UnHookAllRemove, AllVisit
<1>12. CASE \/ \E t \in Targets : RegisterWhenFull(t)
            \/ AllStart("hookAll") \/ AllStart("unhookAll")
            \/ AllSkip \/ AllReturn \/ UNCHANGED vars
  BY <1>5, <1>12 DEF RegisterWhenFull, AllStart, AllSkip, AllReturn, vars
<1> QED
  BY <1>6, <1>7, <1>8, <1>9, <1>10, <1>11, <1>12 DEF Next

(* The engine implements the table its clients see, for any number of      *)
(* functions, pages and slots.                                             *)
THEOREM Refinement == Spec => ImplementsTable
<1>1. Init => Table!TableInit
  <2> SUFFICES ASSUME Init PROVE Table!TableInit
    OBVIOUS
  <2>1. Live = {} /\ code = [t \in Targets |-> "orig"]
    BY DEF Init, Live
  <2>2. \A t \in Targets : StateOf(t) = "free"
    BY <2>1 DEF StateOf, Find
  <2>3. size = 0
    BY DEF Init
  <2> QED BY <2>1, <2>2, <2>3 DEF Table!TableInit
<1>2. IInv /\ [Next]_vars => [Table!TableNext]_Table!tableVars
  BY StepImplementsTable DEF View, Jumps, Table!tableVars
<1> QED BY <1>1, <1>2, Invariant, PTL DEF Spec, ImplementsTable, Table!TableSpec
-----------------------------------------------------------------------------
(* The threads (HookThreads).  A thread that is not exposed is about to    *)
(* execute what follows the instructions it has executed, in code that     *)
(* stays in place: Placed says what that means where the thread is.        *)

ThreadRec ==
  [at : {"unborn", "out", "fn", "new", "tramp", "body", "fault"},
   fn : Targets \cup {NULL}, k : Nat, page : Pages \cup {NULL},
   off : Nat, done : Nat]

(* The functions the items are for, with the pages of their trampolines.   *)
Owners == {<<item[i].target, item[i].tramp>> : i \in Live}

(* In a trampoline: at the copy of the instruction after those executed,   *)
(* at its start or past it; or at the jump back.                           *)
AtCopy(th) ==
  \E k \in 1..Length(th.fn) :
    th.off \in {TrampOff(th.fn, k), TrampOff(th.fn, k) + 1} /\ th.done = k - 1
AtTail(th) == th.off = TailOff(th.fn) /\ th.done = Length(th.fn)

(* A freeze for the removal of one item, which is not over.                *)
Removing == freezer.for # NULL /\ freezer.phase \in {"attach", "frozen"}

Placed(x, th) ==
  /\ th.at # "fault"
  /\ th.at = "fn" =>
       /\ th.k \in 1..Length(th.fn) /\ th.done = th.k - 1
       /\ \/ th.k = 1
          \/ code[th.fn] = "orig"
          \/ Removing /\ freezer.for = th.fn /\ x \in stopped
  /\ th.at = "new" => th.fn \in Hooked /\ th.done = 0 /\ ~(gone # NULL /\ torn = th.fn)
  /\ th.at = "tramp" => /\ <<th.fn, th.page>> \in Owners /\ th.page # gone
                        /\ AtCopy(th) \/ AtTail(th)
  /\ th.at = "body" => th.done = Length(th.fn)

Named(th) == th.at \in {"fn", "new", "tramp"} => th.fn \in Targets

(* The trampoline that is unmapped is that of the function doInlineUnHook  *)
(* restores.  (Placed: nobody unexposed is in it, or on the way to it.)    *)
GoneOK ==
  gone # NULL => \E i \in Live : /\ item[i].target = torn /\ item[i].tramp = gone
                                 /\ item[i].status = "HOOKED"

(* Threads stopped for inlineHookAll have left the functions it patches;   *)
(* those stopped for an unhook are off the boundaries of its trampoline.   *)
Cleared(th) ==
  /\ freezer.for = NULL /\ th.at = "fn" => th.fn \notin Names
  /\ Removing /\ th.at = "tramp" /\ <<freezer.for, th.page>> \in Owners =>
       \A k \in 1..Length(freezer.for) : TrampOff(freezer.for, k) # th.off

FreezerOK ==
  /\ freezer.phase = "none" => stopped = {}
  /\ torn # NULL => freezer.phase \in {"none", "frozen"}
  /\ torn # NULL /\ call.op # "none" => torn = item[call.cur].target
  /\ torn # NULL /\ Removing => torn = freezer.for
  /\ torn # NULL /\ freezer.phase = "frozen" /\ ~Removing => torn \notin Hooked
  /\ Removing => freezer.for \in Hooked /\ call = Idle
  /\ GoneOK

ThreadsOK ==
  /\ \A x \in Threads : Named(thread[x])
  /\ \A x \in Threads \ exposed : Placed(x, thread[x])
  /\ \A x \in stopped \ exposed : Cleared(thread[x])

TInv == IInv /\ Tables /\ ThreadsTypeOK /\ FreezerOK /\ ThreadsOK

(* What of TInv every proof below opens with.                              *)
LEMMA TInvFacts ==
  ASSUME TInv
  PROVE  /\ IInv /\ Tables /\ ThreadsTypeOK /\ FreezerOK /\ ThreadsOK /\ Core
         /\ thread \in [Threads -> ThreadRec]
         /\ \A i \in Live : /\ i \in 1..Cap /\ item[i] \in Item
                            /\ item[i].target \in Targets /\ item[i].tramp \in Pages
         /\ \A i, j \in Live : item[i].target = item[j].target \/ item[i].tramp = item[j].tramp
                                 => i = j
         /\ size \in Nat /\ NULL \notin Targets /\ NULL \notin Pages
  BY ConstantAssumption
  DEF TInv, IInv, Core, ThreadsTypeOK, ThreadRec, StateOK, LiveOK, Live,
      OneItemPerTarget, TrampolinesOwned

(* A boundary has a copy of its own, clear of the next one and of the jump *)
(* back.                                                                   *)
LEMMA CopyOffsets ==
  ASSUME NEW t \in Targets
  PROVE  /\ Length(t) \in Nat \ {0} /\ 1 \in 1..Length(t)
         /\ \A k \in 1..Length(t) : OrigOff(t, k) \in Nat /\ TrampOff(t, k) \in Nat
         /\ \A j, k \in 1..Length(t) :
              j # k => /\ OrigOff(t, j) # OrigOff(t, k)
                       /\ \/ TrampOff(t, j) + 4 <= TrampOff(t, k)
                          \/ TrampOff(t, k) + 4 <= TrampOff(t, j)
         /\ \A k \in 1..Length(t) : TrampOff(t, k) + 16 <= TailOff(t)
         /\ TailOff(t) \in Nat /\ TrampOff(t, 1) = 0
<1> DEFINE n == Len(Boundaries[t])
           B == Boundaries[t]
<1>1. /\ n \in Nat \ {0}
      /\ \A k \in 1..n : B[k][1] \in Nat /\ B[k][2] \in Nat
      /\ \A j, k \in 1..n : j < k => B[j][1] < B[k][1] /\ B[j][2] + 4 <= B[k][2]
      /\ B[1][2] = 0
  BY Offsets
<1> HIDE DEF n, B
<1>2. \A j, k \in 1..n : j # k => /\ B[j][1] # B[k][1]
                                  /\ B[j][2] + 4 <= B[k][2] \/ B[k][2] + 4 <= B[j][2]
  <2> SUFFICES ASSUME NEW j \in 1..n, NEW k \in 1..n, j # k
               PROVE  /\ B[j][1] # B[k][1]
                      /\ B[j][2] + 4 <= B[k][2] \/ B[k][2] + 4 <= B[j][2]
    OBVIOUS
  <2>1. CASE j < k
    BY <1>1, <2>1
  <2>2. CASE k < j
    BY <1>1, <2>2
  <2> QED BY <1>1, <2>1, <2>2
<1>3. 1 \in 1..n /\ n \in 1..n
  BY <1>1
<1>4. \A k \in 1..n : B[k][2] <= B[n][2]
  <2> SUFFICES ASSUME NEW k \in 1..n
               PROVE  B[k][2] <= B[n][2]
    OBVIOUS
  <2>1. CASE k = n
    BY <1>1, <1>3, <2>1
  <2>2. CASE k < n
    <3>1. B[k][2] + 4 <= B[n][2]
      BY <1>1, <1>3, <2>2
    <3> QED BY <1>1, <1>3, <3>1
  <2> QED BY <1>1, <2>1, <2>2
<1>5. \A k \in 1..n : B[k][2] + 16 <= B[n][2] + 16
  <2>1. B[n][2] \in Nat
    BY <1>1, <1>3
  <2> QED BY <1>1, <1>4, <2>1
<1>6. /\ Length(t) = n /\ TailOff(t) = B[n][2] + 16
      /\ \A k \in 1..n : OrigOff(t, k) = B[k][1] /\ TrampOff(t, k) = B[k][2]
      /\ TrampOff(t, 1) = B[1][2]
  BY DEF Length, OrigOff, TrampOff, TailOff, n, B
<1>7. B[n][2] + 16 \in Nat
  BY <1>1, <1>3
<1> QED BY <1>1, <1>2, <1>3, <1>5, <1>6, <1>7

(* The order of the naturals, in the form the library's WFMin wants.       *)
Before == OpToRel(<, Nat)

LEMMA LeastMember ==
  ASSUME NEW S \in SUBSET Nat, S # {}
  PROVE  \E m \in S : \A y \in S : m <= y
<1>0. IsWellFoundedOn(Before, Nat)
  BY NatLessThanWellFounded DEF OpToRel, Before
<1>1. PICK m \in S : \A y \in S : ~ (<<y, m>> \in Before)
  BY <1>0, WFMin
<1>2. ASSUME NEW y \in S PROVE m <= y
  <2>1. m \in Nat /\ y \in Nat /\ ~(<<y, m>> \in Before)
    BY <1>1
  <2>2. <<y, m>> \in Nat \X Nat /\ <<y, m>>[1] = y /\ <<y, m>>[2] = m
    BY <2>1
  <2>3. ~(y < m)
    BY <2>1, <2>2 DEF Before, OpToRel
  <2> QED BY <2>1, <2>3
<1> QED BY <1>2

(* Whatever a table holds, the lookup yields one of its ints or -1.        *)
LEMMA EntryType ==
  ASSUME NEW s \in Item, s.ints[CountAt] <= CountBound, NEW off,
         NEW key, NEW val \in {0, OrigLen}
  PROVE  Entry(s, key, val, off) \in Nat \cup {-1}
<1> DEFINE hits == {k \in 0..(s.ints[CountAt] - 1) : s.ints[key + k] = off}
<1>1. /\ CountAt = 24 /\ OrigLen = 4 /\ TrampLen = 20
      /\ s.ints \in [0..CountAt -> Nat]
  BY DEF CountAt, OrigLen, TrampLen, Item
<1>2. s.ints[CountAt] \in 0..20
  <2>1. CountAt \in 0..CountAt /\ CountBound \in 0..20
    BY <1>1, ConstantAssumption
  <2>2. s.ints[CountAt] \in Nat
    BY <1>1, <2>1
  <2> QED BY <2>1, <2>2
<1>3. CASE hits = {}
  BY <1>3 DEF Entry
<1>4. CASE hits # {}
  <2> DEFINE first == CHOOSE k \in hits : \A m \in hits : k <= m
  <2>1. hits \in SUBSET Nat
    BY <1>2
  <2>2. \E k \in hits : \A m \in hits : k <= m
    BY <1>4, <2>1, LeastMember
  <2>3. first \in hits
    BY <2>2
  <2> HIDE DEF first
  <2>4. first \in 0..19
    BY <1>2, <2>3
  <2>5. val + first \in 0..CountAt
    BY <1>1, <2>4
  <2>6. s.ints[val + first] \in Nat
    BY <1>1, <2>5
  <2>7. Entry(s, key, val, off) = s.ints[val + first]
    BY <1>4 DEF Entry, first
  <2> QED BY <2>6, <2>7
<1> QED BY <1>3, <1>4

-----------------------------------------------------------------------------
(* Thread steps.  They change one thread and perhaps its exposure.         *)
LEMMA ThreadMove ==
  ASSUME TInv, NEW x \in Threads, NEW w \in ThreadRec, Go(x, w),
         exposed' \in {exposed, exposed \cup {x}, exposed \ {x}},
         Named(w), x \notin exposed' => Placed(x, w),
         x \in stopped => w.at \notin {"fn", "tramp"}
  PROVE  TInv'
<1>1. /\ thread' = [thread EXCEPT ![x] = w]
      /\ UNCHANGED <<item, size, code, stale, mapped, proto, call, crashed>>
      /\ torn' = torn /\ gone' = gone /\ freezer' = freezer
      /\ tids' = tids /\ stopped' = stopped
      /\ UNCHANGED vars
  BY DEF Go, vars
<1>2. IInv' /\ Tables'
  BY <1>1, TInvFacts, NextInvariant, TablesStep
<1>3. Owners' = Owners /\ Hooked' = Hooked /\ Names' = Names /\ Removing' = Removing
  BY <1>1 DEF Owners, Hooked, Names, Removing, Live
<1>4. /\ thread' \in [Threads -> ThreadRec] /\ thread'[x] = w
      /\ \A y \in Threads : y # x => thread'[y] = thread[y]
  BY <1>1, TInvFacts
<1>5. ThreadsTypeOK'
  BY <1>1, <1>4, TInvFacts DEF ThreadsTypeOK, ThreadRec
<1>6. FreezerOK'
  BY <1>1, <1>3, TInvFacts DEF FreezerOK, GoneOK, Live
<1>7. ThreadsOK'
  <2>0. ThreadsOK /\ stopped \subseteq Threads
    BY TInvFacts DEF ThreadsTypeOK
  <2>1. \A y \in Threads : Named(thread'[y])
    BY <1>4, <2>0 DEF ThreadsOK
  <2>2. ASSUME NEW y \in Threads \ exposed'
        PROVE  Placed(y, thread[y])'
    <3>1. CASE y = x
      BY <1>1, <1>3, <1>4, <2>2, <3>1 DEF Placed
    <3>2. CASE y # x
      <4>1. y \notin exposed /\ thread'[y] = thread[y] /\ Placed(y, thread[y])
        BY <1>4, <2>0, <2>2, <3>2 DEF ThreadsOK
      <4> QED BY <1>1, <1>3, <4>1 DEF Placed
    <3> QED BY <3>1, <3>2
  <2>3. ASSUME NEW y \in stopped \ exposed'
        PROVE  Cleared(thread[y])'
    <3>1. CASE y = x
      <4>1. thread'[y] = w /\ w.at \notin {"fn", "tramp"}
        BY <1>4, <2>3, <3>1
      <4> QED BY <4>1 DEF Cleared
    <3>2. CASE y # x
      <4>1. y \notin exposed /\ thread'[y] = thread[y] /\ Cleared(thread[y])
        BY <1>4, <2>0, <2>3, <3>2 DEF ThreadsOK
      <4> QED BY <1>1, <1>3, <4>1 DEF Cleared
    <3> QED BY <3>1, <3>2
  <2> QED BY <1>1, <2>1, <2>2, <2>3 DEF ThreadsOK
<1> QED BY <1>2, <1>5, <1>6, <1>7 DEF TInv

LEMMA OutsideIsSafe ==
  /\ Outside \in ThreadRec /\ Named(Outside) /\ Outside.at = "out"
  /\ \A x : Placed(x, Outside)
  BY DEF Outside, ThreadRec, Named, Placed

(* What an unexposed thread may see and do at the entry of a function.     *)
LEMMA FetchStep ==
  ASSUME TInv, NEW x \in Threads, FetchOriginal(x) \/ FetchJump(x) \/ FetchGarbage(x)
  PROVE  TInv'
<1> DEFINE th == thread[x]
<1>0. /\ th \in ThreadRec /\ x \notin stopped /\ th.at = "fn" /\ th.fn \in Targets
      /\ Length(th.fn) \in Nat
      /\ x \notin exposed => Placed(x, th)
      /\ code \in [Targets -> {"orig", "jump"}] /\ CodeMatchesRegistry
  <2>1. x \notin stopped /\ th.at = "fn"
    BY DEF FetchOriginal, FetchJump, FetchGarbage, Runs
  <2>2. th.fn \in Targets /\ Core
    BY <2>1, TInvFacts DEF ThreadsOK, Named
  <2>3. Length(th.fn) \in Nat
    BY <2>2, CopyOffsets
  <2> QED BY <2>1, <2>2, <2>3, TInvFacts DEF ThreadsOK, Core, StateOK
<1>1. CASE FetchOriginal(x)
  <2> DEFINE w == IF th.k < Length(th.fn)
                  THEN [th EXCEPT !.k = th.k + 1, !.done = th.done + 1]
                  ELSE [th EXCEPT !.at = "body", !.done = th.done + 1]
  <2>1. Go(x, w) /\ exposed' = IF Risky(th.fn, "orig") THEN exposed \cup {x} ELSE exposed
    BY <1>1 DEF FetchOriginal, Expose
  <2>2. w \in ThreadRec /\ Named(w)
    <3>1. th.k + 1 \in Nat /\ th.done + 1 \in Nat
      BY <1>0 DEF ThreadRec
    <3>2. /\ [th EXCEPT !.k = th.k + 1, !.done = th.done + 1] \in ThreadRec
          /\ [th EXCEPT !.at = "body", !.done = th.done + 1] \in ThreadRec
      BY <1>0, <3>1 DEF ThreadRec
    <3>3. w \in ThreadRec
      BY <3>2
    <3>4. w.fn = th.fn
      BY <1>0 DEF ThreadRec
    <3> QED BY <1>0, <3>3, <3>4 DEF Named
  <2>3. ASSUME x \notin exposed'
        PROVE  Placed(x, w)
    <3>1. code[th.fn] = "orig" /\ x \notin exposed
      BY <2>1, <2>3 DEF Risky
    <3>2. th.k \in 1..Length(th.fn) /\ th.done = th.k - 1
      BY <1>0, <3>1 DEF Placed
    <3>3. CASE th.k < Length(th.fn)
      <4>1. /\ w.at = "fn" /\ w.fn = th.fn /\ w.k = th.k + 1 /\ w.done = th.done + 1
        BY <1>0, <3>3 DEF ThreadRec
      <4>2. w.k \in 1..Length(th.fn) /\ w.done = w.k - 1
        BY <1>0, <3>2, <3>3, <4>1
      <4> HIDE DEF w, th
      <4> QED BY <3>1, <4>1, <4>2 DEF Placed
    <3>4. CASE ~(th.k < Length(th.fn))
      <4>1. /\ w.at = "body" /\ w.fn = th.fn /\ w.done = th.done + 1
        BY <1>0, <3>4 DEF ThreadRec
      <4>2. w.done = Length(th.fn)
        BY <1>0, <3>2, <3>4, <4>1
      <4> HIDE DEF w, th
      <4> QED BY <4>1, <4>2 DEF Placed
    <3> QED BY <3>3, <3>4
  <2> HIDE DEF w
  <2>4. exposed' \in {exposed, exposed \cup {x}, exposed \ {x}}
    BY <2>1
  <2> QED BY <1>0, <2>1, <2>2, <2>3, <2>4, ThreadMove
<1>2. CASE FetchJump(x)
  <2> DEFINE w == [th EXCEPT !.at = "new"]
  <2>1. /\ Go(x, w) /\ th.k = 1
        /\ exposed' = IF Risky(th.fn, "jump") THEN exposed \cup {x} ELSE exposed
    BY <1>2 DEF FetchJump, Expose
  <2>2. w \in ThreadRec /\ Named(w) /\ w.at = "new" /\ w.fn = th.fn /\ w.done = th.done
    BY <1>0 DEF ThreadRec, Named
  <2>3. ASSUME x \notin exposed'
        PROVE  Placed(x, w)
    <3>1. code[th.fn] = "jump" /\ torn # th.fn /\ x \notin exposed
      BY <2>1, <2>3 DEF Risky
    <3>2. th.fn \in Hooked
      BY <1>0, <3>1 DEF CodeMatchesRegistry
    <3>3. th.done = 0
      BY <1>0, <2>1, <3>1 DEF Placed
    <3> HIDE DEF w, th
    <3> QED BY <2>2, <3>1, <3>2, <3>3 DEF Placed
  <2> HIDE DEF w
  <2>4. exposed' \in {exposed, exposed \cup {x}, exposed \ {x}}
    BY <2>1
  <2> QED BY <1>0, <2>1, <2>2, <2>3, <2>4, ThreadMove
<1>3. CASE FetchGarbage(x)
  <2> DEFINE w == [th EXCEPT !.at = "fault"]
  <2>1. /\ Go(x, w)
        /\ th.k > 1 \/ torn = th.fn
        /\ exposed' = IF Risky(th.fn, "jump") THEN exposed \cup {x} ELSE exposed
    BY <1>3 DEF FetchGarbage, Expose
  <2>2. w \in ThreadRec /\ Named(w) /\ w.at = "fault"
    BY <1>0 DEF ThreadRec, Named
  <2>3. x \in exposed'
    <3> SUFFICES ASSUME x \notin exposed' PROVE FALSE
      OBVIOUS
    <3>1. code[th.fn] = "jump" /\ torn # th.fn /\ x \notin exposed
      BY <2>1 DEF Risky
    <3>2. th.k = 1
      BY <1>0, <3>1 DEF Placed
    <3> QED BY <2>1, <3>1, <3>2
  <2> HIDE DEF w
  <2>4. exposed' \in {exposed, exposed \cup {x}, exposed \ {x}}
    BY <2>1
  <2> QED BY <1>0, <2>1, <2>2, <2>3, <2>4, ThreadMove
<1> QED BY <1>1, <1>2, <1>3

(* In a trampoline an unexposed thread meets its own page, still mapped,   *)
(* and at each offset one instruction at most.                             *)
LEMMA TrampolineStep ==
  ASSUME TInv, NEW x \in Threads, Trampoline(x)
  PROVE  TInv'
<1> DEFINE th == thread[x]
           f == th.fn
           owner == {i \in Live : item[i].tramp = th.page /\ item[i].target = f}
           at == {k \in 1..Length(f) : TrampOff(f, k) \in {th.off, th.off - 1}}
           next(k) == IF k < Length(f) THEN TrampOff(f, k + 1) ELSE TailOff(f)
<1>0. /\ th \in ThreadRec /\ x \notin stopped /\ th.at = "tramp" /\ f \in Targets
      /\ th.off \in Nat /\ th.done \in Nat
      /\ x \notin exposed => Placed(x, th)
      /\ exposed' \in {exposed, exposed \cup {x}, exposed \ {x}} /\ exposed' = exposed
  <2>1. x \notin stopped /\ th.at = "tramp" /\ exposed' = exposed
    BY DEF Trampoline, Runs, Keep
  <2> QED BY <2>1, TInvFacts DEF ThreadsOK, Named, ThreadRec
<1>1. /\ Length(f) \in Nat \ {0} /\ TailOff(f) \in Nat
      /\ \A k \in 1..Length(f) : TrampOff(f, k) \in Nat /\ TrampOff(f, k) + 16 <= TailOff(f)
      /\ \A j, k \in 1..Length(f) :
           j # k => \/ TrampOff(f, j) + 4 <= TrampOff(f, k)
                    \/ TrampOff(f, k) + 4 <= TrampOff(f, j)
  BY <1>0, CopyOffsets
<1>2. ASSUME NEW w \in ThreadRec, Go(x, w), w.fn = f, x \notin exposed => Placed(x, w)
      PROVE  TInv'
  <2>1. Named(w)
    BY <1>0, <1>2 DEF Named
  <2> HIDE DEF th
  <2> QED BY <1>0, <1>2, <2>1, ThreadMove
<1>3. CASE owner = {} \/ th.page \notin mapped \/ th.page = gone
  <2> DEFINE w == [th EXCEPT !.at = "fault"]
  <2>1. Go(x, w)
    BY <1>3 DEF Trampoline
  <2>2. w \in ThreadRec /\ w.fn = f
    BY <1>0 DEF ThreadRec
  <2>3. x \in exposed
    <3> SUFFICES ASSUME x \notin exposed PROVE FALSE
      OBVIOUS
    <3>1. /\ <<f, th.page>> \in Owners /\ th.page # gone
      BY <1>0 DEF Placed
    <3>3. PICK i \in Live : f = item[i].target /\ th.page = item[i].tramp
      BY <3>1 DEF Owners
    <3>2. th.page \in mapped
      BY <3>3, TInvFacts DEF Core, TrampolinesOwned
    <3> QED BY <1>3, <3>1, <3>2, <3>3
  <2> QED BY <1>2, <2>1, <2>2, <2>3
<1>4. CASE owner # {} /\ th.page \in mapped /\ th.page # gone /\ at = {}
  <2> DEFINE w == [th EXCEPT !.at = "body"]
  <2>1. Go(x, w)
    BY <1>4 DEF Trampoline
  <2>2. w \in ThreadRec /\ w.fn = f /\ w.at = "body" /\ w.done = th.done
    BY <1>0 DEF ThreadRec
  <2>3. x \notin exposed => th.done = Length(f)
    <3>1. ~ AtCopy(th)
      <4> SUFFICES ASSUME NEW k \in 1..Length(f),
                          th.off \in {TrampOff(f, k), TrampOff(f, k) + 1}
                   PROVE  FALSE
        BY DEF AtCopy
      <4>1. k \in at
        BY <1>0, <1>1
      <4> QED BY <1>4, <4>1
    <3> QED BY <1>0, <3>1 DEF Placed, AtTail
  <2>4. x \notin exposed => Placed(x, w)
    BY <2>2, <2>3 DEF Placed
  <2> QED BY <1>2, <2>1, <2>2, <2>4
<1>5. ASSUME owner # {}, th.page \in mapped, th.page # gone, NEW k \in at,
             Go(x, IF <<f, k>> \in Wide /\ th.off = TrampOff(f, k)
                   THEN [th EXCEPT !.off = th.off + 1]
                   ELSE [th EXCEPT !.off = next(k), !.done = th.done + 1])
      PROVE  TInv'
  <2>0. k \in 1..Length(f) /\ th.off \in {TrampOff(f, k), TrampOff(f, k) + 1}
    BY <1>0, <1>1
  <2>1. x \notin exposed => <<f, th.page>> \in Owners /\ th.done = k - 1
    <3> SUFFICES ASSUME x \notin exposed
                 PROVE  <<f, th.page>> \in Owners /\ th.done = k - 1
      OBVIOUS
    <3>1. <<f, th.page>> \in Owners /\ (AtCopy(th) \/ AtTail(th))
      BY <1>0 DEF Placed
    <3>2. ~ AtTail(th)
      BY <1>1, <2>0 DEF AtTail
    <3>3. PICK j \in 1..Length(f) :
            th.off \in {TrampOff(f, j), TrampOff(f, j) + 1} /\ th.done = j - 1
      BY <3>1, <3>2 DEF AtCopy
    <3>4. j = k
      BY <1>1, <2>0, <3>3
    <3> QED BY <3>1, <3>3, <3>4
  <2>2. CASE <<f, k>> \in Wide /\ th.off = TrampOff(f, k)
    <3> DEFINE w == [th EXCEPT !.off = th.off + 1]
    <3>1. Go(x, w)
      BY <1>5, <2>2
    <3>2. /\ w \in ThreadRec /\ w.fn = f /\ w.at = "tramp" /\ w.done = th.done
          /\ w.page = th.page /\ w.off = TrampOff(f, k) + 1
      BY <1>0, <2>2 DEF ThreadRec
    <3>3. x \notin exposed => Placed(x, w)
      <4>1. x \notin exposed => AtCopy(w)
        BY <2>0, <2>1, <3>2 DEF AtCopy
      <4> QED BY <1>5, <2>1, <3>2, <4>1 DEF Placed
    <3> QED BY <1>2, <3>1, <3>2, <3>3
  <2>3. CASE ~(<<f, k>> \in Wide /\ th.off = TrampOff(f, k))
    <3> DEFINE w == [th EXCEPT !.off = next(k), !.done = th.done + 1]
    <3>1. Go(x, w)
      BY <1>5, <2>3
    <3>2. next(k) \in Nat
      BY <1>1, <2>0
    <3>3. /\ w \in ThreadRec /\ w.fn = f /\ w.at = "tramp" /\ w.done = th.done + 1
          /\ w.page = th.page /\ w.off = next(k)
      <4>1. PICK m \in Nat : m = next(k)
        BY <3>2
      <4>2. w = [th EXCEPT !.off = m, !.done = th.done + 1] /\ th.done + 1 \in Nat
        BY <1>0, <4>1
      <4> HIDE DEF w, next
      <4> QED BY <1>0, <4>1, <4>2 DEF ThreadRec
    <3>4. x \notin exposed => Placed(x, w)
      <4> SUFFICES ASSUME x \notin exposed PROVE Placed(x, w)
        OBVIOUS
      <4>1. CASE k < Length(f)
        <5>1. /\ k + 1 \in 1..Length(f) /\ w.off = TrampOff(f, k + 1)
              /\ w.done = (k + 1) - 1
          BY <1>1, <2>0, <2>1, <3>3, <4>1
        <5>2. AtCopy(w)
          BY <3>3, <5>1 DEF AtCopy
        <5> QED BY <1>5, <2>1, <3>3, <5>2 DEF Placed
      <4>2. CASE ~(k < Length(f))
        <5>1. w.off = TailOff(f) /\ w.done = Length(f)
          BY <1>1, <2>0, <2>1, <3>3, <4>2
        <5>2. AtTail(w)
          BY <3>3, <5>1 DEF AtTail
        <5> QED BY <1>5, <2>1, <3>3, <5>2 DEF Placed
      <4> QED BY <4>1, <4>2
    <3> QED BY <1>2, <3>1, <3>3, <3>4
  <2> QED BY <2>2, <2>3
<1>6. \/ owner = {} \/ th.page \notin mapped \/ th.page = gone
      \/ owner # {} /\ th.page \in mapped /\ th.page # gone /\ at = {}
      \/ /\ owner # {} /\ th.page \in mapped /\ th.page # gone
         /\ \E k \in at :
             Go(x, IF <<f, k>> \in Wide /\ th.off = TrampOff(f, k)
                   THEN [th EXCEPT !.off = th.off + 1]
                   ELSE [th EXCEPT !.off = next(k), !.done = th.done + 1])
  BY Zenon DEF Trampoline
<1> QED BY <1>3, <1>4, <1>5, <1>6

(* The call of the original enters the trampoline of the hooked function.  *)
LEMMA CallOriginalStep ==
  ASSUME TInv, NEW x \in Threads, CallOriginal(x)
  PROVE  TInv'
<1> DEFINE th == thread[x]
           p == proto[th.fn]
           w == IF p = NULL THEN [th EXCEPT !.at = "fault"]
                ELSE [th EXCEPT !.at = "tramp", !.page = p, !.off = 0]
<1>0. /\ th \in ThreadRec /\ x \notin stopped /\ th.at = "new" /\ th.fn \in Targets
      /\ th.fn \in WithProto /\ Go(x, w) /\ exposed' = exposed
      /\ x \notin exposed => Placed(x, th)
      /\ proto \in [Targets -> Pages \cup {NULL}] /\ ProtoReachesTrampoline
  <2>1. /\ x \notin stopped /\ th.at = "new" /\ th.fn \in WithProto /\ Go(x, w)
        /\ exposed' = exposed
    BY DEF CallOriginal, Runs, Keep
  <2> QED BY <2>1, TInvFacts DEF ThreadsOK, Named, Core, StateOK
<1>1. w \in ThreadRec /\ w.fn = th.fn /\ w.done = th.done
  <2>1. [th EXCEPT !.at = "fault"] \in ThreadRec /\ [th EXCEPT !.at = "fault"].fn = th.fn
        /\ [th EXCEPT !.at = "fault"].done = th.done
    BY <1>0 DEF ThreadRec
  <2>2. CASE p = NULL
    BY <2>1, <2>2
  <2>3. CASE p # NULL
    <3>1. p \in Pages
      BY <1>0, <2>3
    <3> QED BY <1>0, <2>3, <3>1 DEF ThreadRec
  <2> QED BY <2>2, <2>3
<1>2. ASSUME x \notin exposed PROVE Placed(x, w)
  <2>1. PICK i \in Live : item[i].status = "HOOKED" /\ item[i].target = th.fn
    BY <1>0, <1>2 DEF Placed, Hooked
  <2>2. p = item[i].tramp /\ p \in Pages
    BY <1>0, <2>1, TInvFacts DEF ProtoReachesTrampoline
  <2>3. <<th.fn, p>> \in Owners /\ p # NULL
    BY <2>1, <2>2, TInvFacts DEF Owners
  <2>6. p # gone
    <3> SUFFICES ASSUME gone = p PROVE FALSE
      OBVIOUS
    <3>1. PICK j \in Live : item[j].target = torn /\ item[j].tramp = p
      BY <2>3, TInvFacts DEF FreezerOK, GoneOK
    <3>2. j = i
      BY <2>2, <3>1, TInvFacts
    <3> QED BY <1>0, <1>2, <2>1, <2>3, <3>1, <3>2 DEF Placed
  <2>4. w.at = "tramp" /\ w.page = p /\ w.off = 0 /\ w.done = 0
    BY <1>0, <1>1, <1>2, <2>3 DEF Placed, ThreadRec
  <2>5. AtCopy(w)
    <3>1. /\ 1 \in 1..Length(th.fn) /\ TrampOff(th.fn, 1) = 0
      BY <1>0, CopyOffsets
    <3> HIDE DEF w
    <3> QED BY <1>1, <2>4, <3>1 DEF AtCopy
  <2> HIDE DEF w
  <2> QED BY <1>1, <2>3, <2>4, <2>5, <2>6 DEF Placed
<1>3. Named(w)
  BY <1>0, <1>1 DEF Named
<1> HIDE DEF w
<1> QED BY <1>0, <1>1, <1>2, <1>3, ThreadMove

LEMMA ThreadStepKeeps ==
  ASSUME TInv, NEW x \in Threads, ThreadStep(x)
  PROVE  TInv'
<1>1. CASE Spawn(x)
  BY <1>1, OutsideIsSafe, ThreadMove DEF Spawn, Keep
<1>2. ASSUME NEW t \in Targets, Call(x, t)
      PROVE  TInv'
  <2> DEFINE w == [Outside EXCEPT !.at = "fn", !.fn = t, !.k = 1]
  <2>0. Go(x, w) /\ exposed' = exposed /\ x \notin stopped
    BY <1>2 DEF Call, Keep, Runs
  <2>1. /\ w \in ThreadRec /\ w.at = "fn" /\ w.fn = t /\ w.k = 1 /\ w.done = 0
    BY DEF Outside, ThreadRec
  <2> HIDE DEF w
  <2>2. Named(w)
    BY <2>1 DEF Named
  <2>3. 1 \in 1..Length(t)
    BY CopyOffsets
  <2>4. Placed(x, w)
    BY <2>1, <2>3 DEF Placed
  <2> QED BY <2>0, <2>1, <2>2, <2>4, ThreadMove
<1>3. CASE Return(x)
  <2>1. Go(x, Outside) /\ exposed' = exposed \ {x}
    BY <1>3 DEF Return
  <2> QED BY <2>1, OutsideIsSafe, ThreadMove
<1> QED
  BY <1>1, <1>2, <1>3, FetchStep, TrampolineStep, CallOriginalStep DEF ThreadStep

-----------------------------------------------------------------------------
(* The moves of freeze.                                                    *)
LEMMA OneFound ==
  ASSUME TInv, NEW t, NEW i \in Find(t)
  PROVE  /\ Find(t) = {i} /\ i \in Live /\ item[i].target = t
         /\ (CHOOSE j \in Find(t) : TRUE) = i
         /\ (CHOOSE j \in Find(t) : \A m \in Find(t) : j <= m) = i
<1>1. i \in Live /\ item[i].target = t
  BY DEF Find
<1>2. \A j \in Find(t) : j = i
  BY <1>1, TInvFacts DEF Find
<1>3. Find(t) = {i}
  BY <1>2
<1>4. i \in Nat /\ i <= i
  BY <1>1, TInvFacts DEF Live
<1>5. (CHOOSE j \in Find(t) : TRUE) = i
  BY <1>3
<1>6. (CHOOSE j \in Find(t) : \A m \in Find(t) : j <= m) = i
  BY <1>3, <1>4
<1> QED BY <1>1, <1>3, <1>5, <1>6

(* A thread at an instruction of a function with an item goes to the copy  *)
(* of that instruction, unless its table was overwritten.                  *)
LEMMA EnabledMoves ==
  ASSUME TInv, gone = NULL, NEW x, NEW th \in ThreadRec, Named(th)
  PROVE  /\ Enabled(th) \in ThreadRec /\ Named(Enabled(th))
         /\ Placed(x, th) /\ ~Unclean(th) /\ freezer.for = NULL
              => Placed(x, Enabled(th)) /\ Cleared(Enabled(th))
<1> DEFINE w == Enabled(th)
           first == CHOOSE j \in Find(th.fn) : \A m \in Find(th.fn) : j <= m
           off == Entry(item[first], 0, OrigLen, OrigOff(th.fn, th.k))
<1>1. CASE th.at # "fn" \/ Find(th.fn) = {}
  <2>1. w = th
    BY <1>1 DEF Enabled
  <2>2. th.at = "fn" => th.fn \notin Names
    BY <1>1 DEF Find, Names
  <2>3. freezer.for = NULL => Cleared(th)
    BY <2>2 DEF Cleared, Removing
  <2> QED BY <2>1, <2>3
<1>2. ASSUME th.at = "fn", NEW i \in Find(th.fn)
      PROVE  /\ w \in ThreadRec /\ Named(w)
             /\ Placed(x, th) /\ ~Unclean(th) /\ freezer.for = NULL
                  => Placed(x, w) /\ Cleared(w)
  <2>1. /\ i \in Live /\ item[i].target = th.fn /\ th.fn \in Targets
        /\ item[i] \in Item /\ item[i].tramp \in Pages
        /\ item[i].ints[CountAt] <= CountBound /\ OrigLen \in {0, OrigLen}
        /\ CleanCount(item[i]) => Exact(item[i])
    BY <1>2, OneFound, TInvFacts DEF Named, Tables
  <2> DEFINE e == Entry(item[i], 0, OrigLen, OrigOff(th.fn, th.k))
             moved == [th EXCEPT !.at = "tramp", !.k = 0, !.page = item[i].tramp, !.off = e]
  <2>2. first = i
    BY <1>2, OneFound
  <2>3. e \in Nat \cup {-1}
    BY <2>1, EntryType
  <2>4. w = IF e = -1 THEN th ELSE moved
    <3>1. Find(th.fn) # {}
      BY <1>2
    <3> DEFINE found == IF th.at = "fn" /\ Find(th.fn) # {} THEN off ELSE -1
    <3>2. w = IF found = -1 THEN th
              ELSE [th EXCEPT !.at = "tramp", !.k = 0, !.page = item[first].tramp, !.off = found]
      BY DEF Enabled
    <3> HIDE DEF w, first
    <3>3. found = e
      BY <1>2, <2>2, <3>1
    <3> HIDE DEF found, e
    <3> QED BY <2>2, <3>2, <3>3
  <2> HIDE DEF e, w, off
  <2>5. e # -1 => /\ moved \in ThreadRec /\ moved.at = "tramp" /\ moved.fn = th.fn
                  /\ moved.page = item[i].tramp /\ moved.off = e /\ moved.done = th.done
    BY <2>1, <2>3 DEF ThreadRec
  <2>6. w \in ThreadRec /\ Named(w)
    BY <2>1, <2>4, <2>5 DEF Named
  <2>7. ASSUME Placed(x, th), ~Unclean(th), freezer.for = NULL
        PROVE  Placed(x, w) /\ Cleared(w)
    <3>1. th.k \in 1..Length(th.fn) /\ th.done = th.k - 1
      BY <1>2, <2>7 DEF Placed
    <3>2. CleanCount(item[i])
      BY <2>1, <2>7 DEF Unclean
    <3>3. e = TrampOff(th.fn, th.k)
      BY <2>1, <3>1, <3>2, EntryOfExact DEF e, OrigOff, TrampOff, Length
    <3>4. e # -1
      BY <2>1, <3>1, <3>3, CopyOffsets
    <3>5. w = moved
      BY <2>4, <3>4
    <3> HIDE DEF moved
    <3>6. AtCopy(w)
      BY <2>5, <3>1, <3>3, <3>4, <3>5 DEF AtCopy
    <3>7. <<w.fn, w.page>> \in Owners
      BY <2>1, <2>5, <3>4, <3>5 DEF Owners
    <3>8. w.page # gone
      BY <2>1, <2>5, <3>4, <3>5, TInvFacts
    <3> QED BY <2>5, <2>7, <3>4, <3>5, <3>6, <3>7, <3>8 DEF Placed, Cleared, Removing
  <2> QED BY <2>6, <2>7
<1> QED BY <1>1, <1>2

(* A thread at the copy of an instruction of t goes back to t, in front of *)
(* that instruction; off the boundaries it stays.                          *)
LEMMA DisabledMoves ==
  ASSUME TInv, Removing, NEW x, NEW th \in ThreadRec, Named(th),
         NEW t, t = freezer.for
  PROVE  /\ Disabled(th, t) \in ThreadRec /\ Named(Disabled(th, t))
         /\ Placed(x, th) /\ ~Unclean(th) =>
              LET w == Disabled(th, t) IN
              /\ Cleared(w)
              /\ \/ Placed(x, w)
                 \/ w.at = "fn" /\ w.fn = t /\ w.k \in 1..Length(t) /\ w.done = w.k - 1
<1> DEFINE w == Disabled(th, t)
<1>1. t \in Names /\ t # NULL
  BY TInvFacts DEF FreezerOK, Removing, Hooked, Names
<1>2. PICK i \in Find(t) : TRUE
  BY <1>1 DEF Names, Find
<1>3. /\ i \in Live /\ item[i].target = t /\ t \in Targets
      /\ item[i] \in Item /\ item[i].tramp \in Pages
      /\ item[i].ints[CountAt] <= CountBound /\ 0 \in {0, OrigLen}
      /\ CleanCount(item[i]) => Exact(item[i])
      /\ (CHOOSE j \in Find(t) : TRUE) = i
  BY <1>2, OneFound, TInvFacts DEF Tables
<1> DEFINE e == Entry(item[i], OrigLen, 0, th.off)
           off == IF th.at = "tramp" /\ th.page = item[i].tramp THEN e ELSE -1
           at == {k \in 1..Length(t) : OrigOff(t, k) = off}
           back(k) == [th EXCEPT !.at = "fn", !.fn = t, !.page = NULL, !.off = 0, !.k = k]
<1>4. w = IF off = -1 THEN th
          ELSE IF at = {} THEN [th EXCEPT !.at = "fault"]
          ELSE back(CHOOSE k \in at : TRUE)
  BY <1>3 DEF Disabled
<1> HIDE DEF w
<1>5. Length(t) \in Nat /\ \A k \in 1..Length(t) : OrigOff(t, k) \in Nat /\ TrampOff(t, k) \in Nat
  BY <1>3, CopyOffsets
<1>6. \A k \in 1..Length(t) :
        /\ back(k) \in ThreadRec /\ back(k).at = "fn" /\ back(k).fn = t
        /\ back(k).k = k /\ back(k).done = th.done
  <2> SUFFICES ASSUME NEW k \in 1..Length(t)
               PROVE  /\ back(k) \in ThreadRec /\ back(k).at = "fn" /\ back(k).fn = t
                      /\ back(k).k = k /\ back(k).done = th.done
    OBVIOUS
  <2>1. k \in Nat
    BY <1>5
  <2> QED BY <1>3, <2>1 DEF ThreadRec
<1>7. [th EXCEPT !.at = "fault"] \in ThreadRec /\ [th EXCEPT !.at = "fault"].at = "fault"
  BY DEF ThreadRec
<1>8. at # {} => (CHOOSE k \in at : TRUE) \in 1..Length(t)
  OBVIOUS
<1>9. w \in ThreadRec /\ Named(w)
  <2>1. CASE off = -1
    BY <1>4, <2>1
  <2>2. CASE off # -1 /\ at = {}
    BY <1>4, <1>7, <2>2 DEF Named
  <2>3. CASE off # -1 /\ at # {}
    <3>1. PICK k \in 1..Length(t) : w = back(k)
      BY <1>4, <1>8, <2>3
    <3> HIDE DEF back
    <3> QED BY <1>3, <1>6, <3>1 DEF Named
  <2> QED BY <2>1, <2>2, <2>3
<1>10. ASSUME Placed(x, th), ~Unclean(th)
       PROVE  /\ Cleared(w)
              /\ \/ Placed(x, w)
                 \/ w.at = "fn" /\ w.fn = t /\ w.k \in 1..Length(t) /\ w.done = w.k - 1
  <2>0. ASSUME <<t, th.page>> \in Owners
        PROVE  th.page = item[i].tramp
    BY <1>3, <2>0, TInvFacts DEF Owners
  <2>1. CASE ~(th.at = "tramp" /\ th.page = item[i].tramp)
    <3>1. w = th
      BY <1>4, <2>1
    <3>2. Cleared(th)
      BY <1>1, <2>0, <2>1 DEF Cleared
    <3> QED BY <1>10, <3>1, <3>2
  <2>2. CASE th.at = "tramp" /\ th.page = item[i].tramp
    <3>1. /\ off = e /\ th.fn = t
      BY <1>3, <1>10, <2>2, TInvFacts DEF Placed, Owners
    <3>2. CleanCount(item[i]) /\ Exact(item[i])
      BY <1>3, <1>10, <3>1 DEF Unclean
    <3>3. ASSUME NEW k \in 1..Length(t), th.off = TrampOff(t, k)
          PROVE  /\ Cleared(w) /\ w.at = "fn" /\ w.fn = t /\ w.k \in 1..Length(t)
                 /\ w.done = w.k - 1
      <4>1. e = OrigOff(t, k)
        BY <1>3, <3>2, <3>3, EntryOfExact DEF OrigOff, TrampOff, Length
      <4>2. at = {k} /\ off # -1
        <5>1. \A j \in 1..Length(t) : OrigOff(t, j) = OrigOff(t, k) => j = k
          BY <1>3, CopyOffsets
        <5> HIDE DEF e
        <5> QED BY <1>5, <3>1, <3>3, <4>1, <5>1
      <4>3. w = back(k)
        <5>1. (CHOOSE j \in at : TRUE) = k
          BY <4>2
        <5> HIDE DEF at, off, back
        <5> QED BY <1>4, <4>2, <5>1
      <4>4. th.done = k - 1
        <5>1. AtCopy(th) \/ AtTail(th)
          BY <1>10, <2>2 DEF Placed
        <5>2. ~ AtTail(th)
          BY <1>3, <1>5, <3>1, <3>3, CopyOffsets DEF AtTail
        <5>3. PICK j \in 1..Length(t) :
                th.off \in {TrampOff(t, j), TrampOff(t, j) + 1} /\ th.done = j - 1
          BY <3>1, <5>1, <5>2 DEF AtCopy
        <5>4. j = k
          BY <1>3, <1>5, <3>3, <5>3, CopyOffsets
        <5> QED BY <5>3, <5>4
      <4> HIDE DEF back
      <4>5. w.at = "fn" /\ w.fn = t /\ w.k = k /\ w.done = k - 1
        BY <1>6, <4>3, <4>4
      <4>6. Cleared(w)
        BY <1>1, <4>5 DEF Cleared
      <4> QED BY <4>5, <4>6
    <3>4. ASSUME \A k \in 1..Length(t) : th.off # TrampOff(t, k)
          PROVE  Cleared(w) /\ Placed(x, w)
      <4>1. e = -1
        BY <1>3, <3>2, <3>4, EntryOfExact DEF TrampOff, Length
      <4>2. w = th
        BY <1>4, <3>1, <4>1
      <4> QED BY <1>1, <1>10, <3>4, <4>2 DEF Cleared
    <3> QED BY <3>3, <3>4
  <2> QED BY <2>1, <2>2
<1> QED BY <1>9, <1>10 DEF w

LEMMA AttachStep ==
  ASSUME TInv, NEW x \in Threads, Attach(x)
  PROVE  TInv'
<1> DEFINE th == thread[x]
           w == Moved(th)
<1>1. /\ freezer.phase = "attach" /\ x \in tids
      /\ tids' = tids \ {x} /\ stopped' = stopped \cup {x}
      /\ thread' = [thread EXCEPT ![x] = w]
      /\ exposed' = IF Unclean(th) THEN exposed \cup {x} ELSE exposed
      /\ UNCHANGED <<item, size, code, stale, mapped, proto, call, crashed>>
      /\ torn' = torn /\ gone' = gone /\ freezer' = freezer /\ UNCHANGED vars
  BY DEF Attach, Expose, Freezing, vars
<1>2. IInv' /\ Tables'
  BY <1>1, TInvFacts, NextInvariant, TablesStep
<1>3. Owners' = Owners /\ Hooked' = Hooked /\ Names' = Names /\ Removing' = Removing
  BY <1>1 DEF Owners, Hooked, Names, Removing, Live
<1>4. /\ th \in ThreadRec /\ Named(th) /\ (x \notin exposed => Placed(x, th))
      /\ torn = NULL /\ gone = NULL /\ Removing = (freezer.for # NULL)
  BY <1>1, TInvFacts DEF ThreadsOK, FreezerOK, GoneOK, Removing
<1>5. /\ w \in ThreadRec /\ Named(w)
      /\ x \notin exposed' =>
           /\ Cleared(w)
           /\ \/ Placed(x, w)
              \/ /\ Removing /\ w.at = "fn" /\ w.fn = freezer.for
                 /\ w.k \in 1..Length(w.fn) /\ w.done = w.k - 1
  <2>1. CASE freezer.for = NULL
    <3>1. w = Enabled(th)
      BY <2>1 DEF Moved
    <3> HIDE DEF w, th
    <3> QED BY <1>1, <1>4, <2>1, <3>1, EnabledMoves
  <2>2. CASE freezer.for # NULL
    <3>1. w = Disabled(th, freezer.for) /\ Removing
      BY <1>4, <2>2 DEF Moved
    <3> HIDE DEF w, th
    <3> QED BY <1>1, <1>4, <3>1, DisabledMoves
  <2> QED BY <2>1, <2>2
<1> HIDE DEF w
<1>6. /\ thread' \in [Threads -> ThreadRec] /\ thread'[x] = w
      /\ \A y \in Threads : y # x => thread'[y] = thread[y]
  BY <1>1, <1>5, TInvFacts
<1>7. ThreadsTypeOK'
  BY <1>1, <1>6, TInvFacts DEF ThreadsTypeOK, ThreadRec
<1>8. FreezerOK'
  BY <1>1, <1>3, <1>4, TInvFacts DEF FreezerOK, GoneOK
<1>9. ThreadsOK'
  <2>0. ThreadsOK /\ stopped \subseteq Threads /\ exposed \subseteq exposed'
    BY <1>1, TInvFacts DEF ThreadsTypeOK
  <2>1. \A y \in Threads : Named(thread'[y])
    BY <1>5, <1>6, <2>0 DEF ThreadsOK
  <2>2. ASSUME NEW y \in Threads \ exposed'
        PROVE  Placed(y, thread[y])'
    <3>1. CASE y = x
      BY <1>1, <1>3, <1>5, <1>6, <2>2, <3>1 DEF Placed
    <3>2. CASE y # x
      <4>1. thread'[y] = thread[y] /\ Placed(y, thread[y])
        BY <1>6, <2>0, <2>2, <3>2 DEF ThreadsOK
      <4> QED BY <1>1, <1>3, <4>1 DEF Placed
    <3> QED BY <3>1, <3>2
  <2>3. ASSUME NEW y \in stopped' \ exposed'
        PROVE  Cleared(thread[y])'
    <3>1. CASE y = x
      <4>1. Cleared(w) /\ thread'[y] = w
        BY <1>5, <1>6, <2>3, <3>1
      <4> QED BY <1>1, <1>3, <4>1 DEF Cleared
    <3>2. CASE y # x
      <4>1. thread'[y] = thread[y] /\ Cleared(thread[y])
        BY <1>1, <1>6, <2>0, <2>3, <3>2 DEF ThreadsOK
      <4> QED BY <1>1, <1>3, <4>1 DEF Cleared
    <3> QED BY <3>1, <3>2
  <2> QED BY <2>1, <2>2, <2>3 DEF ThreadsOK
<1> QED BY <1>2, <1>7, <1>8, <1>9 DEF TInv

(* Steps of the freeze that move no thread and leave the table alone: the  *)
(* list, its end, the failed attach and the release.                       *)
LEMMA FreezeSteps ==
  ASSUME TInv,
         \/ \E t \in Targets : FreezeFor(t)
         \/ FreezeAll \/ Frozen \/ UnFreeze \/ Tear
         \/ \E x \in Threads : AttachFails(x)
  PROVE  TInv'
<1>1. /\ UNCHANGED <<item, size, code, stale, mapped, proto, call, crashed>>
      /\ UNCHANGED vars /\ thread' = thread /\ gone' = gone /\ exposed' = exposed
  BY DEF FreezeFor, FreezeAll, Freeze, Frozen, UnFreeze, Tear, AttachFails,
         NoThreadMoves, vars
<1>2. IInv' /\ Tables'
  BY <1>1, TInvFacts, NextInvariant, TablesStep
<1>3. Owners' = Owners /\ Hooked' = Hooked /\ Names' = Names /\ Live' = Live
  BY <1>1 DEF Owners, Hooked, Names, Live
<1>4. /\ thread \in [Threads -> ThreadRec] /\ torn \in Targets \cup {NULL}
      /\ gone \in Pages \cup {NULL}
      /\ freezer \in [phase : {"none", "attach", "frozen", "done"}, for : Targets \cup {NULL}]
      /\ tids \subseteq Threads /\ stopped \subseteq Threads /\ exposed \subseteq Threads
      /\ ThreadsOK /\ FreezerOK /\ Alive \subseteq Threads
      /\ torn = NULL => gone = NULL
  BY TInvFacts DEF ThreadsTypeOK, Alive, FreezerOK, GoneOK
<1>5. ASSUME torn' \in Targets \cup {NULL}, tids' \subseteq Threads, stopped' \subseteq stopped,
             freezer' \in [phase : {"none", "attach", "frozen", "done"},
                           for : Targets \cup {NULL}],
             Removing => Removing' /\ freezer'.for = freezer.for,
             stopped' # {} => freezer'.for = freezer.for /\ (Removing' => Removing),
             Removing => stopped' = stopped,
             gone = NULL \/ torn' = torn,
             FreezerOK'
      PROVE  TInv'
  <2>1. ThreadsTypeOK'
    BY <1>1, <1>4, <1>5 DEF ThreadsTypeOK, ThreadRec
  <2>2. ThreadsOK'
    <3>1. ASSUME NEW y \in Threads \ exposed
          PROVE  Placed(y, thread[y])'
      <4>1. Placed(y, thread[y])
        BY <1>4, <3>1 DEF ThreadsOK
      <4> QED BY <1>1, <1>3, <1>5, <4>1 DEF Placed
    <3>2. ASSUME NEW y \in stopped' \ exposed
          PROVE  Cleared(thread[y])'
      <4>1. Cleared(thread[y]) /\ stopped' # {}
        BY <1>4, <1>5, <3>2 DEF ThreadsOK
      <4> QED BY <1>1, <1>3, <1>5, <4>1 DEF Cleared
    <3> QED BY <1>1, <1>4, <3>1, <3>2 DEF ThreadsOK
  <2> QED BY <1>2, <1>5, <2>1, <2>2 DEF TInv
<1>6. ASSUME NEW t \in Targets \cup {NULL}, Freeze(t), t # NULL => t \in Hooked
      PROVE  TInv'
  <2>1. /\ freezer.phase = "none" /\ torn = NULL /\ torn' = torn /\ gone = NULL
        /\ freezer' = [phase |-> "attach", for |-> t] /\ tids' = Alive /\ stopped' = stopped
        /\ call = Idle
    BY <1>4, <1>6 DEF Freeze, Calm, Ready
  <2>2. stopped = {} /\ ~Removing
    BY <1>4, <2>1 DEF FreezerOK, Removing
  <2>3. FreezerOK'
    BY <1>1, <1>3, <1>6, <2>1 DEF FreezerOK, Removing, GoneOK
  <2> QED BY <1>4, <1>5, <2>1, <2>2, <2>3
<1>7. CASE Frozen
  <2>1. /\ freezer.phase = "attach" /\ freezer' = [freezer EXCEPT !.phase = "frozen"]
        /\ torn' = torn /\ tids' = tids /\ stopped' = stopped
    BY <1>7 DEF Frozen, Freezing
  <2>2. freezer'.for = freezer.for /\ freezer'.phase = "frozen" /\ torn = NULL
        /\ freezer' \in [phase : {"none", "attach", "frozen", "done"}, for : Targets \cup {NULL}]
    BY <1>4, <2>1 DEF FreezerOK
  <2>3. Removing' = Removing
    BY <2>1, <2>2 DEF Removing
  <2>4. FreezerOK'
    BY <1>1, <1>3, <1>4, <2>1, <2>2, <2>3 DEF FreezerOK, GoneOK
  <2> QED BY <1>4, <1>5, <2>1, <2>2, <2>3, <2>4
<1>8. CASE UnFreeze
  <2>1. /\ freezer.phase = "done" /\ freezer' = [phase |-> "none", for |-> NULL]
        /\ torn' = torn /\ tids' = tids /\ stopped' = {}
    BY <1>8 DEF UnFreeze, Freezing
  <2>2. torn = NULL /\ ~Removing /\ ~Removing'
    BY <1>4, <2>1 DEF FreezerOK, Removing
  <2>3. FreezerOK'
    BY <1>1, <1>4, <2>1, <2>2 DEF FreezerOK, GoneOK
  <2> QED BY <1>4, <1>5, <2>1, <2>2, <2>3
<1>9. CASE Tear
  <2>1. PICK i \in Live : Due(i) /\ torn' = item[i].target
    BY <1>9 DEF Tear
  <2>2. /\ torn = NULL /\ gone = NULL /\ freezer' = freezer /\ tids' = tids
        /\ stopped' = stopped /\ freezer.phase \in {"none", "frozen"}
    BY <1>4, <1>9, <2>1 DEF Tear, NoThreadMoves, Due, Freezing
  <2>3. torn' \in Targets
    BY <2>1, TInvFacts
  <2>4. call.op # "none" => i = call.cur \/ Removing
    BY <2>1 DEF Due, AllVisit, Idle, Removing, Freezing
  <2>5. Removing => torn' = freezer.for
    BY <2>1 DEF Due, Removing, Freezing, Find
  <2>6. Removing' = Removing
    BY <2>2 DEF Removing
  <2>7. freezer.phase = "frozen" /\ ~Removing => torn' \notin Hooked
    <3> SUFFICES ASSUME freezer.phase = "frozen", ~Removing PROVE torn' \notin Hooked
      OBVIOUS
    <3>1. i \in Live /\ item[i].status = "REGISTERED" /\ torn' = item[i].target
      BY <2>1 DEF Due, AllVisit, Removing, Freezing
    <3>2. \A j \in Live : item[j].target = torn' => j = i
      BY <3>1, TInvFacts
    <3> QED BY <3>1, <3>2 DEF Hooked
  <2>8. FreezerOK'
    BY <1>1, <1>3, <1>4, <2>1, <2>2, <2>3, <2>4, <2>5, <2>6, <2>7 DEF FreezerOK, GoneOK, Idle
  <2> QED BY <1>4, <1>5, <2>2, <2>3, <2>6, <2>8
<1>10. ASSUME NEW x \in Threads, AttachFails(x)
       PROVE  TInv'
  <2>1. /\ freezer.phase = "attach" /\ tids' = tids \ {x}
        /\ torn' = torn /\ freezer' = freezer /\ stopped' = stopped
    BY <1>10 DEF AttachFails, Freezing
  <2>2. Removing' = Removing
    BY <2>1 DEF Removing
  <2>3. FreezerOK'
    BY <1>1, <1>3, <1>4, <2>1, <2>2 DEF FreezerOK, GoneOK
  <2> QED BY <1>4, <1>5, <2>1, <2>2, <2>3
<1>11. \A t \in Targets : FreezeFor(t) => Freeze(t) /\ t \in Hooked
  BY DEF FreezeFor, Find, Hooked
<1>12. FreezeAll => Freeze(NULL)
  BY DEF FreezeAll
<1> QED BY <1>6, <1>7, <1>8, <1>9, <1>10, <1>11, <1>12

(* A helper that dies early leaves behind a thread it has moved into a     *)
(* function that is still patched: that one is exposed.                    *)
LEMMA HelperDiesStep ==
  ASSUME TInv, HelperDies
  PROVE  TInv'
<1>1. /\ UNCHANGED <<item, size, code, stale, mapped, proto, call, crashed>>
      /\ UNCHANGED vars /\ thread' = thread /\ torn' = torn /\ gone' = gone
      /\ exposed' = exposed \cup {x \in stopped : Astray(thread[x])}
      /\ freezer.phase \in {"attach", "frozen"}
      /\ freezer' = [freezer EXCEPT !.phase = "frozen"] /\ tids' = {} /\ stopped' = {}
  BY DEF HelperDies, vars
<1>2. IInv' /\ Tables'
  BY <1>1, TInvFacts, NextInvariant, TablesStep
<1>3. Owners' = Owners /\ Hooked' = Hooked /\ Live' = Live
  BY <1>1 DEF Owners, Hooked, Live
<1>4. /\ stopped \subseteq Threads /\ ThreadsOK /\ FreezerOK
      /\ thread \in [Threads -> ThreadRec] /\ code \in [Targets -> {"orig", "jump"}]
      /\ freezer \in [phase : {"none", "attach", "frozen", "done"}, for : Targets \cup {NULL}]
      /\ \A t \in Targets : Length(t) \in Nat
  BY TInvFacts, CopyOffsets DEF ThreadsTypeOK, Core, StateOK
<1>5. freezer'.for = freezer.for /\ freezer'.phase = "frozen" /\ Removing' = Removing
      /\ freezer' \in [phase : {"none", "attach", "frozen", "done"}, for : Targets \cup {NULL}]
  BY <1>1, <1>4 DEF Removing
<1>6. ThreadsTypeOK'
  BY <1>1, <1>4, <1>5, TInvFacts DEF ThreadsTypeOK
<1>7. FreezerOK'
  BY <1>1, <1>3, <1>4, <1>5 DEF FreezerOK, GoneOK
<1>8. ASSUME NEW y \in Threads \ exposed'
      PROVE  Placed(y, thread[y])'
  <2> DEFINE th == thread[y]
  <2>1. Placed(y, th) /\ Named(th) /\ th \in ThreadRec /\ ~(y \in stopped /\ Astray(th))
    BY <1>1, <1>4, <1>8 DEF ThreadsOK
  <2>2. th.at = "fn" => th.k = 1 \/ code[th.fn] = "orig"
    <3> SUFFICES ASSUME th.at = "fn", th.k # 1, code[th.fn] # "orig"
                 PROVE  FALSE
      OBVIOUS
    <3>1. y \in stopped /\ th.k \in 1..Length(th.fn) /\ th.fn \in Targets
      BY <2>1 DEF Placed, Named
    <3>2. th.k > 1 /\ code[th.fn] = "jump"
      BY <1>4, <3>1
    <3> QED BY <2>1, <3>1, <3>2 DEF Astray
  <2>3. thread'[y] = th
    BY <1>1
  <2> HIDE DEF th
  <2> QED BY <1>1, <1>3, <2>1, <2>2, <2>3 DEF Placed
<1>9. ThreadsOK'
  BY <1>1, <1>4, <1>8 DEF ThreadsOK, Named
<1> QED BY <1>2, <1>6, <1>7, <1>9 DEF TInv

-----------------------------------------------------------------------------
(* Registry steps among threads.  No thread moves; what has to hold is     *)
(* that those the step does not expose are still placed.                   *)

LEMMA AddItemOwners ==
  ASSUME TInv, NEW t \in Targets, AddItem(t)
  PROVE  Owners \subseteq Owners' /\ Hooked' = Hooked /\ code' = code
<1>1. Hooked' = Hooked /\ code' = code /\ size' = size + 1
  BY TInvFacts, AddItemKeepsCore DEF AddItem
<1>2. /\ item \in [1..Cap -> Item] /\ size \in Nat /\ \A i \in Live : i \in 1..Cap
  BY TInvFacts DEF Core, StateOK
<1>3. \A i \in Live : i \in Live' /\ item'[i] = item[i]
  <2> SUFFICES ASSUME NEW i \in Live PROVE i \in Live' /\ item'[i] = item[i]
    OBVIOUS
  <2>1. i \in 1..Cap /\ i # size + 1 /\ i \in 1..(size + 1)
    BY <1>2 DEF Live
  <2> QED BY <1>1, <1>2, <2>1 DEF AddItem, Live
<1> QED BY <1>1, <1>3 DEF Owners

LEMMA HookItemOwners ==
  ASSUME TInv, NEW i \in Live, item[i].status = "REGISTERED", HookItem(i)
  PROVE  /\ Owners' = Owners /\ Names' = Names /\ Hooked \subseteq Hooked'
         /\ \A t \in Targets : t # item[i].target => code'[t] = code[t]
<1>1. Names' = Names /\ Hooked \subseteq Hooked'
  BY TInvFacts, HookItemKeepsCore
<1>2. \A t \in Targets : t # item[i].target => code'[t] = code[t]
  BY TInvFacts DEF HookItem, Core, StateOK
<1>3. item \in [1..Cap -> Item] /\ i \in 1..Cap /\ item' = [item EXCEPT ![i].status = "HOOKED"]
  BY TInvFacts DEF HookItem, Core, StateOK
<1>4. \A j \in 1..Cap : item'[j].target = item[j].target /\ item'[j].tramp = item[j].tramp
  BY <1>3 DEF Item
<1>5. Live' = Live /\ \A j \in Live : j \in 1..Cap
  BY TInvFacts DEF HookItem, Live
<1> QED BY <1>1, <1>2, <1>4, <1>5 DEF Owners

LEMMA UnHookItemOwners ==
  ASSUME TInv, NEW i \in Live, item[i].status = "HOOKED", UnHookItem(i)
  PROVE  /\ \A u, p : <<u, p>> \in Owners /\ p # item[i].tramp => <<u, p>> \in Owners'
         /\ Hooked' = Hooked \ {item[i].target}
         /\ code'[item[i].target] = "orig"
         /\ \A t \in Targets : t # item[i].target => code'[t] = code[t]
<1>1. Hooked' = Hooked \ {item[i].target}
  BY TInvFacts, UnHookItemKeepsCore
<1>2. /\ code'[item[i].target] = "orig"
      /\ \A t \in Targets : t # item[i].target => code'[t] = code[t]
  BY TInvFacts DEF UnHookItem, Core, StateOK, CodeMatchesRegistry
<1>3. /\ item \in [1..Cap -> Item] /\ size \in Nat /\ size \in Live /\ i \in 1..Cap
      /\ item' = [item EXCEPT ![i] = item[size]] /\ size' = size - 1
  BY TInvFacts DEF UnHookItem, Core, StateOK, Live
<1>4. ASSUME NEW u, NEW p, <<u, p>> \in Owners, p # item[i].tramp
      PROVE  <<u, p>> \in Owners'
  <2>1. PICK j \in Live : u = item[j].target /\ p = item[j].tramp
    BY <1>4 DEF Owners
  <2>2. j # i /\ j \in 1..Cap
    BY <1>4, <2>1, TInvFacts
  <2>3. CASE j = size
    <3>1. i \in Live' /\ item'[i] = item[j]
      BY <1>3, <2>2, <2>3 DEF Live
    <3> QED BY <2>1, <3>1 DEF Owners
  <2>4. CASE j # size
    <3>1. j \in Live' /\ item'[j] = item[j]
      BY <1>3, <2>2, <2>4 DEF Live
    <3> QED BY <2>1, <3>1 DEF Owners
  <2> QED BY <2>3, <2>4
<1> QED BY <1>1, <1>2, <1>4

(* A patch catches whoever runs between two of the patched instructions;   *)
(* threads a freeze holds have been moved out of the functions with items. *)
LEMMA PatchPlaces ==
  ASSUME TInv, NEW i \in Live, item[i].status = "REGISTERED", HookItem(i),
         exposed' = exposed \cup CaughtByPatch(item[i].target),
         UNCHANGED <<thread, stopped, freezer>>, gone = NULL, gone' = NULL,
         stopped = {} \/ freezer.for = NULL,
         NEW x \in Threads \ exposed'
  PROVE  Placed(x, thread[x])'
<1> DEFINE th == thread[x]
           t == item[i].target
<1>1. th \in ThreadRec /\ Named(th) /\ Placed(x, th) /\ x \notin exposed /\ t \in Targets
      /\ t \in Names /\ x \notin CaughtByPatch(t) /\ x \in Threads
  BY TInvFacts DEF ThreadsOK, Names
<1>2. Owners' = Owners /\ Hooked \subseteq Hooked'
      /\ \A u \in Targets : u # t => code'[u] = code[u]
  BY HookItemOwners
<1>3. th.at = "fn" => th.k = 1 \/ code'[th.fn] = "orig"
  <2> SUFFICES ASSUME th.at = "fn", th.k # 1
               PROVE  code'[th.fn] = "orig"
    OBVIOUS
  <2>1. th.k > 1 /\ th.fn \in Targets
    <3>1. th.k \in 1..Length(th.fn) /\ th.fn \in Targets
      BY <1>1 DEF Placed, Named
    <3>2. th.k \in Nat
      BY <1>1 DEF ThreadRec
    <3>3. Length(th.fn) \in Nat
      BY <3>1, CopyOffsets
    <3> QED BY <3>1, <3>2, <3>3
  <2>2. x \in Alive
    BY <1>1 DEF Alive
  <2>3. CASE x \in stopped
    <3>1. th.fn \notin Names /\ freezer.for = NULL
      BY <1>1, <2>3, TInvFacts DEF ThreadsOK, Cleared
    <3> QED BY <1>1, <1>2, <2>1, <3>1 DEF Placed, Removing
  <2>4. CASE x \notin stopped
    <3>1. th.fn # t
      BY <1>1, <2>1, <2>2, <2>4 DEF CaughtByPatch
    <3> QED BY <1>1, <1>2, <2>1, <2>4, <3>1 DEF Placed
  <2> QED BY <2>3, <2>4
<1>4. thread'[x] = th
  OBVIOUS
<1> HIDE DEF th, t
<1> QED BY <1>1, <1>2, <1>3, <1>4 DEF Placed

(* The munmap catches those in the replacement and in the trampoline;      *)
(* those held by the freeze are off the boundaries and caught, too, or     *)
(* back in the function, whose bytes are about to be the original ones.    *)
LEMMA UnmapPlaces ==
  ASSUME TInv, NEW i \in Live, torn = item[i].target, gone' = item[i].tramp,
         exposed' = exposed \cup CaughtByUnmap(i),
         UNCHANGED <<vars, thread, stopped, freezer, torn>>,
         stopped = {} \/ (Removing /\ freezer.for = item[i].target),
         NEW x \in Threads \ exposed'
  PROVE  Placed(x, thread[x])'
<1> DEFINE th == thread[x]
           t == item[i].target
<1>1. th \in ThreadRec /\ Named(th) /\ Placed(x, th) /\ x \notin exposed
      /\ x \notin CaughtByUnmap(i) /\ x \in Threads
  BY TInvFacts DEF ThreadsOK
<1>2. /\ UNCHANGED <<item, size, code>> /\ Owners' = Owners /\ Hooked' = Hooked
      /\ Removing' = Removing
  BY DEF vars, Owners, Hooked, Live, Removing
<1>3. th.at = "new" => th.fn # t
  BY <1>1 DEF CaughtByUnmap, Alive
<1>4. th.at = "tramp" => th.page # item[i].tramp
  <2> SUFFICES ASSUME th.at = "tramp", th.page = item[i].tramp PROVE FALSE
    OBVIOUS
  <2>1. x \in stopped /\ \E k \in 1..Length(t) : TrampOff(t, k) = th.off
    BY <1>1 DEF CaughtByUnmap, Alive
  <2>2. Cleared(th) /\ Removing /\ freezer.for = t
    BY <1>1, <2>1, TInvFacts DEF ThreadsOK
  <2>3. <<t, th.page>> \in Owners
    BY DEF Owners
  <2> QED BY <2>1, <2>2, <2>3 DEF Cleared
<1>5. thread'[x] = th
  OBVIOUS
<1> HIDE DEF th, t
<1> QED BY <1>1, <1>2, <1>3, <1>4, <1>5 DEF Placed, t

(* Then the removal of the item finds nobody there.                        *)
LEMMA RemovePlaces ==
  ASSUME TInv, NEW i \in Live, item[i].status = "HOOKED", UnHookItem(i),
         torn = item[i].target, gone = item[i].tramp, gone' = NULL,
         UNCHANGED <<thread, stopped, exposed>>,
         NEW x \in Threads \ exposed
  PROVE  Placed(x, thread[x])'
<1> DEFINE th == thread[x]
           t == item[i].target
<1>1. th \in ThreadRec /\ Named(th) /\ Placed(x, th) /\ t \in Targets
      /\ gone # NULL /\ torn = t
  BY TInvFacts DEF ThreadsOK
<1>2. /\ \A u, p : <<u, p>> \in Owners /\ p # item[i].tramp => <<u, p>> \in Owners'
      /\ Hooked' = Hooked \ {t} /\ code'[t] = "orig"
      /\ \A u \in Targets : u # t => code'[u] = code[u]
  BY UnHookItemOwners
<1>3. th.at = "fn" => \/ th.k = 1 \/ code'[th.fn] = "orig"
                      \/ Removing /\ freezer.for = th.fn /\ th.fn # t
  BY <1>1, <1>2 DEF Placed, Named
<1>4. th.at = "fn" => th.k = 1 \/ code'[th.fn] = "orig"
  BY <1>1, <1>3, TInvFacts DEF FreezerOK
<1>5. th.at = "new" => th.fn \in Hooked'
  BY <1>1, <1>2 DEF Placed
<1>6. th.at = "tramp" => <<th.fn, th.page>> \in Owners' /\ th.page # NULL
  <2> SUFFICES ASSUME th.at = "tramp"
               PROVE  <<th.fn, th.page>> \in Owners' /\ th.page # NULL
    OBVIOUS
  <2>1. <<th.fn, th.page>> \in Owners /\ th.page # item[i].tramp
    BY <1>1 DEF Placed
  <2>2. th.page \in Pages
    BY <2>1, TInvFacts DEF Owners
  <2> QED BY <1>2, <2>1, <2>2, TInvFacts
<1>7. thread'[x] = th
  OBVIOUS
<1> HIDE DEF th, t
<1> QED BY <1>1, <1>4, <1>5, <1>6, <1>7 DEF Placed

LEMMA RegistryStep ==
  ASSUME TInv, [Next]_vars, UNCHANGED <<thread, tids, stopped>>,
         exposed \subseteq exposed', exposed' \subseteq Threads,
         torn' \in Targets \cup {NULL}, gone' \in Pages \cup {NULL},
         freezer' \in [phase : {"none", "attach", "frozen", "done"}, for : Targets \cup {NULL}],
         FreezerOK',
         \A x \in Threads \ exposed' : Placed(x, thread[x])',
         \A x \in stopped \ exposed' : Cleared(thread[x])'
  PROVE  TInv'
<1>1. IInv' /\ Tables'
  BY TInvFacts, NextInvariant, TablesStep
<1>2. ThreadsTypeOK'
  BY TInvFacts DEF ThreadsTypeOK
<1>3. ThreadsOK'
  <2>1. \A x \in Threads : Named(thread[x])'
    BY TInvFacts DEF ThreadsOK, Named
  <2> QED BY <2>1 DEF ThreadsOK
<1> QED BY <1>1, <1>2, <1>3 DEF TInv

(* What every engine step on the table starts from.                        *)
LEMMA EngineFacts ==
  ASSUME TInv
  PROVE  /\ torn \in Targets \cup {NULL} /\ gone \in Pages \cup {NULL}
         /\ exposed \subseteq Threads
         /\ freezer \in [phase : {"none", "attach", "frozen", "done"},
                         for : Targets \cup {NULL}]
         /\ freezer.phase = "none" => stopped = {} /\ ~Removing
         /\ freezer.phase = "frozen" => Removing = (freezer.for # NULL)
         /\ torn # NULL => freezer.phase \in {"none", "frozen"}
         /\ torn # NULL /\ call.op # "none" => torn = item[call.cur].target
         /\ torn # NULL /\ Removing => torn = freezer.for
         /\ torn # NULL /\ freezer.phase = "frozen" /\ ~Removing => torn \notin Hooked
         /\ Removing => call = Idle
         /\ torn = NULL => gone = NULL
         /\ GoneOK
         /\ \A t : CaughtByPatch(t) \subseteq Threads
         /\ \A i : CaughtByUnmap(i) \subseteq Threads
         /\ stopped \subseteq Threads /\ LoopPosition
<1>1. ThreadsTypeOK /\ FreezerOK /\ LoopPosition
  BY TInvFacts DEF IInv
<1>2. torn = NULL => gone = NULL
  BY <1>1, TInvFacts DEF FreezerOK, GoneOK
<1>3. /\ \A t : CaughtByPatch(t) \subseteq Threads
      /\ \A i : CaughtByUnmap(i) \subseteq Threads
  BY DEF CaughtByPatch, CaughtByUnmap, Alive
<1> QED BY <1>1, <1>2, <1>3 DEF ThreadsTypeOK, FreezerOK, Removing

(* Steps on the table that write no code.  In a freeze they belong to      *)
(* inlineHookAll and enter nothing.                                        *)
LEMMA BookkeepingStep ==
  ASSUME TInv, Bookkeeping
  PROVE  TInv'
<1>1. /\ torn = NULL /\ torn' = torn /\ gone = NULL /\ gone' = gone
      /\ UNCHANGED <<thread, tids, stopped>> /\ exposed' = exposed
      /\ ~Removing /\ ~Removing' /\ freezer'.for = freezer.for
      /\ freezer' \in [phase : {"none", "attach", "frozen", "done"}, for : Targets \cup {NULL}]
      /\ freezer'.phase = "none" => stopped = {}
  <2>1. /\ torn = NULL /\ torn' = torn /\ gone = NULL /\ gone' = gone
        /\ UNCHANGED <<thread, tids, stopped>> /\ exposed' = exposed
    BY EngineFacts DEF Bookkeeping, NoThreadMoves
  <2>2. CASE freezer.phase = "none" /\ freezer' = freezer
    BY <2>1, <2>2, EngineFacts DEF Removing
  <2>3. CASE /\ freezer.phase = "frozen" /\ freezer.for = NULL
             /\ freezer' = freezer \/ freezer' = [freezer EXCEPT !.phase = "done"]
    BY <2>1, <2>3, EngineFacts DEF Removing
  <2> QED BY <2>2, <2>3 DEF Bookkeeping, Freezing, Becomes
<1>2. [Next]_vars
  BY DEF Bookkeeping, Next
<1>3. /\ Owners \subseteq Owners' /\ Hooked' = Hooked /\ code' = code
      /\ stopped = {} \/ Names' = Names
  <2>1. CASE freezer.phase = "none" /\ \E t \in Targets : AddItem(t)
    BY <2>1, AddItemOwners, EngineFacts
  <2>2. CASE UNCHANGED <<item, size, code>>
    BY <2>2 DEF Owners, Hooked, Names, Live
  <2> QED BY <2>1, <2>2
      DEF Bookkeeping, Freezing, Register, RegisterWhenFull, HookStart, AllStart, AllSkip,
          AllReturn
<1>4. ASSUME NEW x \in Threads \ exposed'
      PROVE  Placed(x, thread[x])'
  <2>1. Placed(x, thread[x])
    BY <1>1, <1>4, TInvFacts DEF ThreadsOK
  <2> QED BY <1>1, <1>3, <2>1 DEF Placed
<1>5. ASSUME NEW x \in stopped \ exposed'
      PROVE  Cleared(thread[x])'
  <2>1. Cleared(thread[x]) /\ Names' = Names
    BY <1>1, <1>3, <1>5, TInvFacts DEF ThreadsOK
  <2> QED BY <1>1, <2>1 DEF Cleared
<1>6. FreezerOK'
  BY <1>1 DEF FreezerOK, GoneOK
<1> QED BY <1>1, <1>2, <1>4, <1>5, <1>6, EngineFacts, RegistryStep

(* A write is complete: the patch exposes whoever it catches, in a freeze  *)
(* too, where only the threads held have been moved out of its way.        *)
LEMMA CompleteStep ==
  ASSUME TInv, Complete
  PROVE  TInv'
<1>1. /\ torn \in Targets /\ torn' = NULL /\ gone = NULL /\ gone' = NULL
      /\ freezer' = freezer /\ UNCHANGED <<thread, tids, stopped>>
      /\ exposed' = exposed \cup CaughtByPatch(torn)
  BY EngineFacts DEF Complete, NoThreadMoves
<1>2. PICK i \in Live : /\ item[i].target = torn /\ item[i].status = "REGISTERED"
                        /\ HookItem(i)
  <2>1. CASE InlineHook(torn)
    BY <2>1 DEF InlineHook, Find
  <2>2. CASE HookFinish \/ HookAllHook
    <3>1. /\ call.op # "none" /\ call.cur \in Live /\ item[call.cur].status = "REGISTERED"
          /\ HookItem(call.cur)
      BY <2>2, EngineFacts DEF HookFinish, HookAllHook, AllVisit, LoopPosition
    <3>2. item[call.cur].target = torn
      BY <1>1, <3>1, EngineFacts, TInvFacts
    <3> QED BY <3>1, <3>2
  <2> QED BY <2>1, <2>2 DEF Complete
<1>3. /\ stopped = {} \/ freezer.for = NULL
      /\ ~Removing /\ ~Removing'
  <2>1. CASE freezer.phase = "none"
    BY <1>1, <2>1, EngineFacts DEF Removing
  <2>2. CASE freezer.phase = "frozen" /\ HookAllHook
    <3>1. call.op = "hookAll"
      BY <2>2 DEF HookAllHook, AllVisit
    <3>2. ~Removing
      BY <3>1, EngineFacts DEF Idle
    <3> QED BY <1>1, <2>2, <3>2, EngineFacts DEF Removing
  <2> QED BY <2>1, <2>2 DEF Complete, Freezing
<1>4. [Next]_vars
  BY <1>1 DEF Complete, Next
<1>5. FreezerOK'
  BY <1>1, <1>3, TInvFacts DEF FreezerOK, GoneOK
<1>6. \A x \in Threads \ exposed' : Placed(x, thread[x])'
  BY <1>1, <1>2, <1>3, PatchPlaces
<1>7. ASSUME NEW x \in stopped \ exposed'
      PROVE  Cleared(thread[x])'
  <2>1. Cleared(thread[x]) /\ Names' = Names
    BY <1>1, <1>2, <1>7, HookItemOwners, TInvFacts DEF ThreadsOK
  <2> QED BY <1>1, <1>3, <2>1 DEF Cleared
<1> QED BY <1>1, <1>4, <1>5, <1>6, <1>7, EngineFacts, RegistryStep

(* The removal of a hook, up to the munmap and after it.                   *)
LEMMA UnmapStep ==
  ASSUME TInv, Unmap
  PROVE  TInv'
<1>1. PICK i \in Find(torn) : /\ item[i].status = "HOOKED" /\ gone' = item[i].tramp
                              /\ exposed' = exposed \cup CaughtByUnmap(i)
  BY DEF Unmap
<1>2. /\ i \in Live /\ item[i].target = torn /\ torn \in Targets
      /\ UNCHANGED <<thread, tids, stopped>> /\ UNCHANGED vars
      /\ torn' = torn /\ freezer' = freezer
  BY TInvFacts DEF Unmap, NoThreadMoves, Find
<1>3. /\ UNCHANGED <<item, size, code, call>> /\ Removing' = Removing
      /\ Live' = Live /\ Owners' = Owners /\ Names' = Names /\ Hooked' = Hooked
  BY <1>2 DEF vars, Removing, Live, Owners, Names, Hooked
<1>4. FreezerOK'
  BY <1>1, <1>2, <1>3, TInvFacts DEF FreezerOK, GoneOK
<1>5. ASSUME NEW x \in stopped \ exposed'
      PROVE  Cleared(thread[x])'
  <2>1. Cleared(thread[x])
    BY <1>1, <1>5, TInvFacts DEF ThreadsOK
  <2> QED BY <1>2, <1>3, <2>1 DEF Cleared
<1>6. ASSUME NEW x \in Threads \ exposed'
      PROVE  Placed(x, thread[x])'
  <2>1. CASE stopped = {} \/ Removing
    BY <1>1, <1>2, <1>6, <2>1, EngineFacts, TInvFacts, UnmapPlaces
  <2>2. CASE stopped # {} /\ ~Removing
    <3>1. torn \notin Hooked
      BY <1>2, <2>2, EngineFacts, TInvFacts
    <3> QED BY <1>1, <1>2, <3>1 DEF Hooked
  <2> QED BY <2>1, <2>2
<1> QED BY <1>1, <1>2, <1>4, <1>5, <1>6, EngineFacts, TInvFacts, RegistryStep

LEMMA DeleteStep ==
  ASSUME TInv, Delete
  PROVE  TInv'
<1>1. /\ gone # NULL /\ torn \in Targets /\ torn' = NULL /\ gone' = NULL
      /\ UNCHANGED <<thread, tids, stopped>> /\ exposed' = exposed
  BY EngineFacts, TInvFacts DEF Delete, NoThreadMoves
<1>2. PICK i \in Live : /\ item[i].status = "HOOKED" /\ UnHookItem(i)
                        /\ item[i].target = torn
  <2>1. CASE UnHookAllRemove
    <3>1. /\ call.op # "none" /\ call.cur \in Live /\ item[call.cur].status = "HOOKED"
          /\ UnHookItem(call.cur)
      BY <2>1 DEF UnHookAllRemove, AllVisit
    <3>2. item[call.cur].target = torn
      BY <1>1, <3>1, EngineFacts, TInvFacts
    <3> QED BY <3>1, <3>2
  <2>2. CASE freezer.phase = "frozen" /\ InlineUnHook(freezer.for)
    <3>1. PICK j \in Find(freezer.for) : item[j].status = "HOOKED" /\ UnHookItem(j)
      BY <2>2 DEF InlineUnHook
    <3>2. j \in Live /\ item[j].target = freezer.for /\ freezer.for # NULL
      BY <3>1, TInvFacts DEF Find
    <3>3. torn = freezer.for
      BY <1>1, <2>2, <3>2, EngineFacts, TInvFacts
    <3> QED BY <3>1, <3>2, <3>3
  <2> QED BY <2>1, <2>2 DEF Delete, Freezing
<1>3. gone = item[i].tramp
  <2>1. PICK j \in Live : item[j].target = torn /\ item[j].tramp = gone
    BY <1>1, EngineFacts DEF GoneOK
  <2>2. j = i
    BY <1>2, <2>1, TInvFacts
  <2> QED BY <2>1, <2>2
<1>4. /\ freezer' \in [phase : {"none", "attach", "frozen", "done"}, for : Targets \cup {NULL}]
      /\ ~Removing'
      /\ \/ stopped = {} /\ freezer'.phase = "none"
         \/ freezer'.phase = "done" /\ freezer'.for # NULL
  <2>1. CASE freezer.phase = "none" /\ freezer' = freezer
    BY <2>1, EngineFacts DEF Removing
  <2>2. CASE freezer.phase = "frozen" /\ InlineUnHook(freezer.for) /\ Becomes("done")
    <3>1. freezer.for # NULL
      BY <2>2, TInvFacts DEF InlineUnHook, Find
    <3> QED BY <2>2, <3>1, EngineFacts DEF Becomes, Removing
  <2> QED BY <2>1, <2>2 DEF Delete, Freezing
<1>5. [Next]_vars
  <2>1. freezer.for \in Targets \cup {NULL}
    BY EngineFacts
  <2>2. \A t : InlineUnHook(t) => t \in Targets
    BY TInvFacts DEF InlineUnHook, Find
  <2> QED BY <2>2 DEF Delete, Next
<1>6. FreezerOK'
  BY <1>1, <1>4, TInvFacts DEF FreezerOK, GoneOK
<1>7. \A x \in Threads \ exposed' : Placed(x, thread[x])'
  BY <1>1, <1>2, <1>3, RemovePlaces
<1>8. \A x \in stopped \ exposed' : Cleared(thread[x])'
  BY <1>4 DEF Cleared
<1> QED BY <1>1, <1>4, <1>5, <1>6, <1>7, <1>8, EngineFacts, RegistryStep

-----------------------------------------------------------------------------
LEMMA ThreadsInitially == TInit => TInv
<1> SUFFICES ASSUME TInit PROVE TInv
  OBVIOUS
<1>1. IInv /\ Tables
  BY InitInvariant, TablesInitially DEF TInit
<1>2. Unborn \in ThreadRec /\ Unborn.at = "unborn" /\ Outside \in ThreadRec /\ Outside.at = "out"
  BY DEF Unborn, Outside, ThreadRec
<1>3. thread \in [Threads -> ThreadRec] /\ \A x \in Threads : thread[x].at \in {"unborn", "out"}
  BY <1>2 DEF TInit
<1>4. ThreadsTypeOK
  BY <1>3 DEF TInit, ThreadsTypeOK, ThreadRec
<1>5. FreezerOK
  BY DEF TInit, FreezerOK, GoneOK, Removing
<1>6. ThreadsOK
  BY <1>3 DEF TInit, ThreadsOK, Named, Placed
<1> QED BY <1>1, <1>4, <1>5, <1>6 DEF TInv

LEMMA ThreadsStep == TInv /\ [TNext]_allVars => TInv'
<1> SUFFICES ASSUME TInv, [TNext]_allVars PROVE TInv'
  OBVIOUS
<1>1. CASE \E x \in Threads : ThreadStep(x) \/ Attach(x)
  BY <1>1, ThreadStepKeeps, AttachStep
<1>2. CASE \E x \in Threads : AttachFails(x)
  BY <1>2, FreezeSteps
<1>3. CASE EngineStep
  BY <1>3, BookkeepingStep, CompleteStep, UnmapStep, DeleteStep, FreezeSteps, HelperDiesStep
     DEF EngineStep
<1>4. CASE UNCHANGED allVars
  <2>1. /\ UNCHANGED <<item, size, code, stale, mapped, proto, call, crashed>>
        /\ UNCHANGED vars /\ UNCHANGED <<thread, torn, gone, freezer, tids, stopped, exposed>>
    BY <1>4 DEF allVars, vars, threadVars
  <2>2. IInv' /\ Tables'
    BY <2>1, TInvFacts, NextInvariant, TablesStep
  <2>3. Owners' = Owners /\ Hooked' = Hooked /\ Names' = Names /\ Removing' = Removing
        /\ Live' = Live
    BY <2>1 DEF Owners, Hooked, Names, Removing, Live
  <2>4. ThreadsTypeOK' /\ FreezerOK'
    BY <2>1, <2>3, TInvFacts DEF ThreadsTypeOK, FreezerOK, GoneOK
  <2>5. ThreadsOK'
    BY <2>1, <2>3, TInvFacts DEF ThreadsOK, Named, Placed, Cleared
  <2> QED BY <2>2, <2>4, <2>5 DEF TInv
<1> QED BY <1>1, <1>2, <1>3, <1>4 DEF TNext

LEMMA ThreadsInvariant == TSpec => []TInv
<1> QED BY ThreadsInitially, ThreadsStep, PTL DEF TSpec

(* The threads, the list of the helper and the patch in progress are well  *)
(* typed whatever overwritten boundary tables make of a stopped pc.        *)
THEOREM ThreadsTyped == TSpec => []ThreadsTypeOK
<1>1. TInv => ThreadsTypeOK
  BY DEF TInv
<1> QED BY <1>1, ThreadsInvariant, PTL

(* Nobody but an exposed thread faults: freeze takes everyone it stops on  *)
(* a boundary out of the way of the write, and a thread that enters after  *)
(* the call is over finds whole code, its own page and a valid original.   *)
THEOREM SafeBeyondExposure == TSpec => []SafeUnlessExposed
<1>1. TInv => SafeUnlessExposed
  BY DEF TInv, ThreadsOK, Placed, SafeUnlessExposed
<1> QED BY <1>1, ThreadsInvariant, PTL

(* Moved between a function and its copy by any number of freezes, hooks   *)
(* and unhooks, a thread executes each patched instruction once.           *)
THEOREM EachInstructionOnce == TSpec => []NothingSkipped
<1>1. TInv => NothingSkipped
  <2> SUFFICES ASSUME TInv, NEW x \in Alive \ exposed
               PROVE  LET th == thread[x] IN
                      /\ th.at = "fn" => th.done = th.k - 1
                      /\ th.at = "tramp" =>
                           \A k \in 1..Length(th.fn) :
                             TrampOff(th.fn, k) = th.off => th.done = k - 1
                      /\ th.at = "body" => th.done = Length(th.fn)
    BY DEF NothingSkipped
  <2> DEFINE th == thread[x]
  <2>1. Placed(x, th) /\ Named(th)
    BY DEF Alive, TInv, ThreadsOK
  <2>2. ASSUME th.at = "tramp", NEW k \in 1..Length(th.fn), TrampOff(th.fn, k) = th.off
        PROVE  th.done = k - 1
    <3>1. th.fn \in Targets /\ (AtCopy(th) \/ AtTail(th))
      BY <2>1, <2>2 DEF Placed, Named
    <3>2. /\ Length(th.fn) \in Nat /\ TrampOff(th.fn, k) \in Nat
          /\ TrampOff(th.fn, k) + 16 <= TailOff(th.fn) /\ TailOff(th.fn) \in Nat
          /\ \A j \in 1..Length(th.fn) :
               /\ TrampOff(th.fn, j) \in Nat
               /\ j # k => \/ TrampOff(th.fn, j) + 4 <= TrampOff(th.fn, k)
                           \/ TrampOff(th.fn, k) + 4 <= TrampOff(th.fn, j)
      BY <2>2, <3>1, CopyOffsets
    <3>3. ~ AtTail(th)
      BY <2>2, <3>2 DEF AtTail
    <3>4. PICK j \in 1..Length(th.fn) :
            th.off \in {TrampOff(th.fn, j), TrampOff(th.fn, j) + 1} /\ th.done = j - 1
      BY <3>1, <3>3 DEF AtCopy
    <3>5. j = k
      BY <2>2, <3>2, <3>4
    <3> QED BY <3>4, <3>5
  <2> QED BY <2>1, <2>2 DEF Placed
<1> QED BY <1>1, ThreadsInvariant, PTL

(* Whatever the threads do, the registry behaves as InlineHook says: all   *)
(* that is proved of it above holds in the midst of freezes and of patches *)
(* that are half written.                                                  *)
THEOREM EngineAmongThreads == TSpec => Spec
<1>1. TInit => Init
  BY DEF TInit
<1>2. ASSUME TInv, [TNext]_allVars
      PROVE  [Next]_vars
  <2>1. torn \in Targets \cup {NULL} /\ freezer.for \in Targets \cup {NULL}
    BY <1>2, EngineFacts
  <2>2. CASE \E x \in Threads : ThreadStep(x) \/ Attach(x) \/ AttachFails(x)
    BY <2>2 DEF ThreadStep, Spawn, Call, FetchOriginal, FetchJump, FetchGarbage,
       Trampoline, CallOriginal, Return, Go, Attach, AttachFails
  <2>3. CASE \/ FreezeAll \/ (\E t \in Targets : FreezeFor(t))
             \/ Frozen \/ HelperDies \/ UnFreeze \/ Tear \/ Unmap
    BY <2>3 DEF FreezeAll, FreezeFor, Freeze, Frozen, HelperDies, UnFreeze, Tear, Unmap
  <2>4. CASE Bookkeeping
    BY <2>4 DEF Bookkeeping, Next
  <2>5. CASE Complete \/ Delete
    <3>1. \A t : InlineUnHook(t) => t \in Targets
      BY <1>2, TInvFacts DEF InlineUnHook, Find
    <3>2. Complete => torn \in Targets
      BY <2>1 DEF Complete
    <3> QED BY <2>5, <3>1, <3>2 DEF Complete, Delete, Next
  <2>6. CASE UNCHANGED allVars
    BY <2>6 DEF allVars
  <2> QED BY <1>2, <2>2, <2>3, <2>4, <2>5, <2>6 DEF TNext, EngineStep
<1> QED BY <1>1, <1>2, ThreadsInvariant, PTL DEF TSpec, Spec

=============================================================================
