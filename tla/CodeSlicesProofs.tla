--------------------------- MODULE CodeSlicesProofs ---------------------------
(***************************************************************************)
(* CodeSlices: the allocator of hookzz gives every trampoline memory of    *)
(* its own, inside a page the system mapped and within reach, but for its  *)
(* two faulty tests; for any pages, sizes, functions and span.             *)
(***************************************************************************)
EXTENDS CodeSlices, WellFoundedInduction, TLAPS

Page == [base : Nat, pos : Nat, end : Nat]
Slice == [at : Nat, size : Sizes]

Types ==
  /\ pages \in Seq(Page) /\ slices \in Seq(Slice)
  /\ straddled \in BOOLEAN /\ wrapped \in BOOLEAN

(* A page, or the part of one that a split has left, is memory the system  *)
(* mapped, and the next slice is cut from within it.                       *)
PageOK(p) ==
  /\ p.base <= p.pos /\ p.pos <= p.end
  /\ \E b \in Bases : b <= p.base /\ p.end <= b + PageSize

Apart(p, q) == p.end <= q.base \/ q.end <= p.base

Holds(p, s) == p.base <= s.at /\ s.at + s.size <= p.pos

(* Every slice lies in front of the position of a page, pages have no      *)
(* memory in common, and neither have the slices.                          *)
Sound ==
  /\ \A i \in DOMAIN pages : PageOK(pages[i])
  /\ \A i, j \in DOMAIN pages : i # j => Apart(pages[i], pages[j])
  /\ \A s \in DOMAIN slices : \E i \in DOMAIN pages : Holds(pages[i], slices[s])
  /\ NoOverlap

SlicesInv == Types /\ (~straddled /\ ~wrapped => Sound)

-----------------------------------------------------------------------------
(* The operators of the model.                                             *)
LEMMA LeastIndex ==
  ASSUME NEW S \in SUBSET Nat, S # {}
  PROVE  First(S) \in S /\ \A j \in S : First(S) <= j
<1> DEFINE Less == {p \in Nat \X Nat : p[1] < p[2]}
<1>1. IsWellFoundedOn(Less, Nat)
  BY NatLessThanWellFounded DEF OpToRel
<1>2. PICK m \in S : \A y \in S : ~ (<<y, m>> \in Less)
  BY <1>1, WFMin
<1>3. ASSUME NEW y \in S PROVE m <= y
  <2>1. m \in Nat /\ y \in Nat /\ ~(<<y, m>> \in Less)
    BY <1>2
  <2>2. <<y, m>> \in Nat \X Nat /\ <<y, m>>[1] = y /\ <<y, m>>[2] = m
    BY <2>1
  <2>3. ~(y < m)
    BY <2>1, <2>2
  <2> QED BY <2>1, <2>3
<1> QED BY <1>3 DEF First

LEMMA AlignMoves ==
  ASSUME NEW p \in Page
  PROVE  /\ Align(p) \in Page /\ Align(p).base = p.base /\ Align(p).end = p.end
         /\ p.pos <= Align(p).pos
<1>1. p.pos % 2 \in Nat
  BY DEF Page
<1>2. p.pos + (p.pos % 2) \in Nat /\ p.pos <= p.pos + (p.pos % 2)
  BY <1>1 DEF Page
<1> QED BY <1>2 DEF Align, Page

LEMMA BumpMoves ==
  ASSUME NEW p \in Page, NEW n \in Nat
  PROVE  /\ Bump(p, n) \in Page /\ Bump(p, n).base = p.base /\ Bump(p, n).end = p.end
         /\ Bump(p, n).pos = p.pos + n
  BY DEF Bump, Page

LEMMA FunctionIsSeq ==
  ASSUME NEW S, NEW len \in Nat, NEW f \in [1 .. len -> S]
  PROVE  f \in Seq(S) /\ Len(f) = len /\ DOMAIN f = 1 .. len
  OBVIOUS

LEMMA SizesAreNat == \A n \in Sizes : n \in Nat /\ n > 0 /\ n <= PageSize
  BY SlicesAssumption

LEMMA SpanIsNat == \A a \in Functions : Low(a) \in Nat /\ High(a) \in Nat /\ a \in Nat /\ Low(a) < a /\ a < High(a)
  BY SlicesAssumption DEF Low, High

-----------------------------------------------------------------------------
(* A slice is cut at the position of page k, which moves to behind it;     *)
(* other pages only move their position, within their memory.              *)
LEMMA CutFromPage ==
  ASSUME Types, Types', Sound, NEW k \in DOMAIN pages, NEW at \in Nat, NEW n \in Nat,
         slices' = Append(slices, [at |-> at, size |-> n]),
         DOMAIN pages' = DOMAIN pages,
         \A i \in DOMAIN pages :
           /\ pages'[i].base = pages[i].base /\ pages'[i].end = pages[i].end
           /\ pages[i].pos <= pages'[i].pos /\ pages'[i].pos <= pages[i].end,
         pages[k].pos <= at, at + n = pages'[k].pos
  PROVE  Sound'
<1> USE DEF Types, Sound
<1>0. /\ \A i \in DOMAIN pages : pages[i] \in Page /\ pages'[i] \in Page
      /\ \A i \in DOMAIN pages : /\ pages[i].base \in Nat /\ pages[i].pos \in Nat /\ pages[i].end \in Nat
                                 /\ pages'[i].pos \in Nat
      /\ \A s \in DOMAIN slices : slices[s].at \in Nat /\ slices[s].size \in Nat
  <2>1. /\ \A i \in DOMAIN pages : pages[i] \in Page /\ pages'[i] \in Page
        /\ \A s \in DOMAIN slices : slices[s] \in Slice
    OBVIOUS
  <2> QED BY <2>1, SizesAreNat DEF Page, Slice
<1>1. DOMAIN slices = 1 .. Len(slices) /\ Len(slices) \in Nat
  OBVIOUS
<1>2. PICK m \in Nat : m = Len(slices) + 1
  BY <1>1
<1>3. /\ DOMAIN slices' = 1 .. m /\ DOMAIN slices = 1 .. m - 1
      /\ \A s \in DOMAIN slices : slices'[s] = slices[s]
      /\ slices'[m] = [at |-> at, size |-> n]
  BY <1>1, <1>2
<1> HIDE DEF Types, Sound
<1>a. ASSUME NEW i \in DOMAIN pages
      PROVE  /\ pages[i].base \in Nat /\ pages[i].pos \in Nat /\ pages[i].end \in Nat
             /\ pages'[i].pos \in Nat /\ pages[i].base <= pages[i].pos
             /\ pages'[i].base = pages[i].base /\ pages'[i].end = pages[i].end
             /\ pages[i].pos <= pages'[i].pos /\ pages'[i].pos <= pages[i].end
  BY <1>0 DEF Sound, PageOK
<1>4. ASSUME NEW i \in DOMAIN pages PROVE PageOK(pages[i])'
  <2>1. PICK b \in Bases : b <= pages[i].base /\ pages[i].end <= b + PageSize
    BY DEF Sound, PageOK
  <2>2. pages'[i].base <= pages'[i].pos
    BY <1>a
  <2>3. b <= pages'[i].base /\ pages'[i].end <= b + PageSize
    BY <1>a, <2>1
  <2> QED BY <1>a, <2>2, <2>3 DEF PageOK
<1>5. \A i, j \in DOMAIN pages' : i # j => Apart(pages[i], pages[j])'
  BY <1>a DEF Apart, Sound
<1>6. ASSUME NEW s \in DOMAIN slices PROVE \E i \in DOMAIN pages' : Holds(pages[i], slices[s])'
  <2>1. PICK i \in DOMAIN pages : Holds(pages[i], slices[s])
    BY DEF Sound
  <2>2. slices'[s] = slices[s] /\ slices[s].at \in Nat /\ slices[s].size \in Nat
    BY <1>0, <1>3
  <2>3. Holds(pages[i], slices[s])'
    BY <1>a, <2>1, <2>2, SMTT(30) DEF Holds
  <2> QED BY <2>3
<1>7. Holds(pages[k], slices[m])'
  BY <1>3, <1>a DEF Holds
<1>8. ASSUME NEW s \in DOMAIN slices PROVE Disjoint(slices'[s], slices'[m])
  <2>1. PICK i \in DOMAIN pages : Holds(pages[i], slices[s])
    BY DEF Sound
  <2>2. i # k => Apart(pages[i], pages[k])
    BY DEF Sound
  <2>3. /\ slices'[s] = slices[s] /\ slices'[m].at = at /\ slices'[m].size = n
        /\ slices[s].at \in Nat /\ slices[s].size \in Nat
    BY <1>0, <1>3
  <2>4. slices[s].at + slices[s].size <= pages[i].pos /\ pages[i].base <= slices[s].at
    BY <2>1 DEF Holds
  <2>5. CASE i = k
    <3>1. slices[s].at + slices[s].size <= at
      BY <1>a, <2>3, <2>4, <2>5
    <3> QED BY <2>3, <3>1 DEF Disjoint
  <2>6. CASE pages[i].end <= pages[k].base
    <3>1. pages[k].base <= at /\ pages[i].pos <= pages[i].end
      BY <1>a
    <3>2. /\ pages[i].pos \in Nat /\ pages[i].end \in Nat /\ pages[k].base \in Nat
      BY <1>a
    <3>3. slices[s].at + slices[s].size <= at
      BY <2>3, <2>4, <2>6, <3>1, <3>2
    <3> QED BY <2>3, <3>3 DEF Disjoint
  <2>7. CASE pages[k].end <= pages[i].base
    <3>1. at + n <= slices[s].at
      BY <1>a, <2>3, <2>4, <2>7
    <3> QED BY <2>3, <3>1 DEF Disjoint
  <2> QED BY <2>2, <2>5, <2>6, <2>7 DEF Apart
<1>9. NoOverlap'
  <2> SUFFICES ASSUME NEW i \in DOMAIN slices', NEW j \in DOMAIN slices', i < j
               PROVE  Disjoint(slices'[i], slices'[j])
    BY DEF NoOverlap
  <2>1. i \in DOMAIN slices
    BY <1>3
  <2>2. CASE j = m
    BY <1>8, <2>1, <2>2
  <2>3. CASE j # m
    <3>1. j \in DOMAIN slices
      BY <1>3, <2>3
    <3> QED BY <1>3, <2>1, <3>1 DEF NoOverlap, Sound
  <2> QED BY <2>2, <2>3
<1>10. ASSUME NEW s \in DOMAIN slices' PROVE \E i \in DOMAIN pages' : Holds(pages[i], slices[s])'
  <2>1. s \in DOMAIN slices \/ s = m
    BY <1>3
  <2> QED BY <1>6, <1>7, <2>1
<1> QED BY <1>4, <1>5, <1>9, <1>10 DEF Sound

(* A page of its own is added behind the others, which keep the slices cut *)
(* from them and may have lost the part the new page takes; the slice is   *)
(* cut from its beginning.                                                 *)
LEMMA CutFromAdded ==
  ASSUME Types, Types', Sound, NEW p \in Page, NEW q \in Page, NEW n \in Nat,
         NEW old \in Seq(Page), DOMAIN old = DOMAIN pages, Len(old) = Len(pages),
         slices' = Append(slices, [at |-> p.pos, size |-> n]), pages' = Append(old, q),
         q.base = p.pos, q.pos = p.pos + n, PageOK(q),
         \A i \in DOMAIN pages :
           /\ old[i].base = pages[i].base /\ old[i].end <= pages[i].end
           /\ pages[i].pos <= old[i].pos /\ old[i].pos <= old[i].end
           /\ Apart(old[i], q)
  PROVE  Sound'
<1>0. PICK l \in Nat : l = Len(pages) + 1
  BY DEF Types
<1>1. /\ Len(pages) \in Nat /\ DOMAIN pages = 1 .. Len(pages) /\ DOMAIN pages' = 1 .. l
      /\ \A i \in DOMAIN pages : pages'[i] = old[i] /\ i # l /\ i \in DOMAIN pages'
      /\ pages'[l] = q /\ l \in DOMAIN pages'
      /\ \A i \in DOMAIN pages' : i \in DOMAIN pages \/ i = l
  <2>1. Len(old) \in Nat /\ Len(pages) \in Nat /\ DOMAIN old = 1 .. Len(old)
    BY DEF Types
  <2>2. Append(old, q) \in Seq(Page) /\ Len(Append(old, q)) = l
    BY <1>0, <2>1
  <2>3. DOMAIN Append(old, q) = 1 .. l
    BY <2>2
  <2>4. \A i \in 1 .. Len(old) : Append(old, q)[i] = old[i]
    OBVIOUS
  <2>5. Append(old, q)[l] = q
    BY <1>0, <2>1
  <2>6. \A i \in 1 .. l : i \in 1 .. Len(pages) \/ i = l
    BY <1>0, <2>1
  <2>7. \A i \in 1 .. Len(pages) : i # l /\ i \in 1 .. l
    BY <1>0, <2>1
  <2> QED BY <1>0, <2>1, <2>3, <2>4, <2>5, <2>6, <2>7
<1>a. ASSUME NEW i \in DOMAIN pages
      PROVE  /\ pages[i].base \in Nat /\ pages[i].pos \in Nat /\ pages[i].end \in Nat
             /\ old[i].base \in Nat /\ old[i].pos \in Nat /\ old[i].end \in Nat
             /\ pages[i].base <= pages[i].pos
  <2>1. pages[i] \in Page /\ old[i] \in Page
    BY DEF Types
  <2> QED BY <2>1 DEF Page, Sound, PageOK
<1>b. q.base \in Nat /\ q.pos \in Nat /\ q.end \in Nat /\ p.pos \in Nat
  BY DEF Page
<1>2. PICK m \in Nat : m = Len(slices) + 1
  BY DEF Types
<1>3. /\ DOMAIN slices' = 1 .. m /\ DOMAIN slices = 1 .. m - 1
      /\ \A s \in DOMAIN slices : slices'[s] = slices[s]
      /\ slices'[m].at = p.pos /\ slices'[m].size = n
  BY <1>2 DEF Types
<1>c. \A s \in DOMAIN slices : slices[s].at \in Nat /\ slices[s].size \in Nat
  <2>1. \A s \in DOMAIN slices : slices[s] \in Slice
    BY DEF Types
  <2> QED BY <2>1, SizesAreNat DEF Slice
<1>4. ASSUME NEW i \in DOMAIN pages' PROVE PageOK(pages[i])'
  <2>1. CASE i = l
    BY <1>1, <2>1 DEF PageOK
  <2>2. CASE i \in DOMAIN pages
    <3>1. PICK b \in Bases : b <= pages[i].base /\ pages[i].end <= b + PageSize
      BY <2>2 DEF Sound, PageOK
    <3>2. b + PageSize \in Nat
      BY SlicesAssumption
    <3>3. b <= old[i].base /\ old[i].end <= b + PageSize
      BY <1>a, <2>2, <3>1, <3>2
    <3>4. old[i].base <= old[i].pos /\ old[i].pos <= old[i].end
      BY <1>a, <2>2
    <3> QED BY <1>1, <2>2, <3>3, <3>4 DEF PageOK
  <2> QED BY <1>1, <2>1, <2>2
<1>5. ASSUME NEW i \in DOMAIN pages', NEW j \in DOMAIN pages', i # j PROVE Apart(pages[i], pages[j])'
  <2>1. ASSUME NEW g \in DOMAIN pages PROVE Apart(pages'[g], pages'[l]) /\ Apart(pages'[l], pages'[g])
    BY <1>1 DEF Apart
  <2>2. CASE i \in DOMAIN pages /\ j \in DOMAIN pages
    <3>1. Apart(pages[i], pages[j])
      BY <1>5, <2>2 DEF Sound
    <3>2. Apart(old[i], old[j])
      BY <1>a, <2>2, <3>1 DEF Apart
    <3> QED BY <1>1, <2>2, <3>2 DEF Apart
  <2>3. CASE i = l \/ j = l
    <3>1. Apart(pages'[i], pages'[j])
      BY <1>1, <1>5, <2>1, <2>3
    <3> QED BY <3>1 DEF Apart
  <2> QED BY <1>1, <2>2, <2>3
<1>6. ASSUME NEW s \in DOMAIN slices PROVE \E i \in DOMAIN pages' : Holds(pages[i], slices[s])'
  <2>1. PICK i \in DOMAIN pages : Holds(pages[i], slices[s])
    BY DEF Sound
  <2>2. Holds(pages[i], slices[s])'
    BY <1>1, <1>3, <1>a, <1>c, <2>1 DEF Holds
  <2> QED BY <1>1, <2>2
<1>7. Holds(pages[l], slices[m])'
  BY <1>1, <1>3, <1>b DEF Holds
<1>8. ASSUME NEW s \in DOMAIN slices PROVE Disjoint(slices'[s], slices'[m])
  <2>1. PICK i \in DOMAIN pages : Holds(pages[i], slices[s])
    BY DEF Sound
  <2>2. /\ slices'[s] = slices[s] /\ slices[s].at \in Nat /\ slices[s].size \in Nat
    BY <1>3, <1>c
  <2>3. /\ slices[s].at + slices[s].size <= old[i].end /\ old[i].base <= slices[s].at
    <3>1. slices[s].at + slices[s].size <= pages[i].pos /\ pages[i].base <= slices[s].at
      BY <2>1 DEF Holds
    <3>2. pages[i].pos <= old[i].pos /\ old[i].pos <= old[i].end /\ old[i].base = pages[i].base
      OBVIOUS
    <3> QED BY <1>a, <2>2, <3>1, <3>2
  <2>4. old[i].end \in Nat /\ old[i].base \in Nat
    BY <1>a
  <2>5. CASE old[i].end <= q.base
    <3>1. slices[s].at + slices[s].size <= p.pos
      BY <1>b, <2>2, <2>3, <2>4, <2>5, SMTT(30)
    <3> QED BY <1>3, <2>2, <3>1 DEF Disjoint
  <2>6. CASE q.end <= old[i].base
    <3>1. p.pos + n <= q.end
      BY DEF PageOK
    <3>2. p.pos + n <= slices[s].at
      BY <1>b, <2>2, <2>3, <2>4, <2>6, <3>1, SMTT(30)
    <3> QED BY <1>3, <2>2, <3>2 DEF Disjoint
  <2>7. Apart(old[i], q)
    OBVIOUS
  <2> QED BY <2>5, <2>6, <2>7 DEF Apart
<1>9. NoOverlap'
  <2> SUFFICES ASSUME NEW i \in DOMAIN slices', NEW j \in DOMAIN slices', i < j
               PROVE  Disjoint(slices'[i], slices'[j])
    BY DEF NoOverlap
  <2>1. i \in DOMAIN slices
    BY <1>3
  <2>2. CASE j = m
    BY <1>8, <2>1, <2>2
  <2>3. CASE j # m
    <3>1. j \in DOMAIN slices
      BY <1>3, <2>3
    <3> QED BY <1>3, <2>1, <3>1 DEF NoOverlap, Sound
  <2> QED BY <2>2, <2>3
<1>10. ASSUME NEW s \in DOMAIN slices' PROVE \E i \in DOMAIN pages' : Holds(pages[i], slices[s])'
  <2>1. s \in DOMAIN slices \/ s = m
    BY <1>3
  <2> QED BY <1>1, <1>6, <1>7, <2>1
<1> QED BY <1>4, <1>5, <1>9, <1>10 DEF Sound


-----------------------------------------------------------------------------
(* The steps of the allocator.                                             *)
LEMMA FitsFacts ==
  ASSUME Types, NEW n \in Sizes, Fits(n) # {}
  PROVE  /\ First(Fits(n)) \in DOMAIN pages /\ First(Fits(n)) \in Fits(n)
         /\ \A i \in DOMAIN pages : i < First(Fits(n)) => i \notin Fits(n)
<1>1. Fits(n) \in SUBSET Nat /\ DOMAIN pages \subseteq Nat /\ Fits(n) \subseteq DOMAIN pages
  BY DEF Fits, Types
<1>2. First(Fits(n)) \in Fits(n) /\ \A j \in Fits(n) : First(Fits(n)) <= j
  BY <1>1, LeastIndex
<1>3. ASSUME NEW i \in DOMAIN pages, i < First(Fits(n)), i \in Fits(n) PROVE FALSE
  BY <1>1, <1>2, <1>3
<1> QED BY <1>1, <1>2, <1>3

(* A page that is passed on is aligned within its memory: one whose end is *)
(* odd and that is full is not passed on.                                  *)
LEMMA PassedOn ==
  ASSUME Types, Sound, NEW n \in Sizes, NEW i \in DOMAIN pages, i \notin Fits(n)
  PROVE  /\ Align(pages[i]) \in Page /\ pages[i].pos <= Align(pages[i]).pos
         /\ Align(pages[i]).base = pages[i].base /\ Align(pages[i]).end = pages[i].end
         /\ Align(pages[i]).pos <= pages[i].end
<1>1. pages[i] \in Page
  BY DEF Types
<1>2. Align(pages[i]) \in Page /\ Align(pages[i]).end = pages[i].end
  BY <1>1, AlignMoves
<1>3. ~(Align(pages[i]).pos > Align(pages[i]).end)
  BY DEF Fits, Exceeds
<1>4. Align(pages[i]).pos \in Nat /\ Align(pages[i]).end \in Nat
  BY <1>2 DEF Page
<1> QED BY <1>1, <1>2, <1>3, <1>4, AlignMoves

LEMMA FromPageKeeps ==
  ASSUME SlicesInv, NEW n \in Sizes, FromPage(n), UNCHANGED straddled
  PROVE  SlicesInv'
<1> USE DEF SlicesInv
<1>1. Fits(n) # {} /\ n \in Nat
  BY SizesAreNat DEF FromPage
<1>2. PICK k \in DOMAIN pages : k = First(Fits(n)) /\ k \in Fits(n)
  BY <1>1, FitsFacts
<1>3. /\ wrapped' = (wrapped \/ Align(pages[k]).pos > pages[k].end)
      /\ slices' = Append(slices, SliceOf(Align(pages[k]), n))
      /\ pages' = [i \in DOMAIN pages |->
                     IF i > k THEN pages[i]
                     ELSE IF i = k THEN Bump(Align(pages[i]), n) ELSE Align(pages[i])]
  BY <1>2 DEF FromPage, Cut
<1>4. \A i \in DOMAIN pages : pages[i] \in Page /\ Align(pages[i]) \in Page
                             /\ Bump(Align(pages[i]), n) \in Page
  BY <1>1, AlignMoves, BumpMoves DEF Types
<1>5. PICK len \in Nat : len = Len(pages) /\ DOMAIN pages = 1 .. len
  BY DEF Types
<1>6. pages' \in [1 .. len -> Page]
  BY <1>3, <1>4, <1>5
<1>7. PICK at \in Nat : at = Align(pages[k]).pos
  BY <1>4 DEF Page
<1>8. slices' = Append(slices, [at |-> at, size |-> n]) /\ [at |-> at, size |-> n] \in Slice
  BY <1>3, <1>7 DEF SliceOf, Slice
<1>9. Types'
  <2>1. pages' \in Seq(Page)
    BY <1>6, FunctionIsSeq
  <2>2. slices' \in Seq(Slice)
    BY <1>8 DEF Types
  <2>3. wrapped' \in BOOLEAN /\ straddled' \in BOOLEAN
    BY <1>3 DEF Types
  <2> QED BY <2>1, <2>2, <2>3 DEF Types
<1>10. ASSUME ~straddled', ~wrapped' PROVE Sound'
  <2>1. Sound /\ ~(at > pages[k].end)
    BY <1>3, <1>7, <1>10
  <2>2. /\ Align(pages[k]).base = pages[k].base /\ Align(pages[k]).end = pages[k].end
        /\ pages[k].pos <= at
    BY <1>4, <1>7, AlignMoves
  <2>3. pages[k].end \in Nat /\ pages[k].pos \in Nat
    BY <1>4 DEF Page
  <2>4. pages[k].end - at > n
    BY <1>2, <1>7, <2>1, <2>2, <2>3 DEF Fits, Exceeds
  <2>5. at + n <= pages[k].end /\ pages[k].pos <= at + n
    BY <1>1, <2>2, <2>3, <2>4
  <2>6. /\ pages'[k].base = pages[k].base /\ pages'[k].end = pages[k].end
        /\ pages'[k].pos = at + n
    <3>1. pages'[k] = Bump(Align(pages[k]), n)
      BY <1>3, <1>5
    <3> QED BY <1>1, <1>4, <1>7, <2>2, <3>1, BumpMoves
  <2>7. ASSUME NEW i \in DOMAIN pages
        PROVE  /\ pages'[i].base = pages[i].base /\ pages'[i].end = pages[i].end
               /\ pages[i].pos <= pages'[i].pos /\ pages'[i].pos <= pages[i].end
    <3>1. CASE i = k
      BY <2>5, <2>6, <3>1
    <3>2. CASE i > k
      <4>1. pages'[i] = pages[i] /\ pages[i].pos \in Nat
        BY <1>3, <1>4, <3>2 DEF Page
      <4> QED BY <2>1, <4>1 DEF Sound, PageOK
    <3>3. CASE i < k
      <4>1. pages'[i] = Align(pages[i])
        BY <1>3, <1>5, <3>3
      <4>2. i \notin Fits(n)
        BY <1>1, <1>2, <3>3, FitsFacts
      <4> QED BY <2>1, <4>1, <4>2, PassedOn
    <3> QED BY <1>5, <3>1, <3>2, <3>3
  <2>8. DOMAIN pages' = DOMAIN pages
    BY <1>3
  <2> QED BY <1>1, <1>8, <1>9, <2>1, <2>2, <2>6, <2>7, <2>8, CutFromPage
<1> QED BY <1>9, <1>10

LEMMA FromNewPageKeeps ==
  ASSUME SlicesInv, NEW n \in Sizes, FromNewPage(n), UNCHANGED straddled
  PROVE  SlicesInv'
<1> USE DEF SlicesInv
<1>1. Fits(n) = {} /\ UNCHANGED wrapped /\ n \in Nat /\ n <= PageSize
  BY SizesAreNat DEF FromNewPage
<1> DEFINE old == [i \in DOMAIN pages |-> Align(pages[i])]
<1>2. PICK b \in Unmapped :
        LET p == PageAt(b, b + PageSize) IN
          Cut(p, n) /\ pages' = Append(old, Bump(p, n))
  BY DEF FromNewPage
<1>3. b \in Bases /\ b \in Nat /\ b + PageSize \in Nat
      /\ \A i \in DOMAIN pages : pages[i].end <= b \/ pages[i].base >= b + PageSize
  BY <1>2, SlicesAssumption DEF Unmapped
<1>4. PICK p \in Page : p = PageAt(b, b + PageSize)
  BY <1>3 DEF PageAt, Page
<1>5. PICK q \in Page : q = Bump(p, n)
  BY <1>1, <1>4, BumpMoves
<1>6. /\ p.base = b /\ p.pos = b /\ p.end = b + PageSize
      /\ q.base = b /\ q.pos = b + n /\ q.end = b + PageSize
  BY <1>1, <1>4, <1>5, BumpMoves DEF PageAt
<1>7. slices' = Append(slices, [at |-> p.pos, size |-> n]) /\ [at |-> p.pos, size |-> n] \in Slice
      /\ pages' = Append(old, q)
  BY <1>2, <1>3, <1>4, <1>5, <1>6 DEF Cut, SliceOf, Slice
<1>8. \A i \in DOMAIN pages : pages[i] \in Page /\ Align(pages[i]) \in Page
  BY AlignMoves DEF Types
<1>9. PICK len \in Nat : len = Len(pages) /\ DOMAIN pages = 1 .. len
  BY DEF Types
<1>10. old \in Seq(Page) /\ Len(old) = Len(pages) /\ DOMAIN old = DOMAIN pages
  <2>1. old \in [1 .. len -> Page]
    BY <1>8, <1>9
  <2> HIDE DEF old
  <2> QED BY <1>9, <2>1, FunctionIsSeq
<1>11. \A i \in DOMAIN pages : old[i] = Align(pages[i])
  OBVIOUS
<1> HIDE DEF old
<1>12. Types'
  <2>1. pages' \in Seq(Page)
    BY <1>7, <1>10
  <2>2. slices' \in Seq(Slice)
    BY <1>7 DEF Types
  <2> QED BY <1>1, <2>1, <2>2 DEF Types
<1>13. ASSUME ~straddled', ~wrapped' PROVE Sound'
  <2>1. Sound
    BY <1>1, <1>13
  <2>2. PageOK(q)
    BY <1>1, <1>3, <1>6, SlicesAssumption DEF PageOK
  <2>3. ASSUME NEW i \in DOMAIN pages
        PROVE  /\ old[i].base = pages[i].base /\ old[i].end <= pages[i].end
               /\ pages[i].pos <= old[i].pos /\ old[i].pos <= old[i].end
               /\ Apart(old[i], q)
    <3>1. /\ old[i].base = pages[i].base /\ old[i].end = pages[i].end
          /\ pages[i].pos <= old[i].pos /\ old[i].pos <= pages[i].end
      BY <1>1, <1>11, <2>1, PassedOn
    <3>2. pages[i].end \in Nat /\ pages[i].base \in Nat
      BY <1>8 DEF Page
    <3>3. Apart(old[i], q)
      BY <1>3, <1>6, <3>1, <3>2 DEF Apart
    <3> QED BY <3>1, <3>2, <3>3
  <2> QED BY <1>1, <1>6, <1>7, <1>10, <1>12, <2>1, <2>2, <2>3, CutFromAdded
<1> QED BY <1>12, <1>13


(* What ZzNewNearCodeSlice picks: for a page that is sound and whose end   *)
(* the span does not cut, the slice lies within the page and the span.     *)
LEMMA NearFacts ==
  ASSUME Types, NEW a \in Functions, NEW n \in Sizes, Near(a, n) # {}
  PROVE  /\ First(Near(a, n)) \in DOMAIN pages
         /\ \/ FromBelow(pages[First(Near(a, n))], a, n)
            \/ UpperPart(pages[First(Near(a, n))], a, n)
            \/ FromAbove(pages[First(Near(a, n))], a, n)
            \/ Straddles(pages[First(Near(a, n))], a, n)
<1>1. Near(a, n) \in SUBSET Nat /\ Near(a, n) \subseteq DOMAIN pages
  BY DEF Near, Types
<1>2. First(Near(a, n)) \in Near(a, n)
  BY <1>1, LeastIndex
<1> QED BY <1>1, <1>2 DEF Near

LEMMA NearKeeps ==
  ASSUME SlicesInv, NEW a \in Functions, NEW n \in Sizes, NewNearCodeSlice(a, n)
  PROVE  /\ SlicesInv'
         /\ ~straddled /\ ~wrapped =>
              LET at == slices'[Len(slices')].at IN Low(a) <= at /\ at <= High(a)
<1> USE DEF SlicesInv
<1>1. /\ Near(a, n) # {} /\ UNCHANGED wrapped /\ n \in Nat /\ n > 0
      /\ a \in Nat /\ Low(a) \in Nat /\ High(a) \in Nat /\ Low(a) < a /\ a < High(a)
  BY SizesAreNat, SpanIsNat DEF NewNearCodeSlice
<1>2. PICK k \in DOMAIN pages : k = First(Near(a, n))
  BY <1>1, NearFacts
<1>3. /\ \/ FromBelow(pages[k], a, n) \/ UpperPart(pages[k], a, n)
         \/ FromAbove(pages[k], a, n) \/ Straddles(pages[k], a, n)
      /\ straddled' = (straddled \/ Straddles(pages[k], a, n))
      /\ IF UpperPart(pages[k], a, n) THEN Split(k, a, n)
         ELSE Cut(pages[k], n) /\ pages' = [pages EXCEPT ![k] = Bump(@, n)]
  BY <1>1, <1>2, NearFacts DEF NewNearCodeSlice
<1>4. /\ \A i \in DOMAIN pages : pages[i] \in Page
      /\ pages[k].base \in Nat /\ pages[k].pos \in Nat /\ pages[k].end \in Nat
  <2>1. \A i \in DOMAIN pages : pages[i] \in Page
    BY DEF Types
  <2> QED BY <2>1 DEF Page
<1>5. ASSUME NEW s \in Slice, slices' = Append(slices, s)
      PROVE  slices' \in Seq(Slice) /\ slices'[Len(slices')] = s
  <2>1. slices \in Seq(Slice)
    BY DEF Types
  <2>2. Len(slices) \in Nat /\ Len(slices') = Len(slices) + 1
    BY <1>5, <2>1
  <2> QED BY <1>5, <2>1, <2>2
<1>6. PICK len \in Nat : len = Len(pages) /\ DOMAIN pages = 1 .. len
  BY DEF Types
<1>7. CASE UpperPart(pages[k], a, n)
  <2> DEFINE old == [pages EXCEPT ![k].end = Low(a)]
  <2>1. PICK p \in Page : p = PageAt(Low(a), pages[k].end)
    BY <1>1, <1>4 DEF PageAt, Page
  <2>2. PICK q \in Page : q = Bump(p, n)
    BY <1>1, <2>1, BumpMoves
  <2>3. /\ p.pos = Low(a) /\ q.base = Low(a) /\ q.pos = Low(a) + n /\ q.end = pages[k].end
    BY <1>1, <2>1, <2>2, BumpMoves DEF PageAt
  <2>4. slices' = Append(slices, [at |-> p.pos, size |-> n]) /\ pages' = Append(old, q)
        /\ [at |-> p.pos, size |-> n] \in Slice
    BY <1>1, <1>3, <1>7, <2>1, <2>2, <2>3 DEF Split, Cut, SliceOf, Slice
  <2>5. /\ \A i \in DOMAIN pages : i # k => old[i] = pages[i]
        /\ old[k].base = pages[k].base /\ old[k].pos = pages[k].pos /\ old[k].end = Low(a)
        /\ old[k] \in Page
    BY <1>1, <1>4 DEF Page
  <2>6. old \in Seq(Page) /\ Len(old) = Len(pages) /\ DOMAIN old = DOMAIN pages
    <3>1. DOMAIN old = DOMAIN pages /\ old = [i \in DOMAIN pages |-> old[i]]
      OBVIOUS
    <3>2. \A i \in 1 .. len : old[i] \in Page
      BY <1>4, <1>6, <2>5
    <3> HIDE DEF old
    <3>3. old \in [1 .. len -> Page]
      BY <1>6, <3>1, <3>2
    <3> QED BY <1>6, <3>3, FunctionIsSeq
  <2> HIDE DEF old
  <2>7. Types'
    <3>1. pages' \in Seq(Page)
      BY <2>4, <2>6
    <3> QED BY <1>1, <1>3, <1>5, <2>4, <3>1 DEF Types
  <2>8. Low(a) > pages[k].pos /\ Low(a) < pages[k].end /\ pages[k].end - Low(a) >= n
    BY <1>7 DEF UpperPart
  <2>9. ASSUME Sound PROVE Sound'
    <3>1. PageOK(pages[k]) /\ \A i \in DOMAIN pages : PageOK(pages[i]) /\ (i # k => Apart(pages[i], pages[k]))
      BY <2>9 DEF Sound
    <3>2. PageOK(q)
      <4>1. PICK b \in Bases : b <= pages[k].base /\ pages[k].end <= b + PageSize
        BY <3>1 DEF PageOK
      <4>2. b \in Nat /\ b <= Low(a)
        BY <1>1, <1>4, <2>8, <3>1, <4>1, SlicesAssumption DEF PageOK
      <4>3. Low(a) + n <= pages[k].end
        BY <1>1, <1>4, <2>8
      <4> QED BY <1>1, <2>3, <4>1, <4>2, <4>3 DEF PageOK
    <3>3. ASSUME NEW i \in DOMAIN pages
          PROVE  /\ old[i].base = pages[i].base /\ old[i].end <= pages[i].end
                 /\ pages[i].pos <= old[i].pos /\ old[i].pos <= old[i].end
                 /\ Apart(old[i], q)
      <4>1. pages[i].base \in Nat /\ pages[i].pos \in Nat /\ pages[i].end \in Nat
        BY <1>4 DEF Page
      <4>2. CASE i = k
        BY <1>1, <1>4, <2>3, <2>5, <2>8, <4>2 DEF Apart
      <4>3. CASE i # k
        <5>1. old[i] = pages[i] /\ Apart(pages[i], pages[k]) /\ PageOK(pages[i])
          BY <2>5, <3>1, <4>3
        <5>2. Apart(old[i], q)
          BY <1>1, <1>4, <2>3, <2>8, <3>1, <4>1, <5>1 DEF Apart, PageOK
        <5> QED BY <4>1, <5>1, <5>2 DEF PageOK
      <4> QED BY <4>2, <4>3
    <3> QED BY <1>1, <2>3, <2>4, <2>6, <2>7, <2>9, <3>2, <3>3, CutFromAdded
  <2>10. slices'[Len(slices')].at = Low(a)
    BY <1>5, <2>3, <2>4
  <2>11. ~straddled' => ~straddled
    BY <1>3
  <2> QED BY <1>1, <2>7, <2>9, <2>10, <2>11
<1>8. CASE ~UpperPart(pages[k], a, n)
  <2>1. PICK at \in Nat : at = pages[k].pos
    BY <1>4
  <2>2. slices' = Append(slices, [at |-> at, size |-> n]) /\ [at |-> at, size |-> n] \in Slice
        /\ pages' = [pages EXCEPT ![k] = Bump(@, n)]
    BY <1>3, <1>8, <2>1 DEF Cut, SliceOf, Slice
  <2>3. Bump(pages[k], n) \in Page
    BY <1>1, <1>4, BumpMoves
  <2>4. DOMAIN pages' = DOMAIN pages /\ pages' \in [1 .. len -> Page]
        /\ pages'[k] = Bump(pages[k], n) /\ \A i \in DOMAIN pages : i # k => pages'[i] = pages[i]
    <3>1. pages \in [1 .. len -> Page]
      BY <1>4, <1>6 DEF Types
    <3> QED BY <1>6, <2>2, <2>3, <3>1
  <2>5. Types'
    <3>1. pages' \in Seq(Page)
      BY <2>4, FunctionIsSeq
    <3> QED BY <1>1, <1>3, <1>5, <2>2, <3>1 DEF Types
  <2>6. ASSUME Sound, ~Straddles(pages[k], a, n) PROVE Sound'
    <3>1. PageOK(pages[k]) /\ \A i \in DOMAIN pages : PageOK(pages[i])
      BY <2>6 DEF Sound
    <3>2. at + n <= pages[k].end
      <4>1. ~Short(pages[k], n) /\ pages[k].pos <= pages[k].end
        BY <1>3, <1>8, <2>6, <3>1 DEF FromBelow, FromAbove, PageOK
      <4> QED BY <1>1, <1>4, <2>1, <4>1 DEF Short
    <3>3. /\ pages'[k].base = pages[k].base /\ pages'[k].end = pages[k].end /\ pages'[k].pos = at + n
      BY <1>1, <1>4, <2>1, <2>4, BumpMoves
    <3>4. ASSUME NEW i \in DOMAIN pages
          PROVE  /\ pages'[i].base = pages[i].base /\ pages'[i].end = pages[i].end
                 /\ pages[i].pos <= pages'[i].pos /\ pages'[i].pos <= pages[i].end
      <4>1. CASE i = k
        BY <1>1, <1>4, <2>1, <3>2, <3>3, <4>1
      <4>2. CASE i # k
        <5>1. pages'[i] = pages[i] /\ pages[i].pos \in Nat
          BY <1>4, <2>4, <4>2 DEF Page
        <5> QED BY <3>1, <5>1 DEF PageOK
      <4> QED BY <4>1, <4>2
    <3>5. pages[k].pos <= at
      BY <2>1
    <3> QED BY <1>1, <2>2, <2>4, <2>5, <2>6, <3>3, <3>4, <3>5, CutFromPage
  <2>7. slices'[Len(slices')].at = at
    BY <1>5, <2>2
  <2>8. ASSUME Sound PROVE Low(a) <= at /\ at <= High(a)
    <3>1. pages[k].pos <= pages[k].end
      BY <2>8 DEF Sound, PageOK
    <3>2. CASE FromBelow(pages[k], a, n)
      BY <1>1, <2>1, <3>2 DEF FromBelow
    <3>3. CASE FromAbove(pages[k], a, n)
      BY <1>1, <1>4, <2>1, <3>1, <3>3 DEF FromAbove
    <3>4. CASE Straddles(pages[k], a, n)
      BY <1>1, <2>1, <3>4 DEF Straddles
    <3> QED BY <1>3, <1>8, <3>2, <3>3, <3>4
  <2> QED BY <1>1, <1>3, <2>5, <2>6, <2>7, <2>8
<1> QED BY <1>7, <1>8

-----------------------------------------------------------------------------
LEMMA SlicesInitially == Init => SlicesInv
<1> SUFFICES ASSUME Init PROVE SlicesInv
  OBVIOUS
<1>1. pages = <<>> /\ slices = <<>> /\ straddled = FALSE /\ wrapped = FALSE
  BY DEF Init
<1>2. \A S : <<>> \in Seq(S) /\ DOMAIN <<>> = {}
  OBVIOUS
<1> QED BY <1>1, <1>2 DEF SlicesInv, Types, Sound, NoOverlap

LEMMA SlicesKept == SlicesInv /\ [Next]_vars => SlicesInv'
<1> SUFFICES ASSUME SlicesInv, [Next]_vars PROVE SlicesInv'
  OBVIOUS
<1>1. CASE UNCHANGED vars
  BY <1>1 DEF vars, SlicesInv, Types, Sound, NoOverlap, PageOK, Apart, Holds, Disjoint
<1>2. ASSUME NEW n \in Sizes, NewCodeSlice(n) PROVE SlicesInv'
  BY <1>2, FromPageKeeps, FromNewPageKeeps DEF NewCodeSlice
<1>3. ASSUME NEW a \in Functions, NEW n \in Sizes, NewNearCodeSlice(a, n) PROVE SlicesInv'
  BY <1>3, NearKeeps
<1> QED BY <1>1, <1>2, <1>3 DEF Next

THEOREM SlicesInvariant == Spec => []SlicesInv
  BY SlicesInitially, SlicesKept, PTL DEF Spec

(* A slice of ZzNewCodeSlice or ZzNewNearCodeSlice lies in one mapped page *)
(* and no two have a halfword in common, unless the branch with the        *)
(* reversed test, or a page aligned past its end, has been used.           *)
THEOREM SlicesAreSound == Spec => []SoundUnlessMistested
<1>1. SlicesInv => SoundUnlessMistested
  <2> SUFFICES ASSUME Types, Sound, NEW s \in DOMAIN slices
               PROVE  \E b \in Bases : /\ b <= slices[s].at
                                       /\ slices[s].at + slices[s].size <= b + PageSize
    BY DEF SlicesInv, SoundUnlessMistested, EnoughRoom, Sound
  <2>1. PICK i \in DOMAIN pages : Holds(pages[i], slices[s])
    BY DEF Sound
  <2>2. PageOK(pages[i]) /\ pages[i] \in Page /\ slices[s] \in Slice
    BY DEF Sound, Types
  <2>3. PICK b \in Bases : b <= pages[i].base /\ pages[i].end <= b + PageSize
    BY <2>2 DEF PageOK
  <2>4. /\ b \in Nat /\ PageSize \in Nat /\ slices[s].at \in Nat /\ slices[s].size \in Nat
        /\ pages[i].base \in Nat /\ pages[i].pos \in Nat /\ pages[i].end \in Nat
    BY <2>2, SlicesAssumption, SizesAreNat DEF Page, Slice
  <2> QED BY <2>1, <2>2, <2>3, <2>4 DEF Holds, PageOK
<1> QED BY <1>1, SlicesInvariant, PTL

(* A slice cut for a function is where its short branch reaches it, under  *)
(* the same proviso.                                                       *)
THEOREM SlicesInReach == Spec => InReach
<1> DEFINE Reaches == \A a \in Functions, n \in Sizes :
             NewNearCodeSlice(a, n) /\ ~straddled /\ ~wrapped =>
               LET at == slices'[Len(slices')].at IN Low(a) <= at /\ at <= High(a)
<1>1. SlicesInv => Reaches
  BY NearKeeps
<1> HIDE DEF Reaches
<1>2. [][Reaches]_vars => InReach
  BY DEF InReach, Reaches
<1> QED BY <1>1, <1>2, SlicesInvariant, PTL DEF Spec

=============================================================================
