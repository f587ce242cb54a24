------------------------------ MODULE CodeSlices ------------------------------
(***************************************************************************)
(* The allocator of hookzz (allocator.c): trampolines are slices cut from  *)
(* executable pages, for a short branch from a page near the function.     *)
(* Addresses count halfwords, so that the 4 bytes a slice is aligned to    *)
(* are 2.  page->used_size is pos - base and page->size is end - base in   *)
(* every page the code makes; both are unsigned.  A slice is never given   *)
(* back.                                                                   *)
(***************************************************************************)
EXTENDS Naturals, Sequences

CONSTANTS
  PageSize,
  Bases,      \* where the system may map a page
  Sizes,      \* halfwords a trampoline takes
  Functions,  \* functions that are hooked with a short branch
  Reach,      \* halfwords the short branch spans
  MaxSlices   \* bounds the run

ASSUME SlicesAssumption ==
  /\ PageSize \in Nat \ {0} /\ PageSize % 2 = 0
  /\ \A b \in Bases : b \in Nat /\ b % 2 = 0
  /\ \A b, c \in Bases : b < c => b + PageSize <= c
  /\ \A n \in Sizes : n \in Nat \ {0} /\ n <= PageSize
  /\ Reach \in Nat \ {0}
  /\ \A a \in Functions : a \in Nat /\ a >= Reach
  /\ MaxSlices \in Nat

VARIABLES
  pages,     \* allocator->memory_pages
  slices,    \* the slices cut so far
  straddled, \* a page was used because the branch's span ends inside it
  wrapped    \* a page was used whose position had been aligned past its end

vars == <<pages, slices, straddled, wrapped>>

Low(a) == a - Reach
High(a) == a + Reach

PageAt(b, e) == [base |-> b, pos |-> b, end |-> e]

SliceOf(p, n) == [at |-> p.pos, size |-> n]
Bump(p, n) == [p EXCEPT !.pos = @ + n]
Cut(p, n) == slices' = Append(slices, SliceOf(p, n))

(* page->size - page->used_size, compared as an unsigned number.           *)
Exceeds(p, n) == p.end - p.pos > n \/ p.pos > p.end
Short(p, n) == p.pos <= p.end /\ p.end - p.pos < n

Init == pages = <<>> /\ slices = <<>> /\ straddled = FALSE /\ wrapped = FALSE

Align(p) == [p EXCEPT !.pos = @ + (@ % 2)]

Unmapped ==
  {b \in Bases : \A i \in DOMAIN pages : pages[i].end <= b \/ pages[i].base >= b + PageSize}

(* The first page with more than n halfwords left; every page passed on    *)
(* the way is aligned as well.                                             *)
Fits(n) == {i \in DOMAIN pages : Exceeds(Align(pages[i]), n)}
First(S) == CHOOSE i \in S : \A j \in S : i <= j

FromPage(n) ==
  /\ Fits(n) # {}
  /\ LET k == First(Fits(n)) IN
       /\ wrapped' = (wrapped \/ Align(pages[k]).pos > pages[k].end)
       /\ Cut(Align(pages[k]), n)
       /\ pages' = [i \in DOMAIN pages |->
                      IF i > k THEN pages[i]
                      ELSE IF i = k THEN Bump(Align(pages[i]), n) ELSE Align(pages[i])]

FromNewPage(n) ==
  /\ Fits(n) = {} /\ UNCHANGED wrapped
  /\ \E b \in Unmapped :
       LET p == PageAt(b, b + PageSize) IN
         /\ Cut(p, n)
         /\ pages' = Append([i \in DOMAIN pages |-> Align(pages[i])], Bump(p, n))

(* ZzNewCodeSlice.                                                         *)
NewCodeSlice(n) == (FromPage(n) \/ FromNewPage(n)) /\ UNCHANGED straddled

(* Mutant: a page far below is taken for a near one.                       *)
FromBelowAnywhere(p, a, n) == p.pos < a /\ ~Short(p, n)

(* What ZzNewNearCodeSlice makes of page p: its next position is in reach  *)
(* from below or from above, only its later part is in reach, or the span  *)
(* ends inside it, where the test of the space left is the wrong way       *)
(* round.                                                                  *)
FromBelow(p, a, n) == p.pos < a /\ Low(a) < p.pos /\ ~Short(p, n)
UpperPart(p, a, n) ==
  /\ p.pos < a /\ Low(a) > p.pos /\ Low(a) < p.end
  /\ p.end - Low(a) >= n
FromAbove(p, a, n) == p.pos >= a /\ High(a) > p.end /\ ~Short(p, n)
Straddles(p, a, n) ==
  /\ p.pos >= a /\ High(a) > p.pos /\ High(a) < p.end
  /\ High(a) - p.pos <= n

Near(a, n) ==
  {i \in DOMAIN pages :
     \/ FromBelow(pages[i], a, n) \/ UpperPart(pages[i], a, n)
     \/ FromAbove(pages[i], a, n) \/ Straddles(pages[i], a, n)}

(* Mutant: the page keeps its end when its upper part is split off.        *)
SplitKeepEnd(k, a, n) ==
  LET p == PageAt(Low(a), pages[k].end) IN
    /\ Cut(p, n)
    /\ pages' = Append(pages, Bump(p, n))

Split(k, a, n) ==
  LET p == PageAt(Low(a), pages[k].end) IN
    /\ Cut(p, n)
    /\ pages' = Append([pages EXCEPT ![k].end = Low(a)], Bump(p, n))

(* ZzNewNearCodeSlice, when a page serves it.  Without one the code looks  *)
(* for zero bytes in a library near the function or gives up, and changes  *)
(* no page.                                                                *)
NewNearCodeSlice(a, n) ==
  /\ Near(a, n) # {} /\ UNCHANGED wrapped
  /\ LET k == First(Near(a, n)) IN
       /\ straddled' = (straddled \/ Straddles(pages[k], a, n))
       /\ IF UpperPart(pages[k], a, n) THEN Split(k, a, n)
          ELSE Cut(pages[k], n) /\ pages' = [pages EXCEPT ![k] = Bump(@, n)]

Next ==
  /\ Len(slices) < MaxSlices
  /\ \/ \E n \in Sizes : NewCodeSlice(n)
     \/ \E a \in Functions, n \in Sizes : NewNearCodeSlice(a, n)

Spec == Init /\ [][Next]_vars
-------------------------------------------------------------------------------
TypeOK ==
  /\ \A i \in DOMAIN pages : pages[i].base \in Nat /\ pages[i].pos \in Nat /\ pages[i].end \in Nat
  /\ \A i \in DOMAIN slices : slices[i].at \in Nat /\ slices[i].size \in Sizes
  /\ straddled \in BOOLEAN /\ wrapped \in BOOLEAN

Disjoint(s, t) == s.at + s.size <= t.at \/ t.at + t.size <= s.at

(* "3. the rest memory of this page is enough for code_slice_size": what a *)
(* trampoline is written to is the page's own memory.                      *)
EnoughRoom ==
  \A i \in DOMAIN slices : \E b \in Bases :
    b <= slices[i].at /\ slices[i].at + slices[i].size <= b + PageSize

(* A trampoline is never written over another one: memory a hooked         *)
(* function jumps into stays what it was.                                  *)
NoOverlap == \A i, j \in DOMAIN slices : i < j => Disjoint(slices[i], slices[j])

(* Neither can fail but through the branch whose test is the wrong way     *)
(* round, or after a split at an odd halfword: the alignment then moves a  *)
(* full page past its end, where the unsigned difference passes the test.  *)
SoundUnlessMistested == ~straddled /\ ~wrapped => EnoughRoom /\ NoOverlap

(* Every slice cut for a function is where the branch reaches it, but from *)
(* a page whose position has been aligned past its end.                    *)
InReach ==
  [][\A a \in Functions, n \in Sizes : NewNearCodeSlice(a, n) /\ ~straddled /\ ~wrapped =>
       LET at == slices'[Len(slices')].at IN Low(a) <= at /\ at <= High(a)]_vars
=============================================================================
