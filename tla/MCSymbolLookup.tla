--------------------------- MODULE MCSymbolLookup ---------------------------
(* Up to four symbols; a and b differ only in the bit of the hash that the *)
(* GNU chain uses as its end mark, a and c collide in bucket and filter.   *)
EXTENDS SymbolLookup

CONSTANTS a, b, c, d

MCNames == {a, b, c, d}
MCHash == [nm \in MCNames |-> CASE nm = a -> 4 [] nm = b -> 5 [] nm = c -> 20 [] nm = d -> 10]
=============================================================================
