----------------------------- MODULE SymbolLookup -----------------------------
(***************************************************************************)
(* find_symbol_by_name of elf_module.cpp, which gives the GOT hook the     *)
(* index its relocations must carry: gnu_lookup with its fallback to the   *)
(* symbols in front of the hash table, or elf_lookup.  The tables are the  *)
(* ones a linker can produce; a hash is any function of the name.          *)
(***************************************************************************)
EXTENDS Naturals

CONSTANTS
  N,        \* symbols are 0 .. N; symbol 0 has no name
  Names,    \* names of symbols and of hooked functions
  Hash,     \* hash of a name
  Buckets,  \* nbucket
  Word,     \* bits of a word of the bloom filter
  Words,    \* words of the bloom filter
  Shift,    \* 2 ^ shift2
  NoName, None

ASSUME LookupAssumption ==
  /\ N \in Nat /\ {Buckets, Word, Words, Shift} \subseteq Nat \ {0}
  /\ Hash \in [Names -> Nat]
  /\ NoName \notin Names /\ None \notin Nat

VARIABLES
  name,    \* name of every symbol
  order,   \* place of a symbol in the chains of a DT_HASH table
  symndx,  \* first symbol of the DT_GNU_HASH table
  symbol,  \* the name looked for
  pc,      \* which table, and where in the code
  i,       \* symbol the loops look at
  found    \* *symidx, None while *sym is NULL

tables == <<name, order, symndx, symbol>>
lookupVars == <<tables, pc, i, found>>

Symbols == 0 .. N
Bucket(nm) == Hash[nm] % Buckets
InBucket(b) == {k \in Symbols : k >= symndx /\ Bucket(name[k]) = b}
-----------------------------------------------------------------------------
(* DT_GNU_HASH: the symbols from symndx on are sorted by bucket; the chain *)
(* of a bucket ends at its last symbol; the filter has two bits per name.  *)
Sorted == \A k, l \in symndx .. N : k < l => Bucket(name[k]) <= Bucket(name[l])
Bits(nm) == LET w == (Hash[nm] \div Word) % Words
            IN {<<w, Hash[nm] % Word>>, <<w, (Hash[nm] \div Shift) % Word>>}
Bloom == UNION {Bits(name[k]) : k \in symndx .. N}
First(b) == IF InBucket(b) = {} THEN 0
            ELSE CHOOSE k \in InBucket(b) : \A l \in InBucket(b) : k <= l
Last(k) == k + 1 \notin InBucket(Bucket(name[k]))
Tag(nm) == Hash[nm] \div 2

(* DT_HASH: every bucket is a list of all its symbols, in any order.       *)
After(b, k) == {l \in 1 .. N : Bucket(name[l]) = b /\ (k # 0 => order[k] < order[l])}
Following(b, k) ==
  IF After(b, k) = {} THEN 0
  ELSE CHOOSE l \in After(b, k) : \A j \in After(b, k) : order[l] <= order[j]
Chain(k) == IF k = 0 THEN 0 ELSE Following(Bucket(name[k]), k)

LookupInit ==
  /\ name \in {nm \in [Symbols -> Names \cup {NoName}] : \A k \in Symbols : nm[k] = NoName <=> k = 0}
  /\ order \in {o \in [1 .. N -> 1 .. N] : \A k, l \in 1 .. N : o[k] = o[l] => k = l}
  /\ symndx \in 1 .. N + 1
  /\ symbol \in Names
  /\ pc \in {"gnu", "sysv"}
  /\ pc = "gnu" => Sorted /\ \A k \in 1 .. N : order[k] = k
  /\ pc = "sysv" => symndx = 1
  /\ i = 0 /\ found = None
-----------------------------------------------------------------------------
(* gnu_lookup, up to the bucket: a name without its two bits is absent.    *)
GnuStart ==
  /\ pc = "gnu"
  /\ IF Bits(symbol) \subseteq Bloom /\ First(Bucket(symbol)) # 0
     THEN pc' = "chain" /\ i' = First(Bucket(symbol))
     ELSE pc' = "linear" /\ i' = 0
  /\ UNCHANGED <<tables, found>>

GnuNext ==
  /\ pc = "chain"
  /\ IF Tag(name[i]) = Tag(symbol) /\ name[i] = symbol
     THEN pc' = "done" /\ found' = i /\ UNCHANGED i
     ELSE /\ found' = found
          /\ IF Last(i) THEN pc' = "linear" /\ i' = 0
             ELSE pc' = pc /\ i' = i + 1
  /\ UNCHANGED tables

(* find_symbol_by_name: the symbols in front of the hash table, which are  *)
(* the undefined ones a module imports; the last match is kept.            *)
Linear ==
  /\ pc = "linear"
  /\ IF i < symndx
     THEN /\ found' = IF name[i] = symbol THEN i ELSE found
          /\ i' = i + 1 /\ pc' = pc
     ELSE pc' = "done" /\ UNCHANGED <<i, found>>
  /\ UNCHANGED tables

(* elf_lookup: the head of the bucket ...                                  *)
SysvStart ==
  LET k == Following(Bucket(symbol), 0) IN
  /\ pc = "sysv"
  /\ i' = k
  /\ IF name[k] = symbol THEN pc' = "done" /\ found' = k
     ELSE pc' = "walk" /\ found' = found
  /\ UNCHANGED tables

(* Mutant: the walk ends in front of symbol 0, before it is compared.      *)
SysvNextWhile ==
  LET k == Chain(i) IN
  /\ pc = "walk"
  /\ i' = k
  /\ IF Chain(k) = 0 THEN pc' = "done" /\ found' = found
     ELSE IF name[k] = symbol THEN pc' = "done" /\ found' = k
     ELSE pc' = pc /\ found' = found
  /\ UNCHANGED tables

(* ... then its chain, until symbol 0 has been compared.                   *)
SysvNext ==
  LET k == Chain(i) IN
  /\ pc = "walk"
  /\ i' = k
  /\ IF name[k] = symbol THEN pc' = "done" /\ found' = k
     ELSE /\ found' = found
          /\ pc' = IF k = 0 THEN "done" ELSE pc
  /\ UNCHANGED tables

LookupNext == GnuStart \/ GnuNext \/ Linear \/ SysvStart \/ SysvNext

LookupSpec == LookupInit /\ [][LookupNext]_lookupVars /\ WF_lookupVars(LookupNext)
-----------------------------------------------------------------------------
(* Type invariant; the loops read no symbol outside the table.             *)
LookupTypeOK ==
  /\ pc \in {"gnu", "sysv", "chain", "linear", "walk", "done"}
  /\ pc = "chain" => i \in symndx .. N
  /\ pc = "walk" => i \in Symbols
  /\ pc = "linear" => i \in 0 .. symndx
  /\ found \in Symbols \cup {None}

(* An answer is a symbol of that name; that there is none is answered only *)
(* when no symbol has it.                                                  *)
Right == IF found = None THEN \A k \in Symbols : name[k] # symbol
                         ELSE name[found] = symbol
RightWhenDone == pc = "done" => Right

(* find_symbol_by_name ends with the right answer, whatever the tables and *)
(* the chains in them are.                                                 *)
FindsSymbol == <>(pc = "done" /\ Right)
=============================================================================
