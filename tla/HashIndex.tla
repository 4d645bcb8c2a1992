------------------------------ MODULE HashIndex ------------------------------
(***************************************************************************)
(* idHashIndex of common/HashIndex.h and HashIndex.cpp: the indices of an  *)
(* array's items, chained by the hash of their keys.  hash[] holds the     *)
(* first index of each bucket and indexChain[], which is parallel to the   *)
(* array, the index behind each index.  Nothing is allocated before the    *)
(* first Add; until then lookupMask is 0 and both arrays are the one cell  *)
(* INVALID_INDEX.  InsertIndex and RemoveIndex renumber every index that   *)
(* is behind the item in the array, stale ones of an earlier use too.      *)
(***************************************************************************)
EXTENDS Integers, FiniteSets, FiniteSetsExt, Sequences

CONSTANTS
  Tables,           \* the idHashIndex objects
  Others,           \* those of them that are only filled and copied from
  StartSizes,       \* initialHashSize and initialIndexSize
  NewSizes,         \* what Clear resizes to: pairs of the two sizes
  IndexKeys,        \* the keys that callers come with
  MaxIndex,         \* bound: the largest index of the array
  MaxIndexSize,     \* bound: how long indexChain gets
  GRANULARITY,      \* DEFAULT_HASH_GRANULARITY
  INVALID_INDEX     \* where an array points that is not allocated

Sizes == {StartSizes} \cup NewSizes

ASSUME SizesAssumption ==
  /\ \A s \in Sizes : s \in (Nat \ {0}) \X Nat /\ INVALID_INDEX \notin [0 .. s[1] - 1 -> Int]
  /\ GRANULARITY \in Nat \ {0}
ASSUME CallsAssumption == Others \subseteq Tables /\ IndexKeys \subseteq Nat /\ MaxIndex \in Nat

VARIABLE table   \* per object: its members

indexVars == <<table>>

Mask(key, hashMask) == key % (hashMask + 1)   \* masks are powers of two, less one
Cells(size) == [i \in 0 .. size - 1 |-> -1]

Unallocated(sizes, hashMask) ==
  [hashSize |-> sizes[1], hash |-> INVALID_INDEX, indexSize |-> sizes[2],
   indexChain |-> INVALID_INDEX, hashMask |-> hashMask, lookupMask |-> 0]

IndexInit == table = [t \in Tables |-> Unallocated(StartSizes, StartSizes[1] - 1)]

IsAllocated(x) == x.hash # INVALID_INDEX

\* A slip: the mask stays that of the size before.
AllocateOldMask(x, newIndexSize) ==
  [x EXCEPT !.hash = Cells(x.hashSize), !.indexSize = newIndexSize,
            !.indexChain = Cells(newIndexSize), !.lookupMask = -1]

Allocate(x, newIndexSize) ==
  [x EXCEPT !.hash = Cells(x.hashSize), !.indexSize = newIndexSize,
            !.indexChain = Cells(newIndexSize), !.hashMask = x.hashSize - 1, !.lookupMask = -1]

RoundedUp(n) == LET mod == n % GRANULARITY IN IF mod = 0 THEN n ELSE n + GRANULARITY - mod

ResizeIndex(x, newIndexSize) ==
  IF newIndexSize <= x.indexSize THEN x
  ELSE [x EXCEPT !.indexSize = RoundedUp(newIndexSize),
                 !.indexChain = [i \in 0 .. RoundedUp(newIndexSize) - 1 |->
                                   IF i < x.indexSize THEN x.indexChain[i] ELSE -1]]

\* What Add finds or makes room in.
WithRoom(x, index) ==
  IF ~IsAllocated(x) THEN Allocate(x, IF index >= x.indexSize THEN index + 1 ELSE x.indexSize)
  ELSE ResizeIndex(x, index + 1)

Linked(x, h, index) ==
  [x EXCEPT !.indexChain[index] = x.hash[h], !.hash[h] = index]
AddTo(x, key, index) ==
  LET y == WithRoom(x, index) IN Linked(y, Mask(key, y.hashMask), index)

\* The walk along indexChain from an index, to its end or as far as the array is long.
Walk(x, first) ==
  LET walk[n \in 0 .. x.indexSize] ==
        [i \in -1 .. x.indexSize - 1 |->
          IF n = 0 \/ i = -1 THEN <<>> ELSE <<i>> \o walk[n - 1][x.indexChain[i]]]
  IN walk[x.indexSize][first]

RemoveFrom(x, key, index) ==
  IF ~IsAllocated(x) THEN x
  ELSE LET k == Mask(key, x.hashMask)
           chain == Walk(x, x.hash[k])
           isBefore(i) == i \in {chain[n] : n \in DOMAIN chain} /\ x.indexChain[i] = index
       IN [x EXCEPT
             !.hash[k] = IF @ = index THEN x.indexChain[index] ELSE @,
             !.indexChain = [i \in DOMAIN @ |->
               IF i = index THEN -1
               ELSE IF x.hash[k] # index /\ isBefore(i) THEN @[index] ELSE @[i]]]

\* The indices that an array names.
Named(x) == {x.hash[b] : b \in DOMAIN x.hash} \cup {x.indexChain[i] : i \in DOMAIN x.indexChain}

\* What it names from index on, moved by so many.
MovedFrom(x, index, by) ==
  LET Where(i) == IF i >= index THEN i + by ELSE i
  IN [x EXCEPT !.hash = [b \in DOMAIN @ |-> Where(@[b])],
               !.indexChain = [i \in DOMAIN @ |-> Where(@[i])]]

\* InsertIndex: indices from index on go up by one, the chain moves along with them, and
\* the new index is added.
Raised(x, index) == MovedFrom(x, index, 1)
Shifted(x, index) ==
  LET max == Max(Named(x) \cup {index})
      y == IF max >= x.indexSize THEN ResizeIndex(x, max + 1) ELSE x
  IN [y EXCEPT !.indexChain = [i \in DOMAIN @ |->
        IF i = index THEN -1 ELSE IF i \in index + 1 .. max THEN @[i - 1] ELSE @[i]]]
InsertInto(x, key, index) ==
  AddTo(IF IsAllocated(x) THEN Shifted(Raised(x, index), index) ELSE x, key, index)

\* RemoveIndex: the other way round.
TakeOut(x, index) ==
  LET max == Max(Named(x) \cup {index})
      y == MovedFrom(x, index, -1)
  IN [y EXCEPT !.indexChain = [i \in DOMAIN @ |->
        IF i = max THEN -1 ELSE IF i \in index .. max - 1 THEN @[i + 1] ELSE @[i]]]
RemoveIndexFrom(x, key, index) ==
  LET y == RemoveFrom(x, key, index) IN IF IsAllocated(y) THEN TakeOut(y, index) ELSE y

\* First and Next: the list that a caller sees under a key.
First(x, key) == IF x.lookupMask = 0 THEN -1 ELSE x.hash[Mask(key, x.hashMask)]
ListUnder(x, key) == IF First(x, key) = -1 THEN <<>> ELSE Walk(x, First(x, key))
IndicesUnder(x, key) == LET list == ListUnder(x, key) IN {list[n] : n \in DOMAIN list}
Indices(t) == UNION {IndicesUnder(table[t], k) : k \in 0 .. table[t].hashSize - 1}

------------------------------------------------------------------------------
Becomes(t, x) == x.indexSize <= MaxIndexSize /\ table' = [table EXCEPT ![t] = x]

\* "assumes the index has not yet been added to the hash"
Add(t, key, index) == index \notin Indices(t) /\ Becomes(t, AddTo(table[t], key, index))

\* An index is taken out under the key that it was put in under.
Remove(t, key, index) ==
  /\ index \in IndicesUnder(table[t], key)
  /\ Becomes(t, RemoveFrom(table[t], key, index))
RemoveIndex(t, key, index) ==
  /\ index \in IndicesUnder(table[t], key)
  /\ Becomes(t, RemoveIndexFrom(table[t], key, index))

\* The array has room for one more.
InsertIndex(t, key, index) ==
  /\ MaxIndex \notin Indices(t)
  /\ Becomes(t, InsertInto(table[t], key, index))

\* Only hash[] is cleared.
Clear(t) ==
  /\ IsAllocated(table[t])
  /\ Becomes(t, [table[t] EXCEPT !.hash = Cells(table[t].hashSize)])

\* Clear with sizes frees both arrays; hashMask is left as it was.
ClearAndResize(t, sizes) == Becomes(t, Unallocated(sizes, table[t].hashMask))

\* operator= copies both arrays and every other member.
CopyFrom(t, other) == t # other /\ Becomes(t, table[other])

\* Another table is filled while the ones that are worked on are not.
FillOther(t, key) ==
  /\ \A w \in Tables \ Others : ~IsAllocated(table[w])
  /\ Cardinality(Indices(t)) < MaxIndex
  /\ Add(t, key, Cardinality(Indices(t)))

IndexNext ==
  \/ \E t \in Others, key \in IndexKeys : FillOther(t, key)
  \/ \E t \in Tables \ Others :
      \/ \E key \in IndexKeys, index \in 0 .. MaxIndex :
           \/ Add(t, key, index)
           \/ Remove(t, key, index)
           \/ InsertIndex(t, key, index)
           \/ RemoveIndex(t, key, index)
      \/ Clear(t)
      \/ \E sizes \in NewSizes : ClearAndResize(t, sizes)
      \/ \E other \in Tables : CopyFrom(t, other)

------------------------------------------------------------------------------
\* The lists that callers see.
ListsOf(x) == [b \in 0 .. x.hashSize - 1 |-> ListUnder(x, b)]
Lists == INSTANCE KeyedLists
           WITH Items <- 0 .. MaxIndex, Sizes <- {s[1] : s \in Sizes},
                lists <- [t \in Tables |-> ListsOf(table[t])]

\* The chains are lists of the array's places, whatever is put into the array and taken
\* out of it, before and after an allocation, a growth, a clearing and a copy: no index is
\* lost, doubled or moved to another bucket, and the newest comes first (Add, Remove,
\* InsertIndex, RemoveIndex, Clear and operator= against First and Next).
ImplementsLists == Lists!ListsSpec
==============================================================================
