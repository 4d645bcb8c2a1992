---------------------------- MODULE ArraysProofs ----------------------------
(***************************************************************************)
(* What the calls of Array leave is what was meant, for any number of      *)
(* arrays, elements and addresses and any length.  The calls come down to  *)
(* three changes, each with a lemma: an array takes a fresh block          *)
(* (GetsBlock), changes what is in its own (ChangesBlock) or is left       *)
(* without one (LosesBlock); and one that has lent its block (LendKeeps).  *)
(***************************************************************************)
EXTENDS Arrays, TLAPS

\* The inductive invariant.  An array whose pointer was taken has lent its block.
ArrayInv ==
  /\ ArrayTypeOK /\ ArraysAsMeant
  /\ memory = [p \in DOMAIN memory |-> memory[p]]
  /\ \A a \in live : ~object[a].free_when_destroyed => object[a].data \in lent \cup {NULL}

Objects == [data : Blocks \cup {NULL}, used : Nat, allocated : Nat, free_when_destroyed : BOOLEAN]
Contents(n) == [0 .. n - 1 -> Elements \cup {Uninit}]
Texts == Seq(Elements \cup {AnyElement})

\* An array whose object is left alone holds what it held, when the memory that changes
\* is not its own.
LEMMA OthersHold ==
  ASSUME ArrayInv, NEW b \in live, NEW m,
         object[b].data # NULL => /\ object[b].data \in DOMAIN m
                                  /\ m[object[b].data] = memory[object[b].data]
  PROVE  ElementsHeld(object[b], m, meant[b])
<1>1. ElementsHeld(object[b], memory, meant[b]) /\ object[b] \in Objects /\ meant[b] \in Texts
  BY DEF ArrayInv, ArraysAsMeant, ArrayTypeOK, Objects, Texts
<1>2. CASE object[b].data # NULL
  BY <1>1, <1>2 DEF Item, ElementsHeld
<1>3. CASE object[b].data = NULL
  <2>1. Len(meant[b]) = 0
    BY <1>1, <1>3 DEF Item, ElementsHeld, Objects, Texts
  <2>. QED BY <1>1, <1>3, <2>1 DEF Item, ElementsHeld
<1>. QED BY <1>2, <1>3

\* An array, a new one or one that had a block of its own, gets a fresh block and
\* contents in place of it.
LEMMA GetsBlock ==
  ASSUME ArrayInv, NEW a \in Arrays, NEW old \in Blocks \cup {NULL}, NEW p \in FreeBlocks(Deleted(old)),
         NEW o \in Objects, NEW content \in Contents(o.allocated), NEW s \in Texts,
         \/ a \notin live /\ old = NULL
         \/ a \in live /\ old = object[a].data /\ object[a].free_when_destroyed,
         o.data = p, o.used = Len(s), o.used <= o.allocated, o.free_when_destroyed,
         \A i \in 1 .. Len(s) : s[i] # AnyElement => content[i - 1] = s[i],
         live' = live \cup {a}, object' = [object EXCEPT ![a] = o],
         memory' = With(Deleted(old), p, content), meant' = [meant EXCEPT ![a] = s],
         lent' = lent, arrayCalls' \in Nat
  PROVE  ArrayInv'
<1>. USE ArraysAssumption
<1>1. ArrayTypeOK /\ ArraysAsMeant /\ EachBlockHasOwner
  BY DEF ArrayInv, ArraysAsMeant
<1>2. /\ DOMAIN memory' = (DOMAIN memory \ {old}) \cup {p}
      /\ memory'[p] = content
      /\ \A q \in DOMAIN memory \ {old, p} : memory'[q] = memory[q]
      /\ p \in Blocks /\ p # NULL /\ p \notin DOMAIN memory \ {old}
  BY DEF With, Deleted, FreeBlocks
<1>3. /\ object'[a] = o /\ meant'[a] = s
      /\ \A b \in Arrays \ {a} : object'[b] = object[b] /\ meant'[b] = meant[b]
  BY <1>1 DEF ArrayTypeOK
<1>4. old # NULL => old \in DOMAIN memory /\ old \notin lent
  BY <1>1 DEF EachBlockHasOwner
<1>5. \A b \in live \ {a} : object[b].data # NULL => object[b].data \in DOMAIN memory \ {old}
  BY <1>1 DEF EachBlockHasOwner, ArrayTypeOK
<1>6. ArrayTypeOK'
  <2>1. live' \subseteq Arrays /\ object' \in [Arrays -> Objects] /\ lent' \subseteq Blocks
        /\ meant' \in [Arrays -> Texts] /\ DOMAIN memory' \subseteq Blocks
    BY <1>1, <1>2 DEF ArrayTypeOK, Objects, Texts
  <2>2. ASSUME NEW q \in DOMAIN memory' PROVE memory'[q] \in [DOMAIN memory'[q] -> Elements \cup {Uninit}]
    <3>1. CASE q = p
      BY <3>1, <1>2 DEF Contents
    <3>2. CASE q # p
      BY <3>2, <1>2, <1>1 DEF ArrayTypeOK
    <3>. QED BY <3>1, <3>2
  <2>. QED BY <2>1, <2>2 DEF ArrayTypeOK, Objects, Texts
<1>7. ASSUME NEW b \in live' PROVE ElementsHeld(object'[b], memory', meant'[b])
  <2>1. CASE b = a
    <3>1. o.data = p /\ p # NULL /\ p \in DOMAIN memory' /\ memory'[p] = content
          /\ DOMAIN content = 0 .. o.allocated - 1
      BY <1>2 DEF Contents
    <3>2. ElementsHeld(o, memory', s)
      BY <3>1 DEF Item, ElementsHeld
    <3>. QED BY <3>2, <2>1, <1>3
  <2>2. CASE b # a
    <3>1. b \in live /\ b \in Arrays
      BY <2>2, <1>1 DEF ArrayTypeOK
    <3>2. object[b].data # NULL => object[b].data \in DOMAIN memory' /\ memory'[object[b].data] = memory[object[b].data]
      BY <3>1, <2>2, <1>5, <1>2
    <3>. QED BY <3>1, <3>2, <2>2, <1>3, OthersHold
  <2>. QED BY <2>1, <2>2
<1>8. EachBlockHasOwner'
  <2>1. ASSUME NEW b \in live', NEW c \in live', b # c, object'[b].data # NULL
        PROVE  object'[b].data # object'[c].data
    BY <2>1, <1>1, <1>2, <1>3, <1>5 DEF EachBlockHasOwner, ArrayTypeOK
  <2>2. ASSUME NEW b \in live', object'[b].data \in lent' PROVE ~object'[b].free_when_destroyed
    BY <2>2, <1>1, <1>2, <1>3, <1>4 DEF EachBlockHasOwner, ArrayTypeOK
  <2>3. DOMAIN memory' = ({object'[b].data : b \in live'} \ {NULL}) \cup lent'
    <3>1. {object'[b].data : b \in live'} = {object[b].data : b \in live \ {a}} \cup {p}
      BY <1>1, <1>3 DEF ArrayTypeOK
    <3>2. DOMAIN memory \ {old} = ({object[b].data : b \in live \ {a}} \ {NULL}) \cup lent
      BY <1>1, <1>4, <1>5 DEF EachBlockHasOwner, ArrayTypeOK
    <3>. QED BY <3>1, <3>2, <1>2
  <2>. QED BY <2>1, <2>2, <2>3 DEF EachBlockHasOwner
<1>9. \A b \in live' : ~object'[b].free_when_destroyed => object'[b].data \in lent' \cup {NULL}
  BY <1>1, <1>3 DEF ArrayInv, ArrayTypeOK
<1>10. memory' = [q \in DOMAIN memory' |-> memory'[q]]
  BY DEF With
<1>. QED BY <1>6, <1>7, <1>8, <1>9, <1>10 DEF ArrayInv, ArraysAsMeant

\* What a call that stays in the block has to do: the block gets other contents, and the
\* array counts another number of them.
ChangesItems(a, q, n, content, s) ==
  /\ n \in Nat /\ s \in Texts /\ n = Len(s) /\ n <= q.allocated
  /\ q.data # NULL => content \in Contents(q.allocated)
  /\ \A i \in 1 .. Len(s) : s[i] # AnyElement => content[i - 1] = s[i]
  /\ object' = [object EXCEPT ![a].used = n]
  /\ memory' = [memory EXCEPT ![q.data] = content]
  /\ meant' = [meant EXCEPT ![a] = s]
  /\ live' = live /\ lent' = lent /\ arrayCalls' \in Nat

\* Such a call keeps the invariant.
LEMMA ChangesBlock ==
  ASSUME ArrayInv, NEW a \in live, object[a].free_when_destroyed,
         NEW n, NEW content, NEW s, ChangesItems(a, object[a], n, content, s)
  PROVE  ArrayInv'
<1>. USE ArraysAssumption DEF ChangesItems
<1>1. ArrayTypeOK /\ ArraysAsMeant /\ EachBlockHasOwner /\ a \in Arrays /\ object[a] \in Objects
  BY DEF ArrayInv, ArraysAsMeant, ArrayTypeOK, Objects
<1>2. PICK own \in Blocks \cup {NULL} : own = object[a].data
  BY <1>1 DEF Objects
<1>3. PICK o \in Objects : o = [object[a] EXCEPT !.used = n]
  BY <1>1 DEF Objects
<1>4. /\ o.used = n /\ o.data = own /\ o.allocated = object[a].allocated /\ o.free_when_destroyed
  BY <1>1, <1>2, <1>3 DEF Objects
<1>5. /\ object' = [object EXCEPT ![a] = o] /\ object'[a] = o /\ meant'[a] = s
      /\ \A b \in Arrays \ {a} : object'[b] = object[b] /\ meant'[b] = meant[b]
      /\ \A b \in Arrays : object'[b].data = object[b].data
                          /\ object'[b].free_when_destroyed = object[b].free_when_destroyed
  BY <1>1, <1>2, <1>3, <1>4 DEF ArrayTypeOK
<1>6. /\ DOMAIN memory' = DOMAIN memory
      /\ own # NULL => own \in DOMAIN memory /\ memory'[own] = content
      /\ \A q \in DOMAIN memory \ {own} : memory'[q] = memory[q]
  BY <1>1, <1>2 DEF EachBlockHasOwner
<1>7. ArrayTypeOK'
  <2>1. object' \in [Arrays -> Objects] /\ meant' \in [Arrays -> Texts]
    BY <1>1, <1>5 DEF ArrayTypeOK, Objects, Texts
  <2>2. ASSUME NEW q \in DOMAIN memory' PROVE memory'[q] \in [DOMAIN memory'[q] -> Elements \cup {Uninit}]
    <3>1. CASE q = own
      <4>1. own # NULL /\ memory'[q] \in Contents(object[a].allocated)
        BY <3>1, <1>2, <1>6, <1>1 DEF ArrayTypeOK
      <4>. QED BY <4>1 DEF Contents
    <3>2. CASE q # own
      BY <3>2, <1>6, <1>1 DEF ArrayTypeOK
    <3>. QED BY <3>1, <3>2
  <2>. QED BY <2>1, <2>2, <1>1, <1>6 DEF ArrayTypeOK, Objects, Texts
<1>8. ASSUME NEW b \in live' PROVE ElementsHeld(object'[b], memory', meant'[b])
  <2>1. CASE b = a
    <3>1. own # NULL => own \in DOMAIN memory' /\ DOMAIN memory'[own] = 0 .. o.allocated - 1
      BY <1>2, <1>4, <1>6 DEF Contents
    <3>2. CASE own # NULL
      <4>1. ElementsHeld(o, memory', s)
        BY <3>1, <3>2, <1>2, <1>4, <1>6 DEF Item, ElementsHeld
      <4>. QED BY <4>1, <2>1, <1>5
    <3>3. CASE own = NULL
      <4>1. o.allocated = 0
        BY <3>3, <1>1, <1>2, <1>4 DEF ArraysAsMeant, ElementsHeld
      <4>2. Len(s) = 0
        BY <4>1, <1>4 DEF Texts
      <4>3. ElementsHeld(o, memory', s)
        BY <4>1, <4>2, <3>3, <1>4 DEF Item, ElementsHeld
      <4>. QED BY <4>3, <2>1, <1>5
    <3>. QED BY <3>2, <3>3
  <2>2. CASE b # a
    <3>1. b \in live /\ b \in Arrays
      BY <1>1 DEF ArrayTypeOK
    <3>2. object[b].data # NULL => object[b].data \in DOMAIN memory' /\ memory'[object[b].data] = memory[object[b].data]
      BY <3>1, <2>2, <1>1, <1>2, <1>6 DEF EachBlockHasOwner
    <3>. QED BY <3>1, <3>2, <2>2, <1>5, OthersHold
  <2>. QED BY <2>1, <2>2
<1>9. EachBlockHasOwner'
  <2>1. {object'[b].data : b \in live'} = {object[b].data : b \in live}
    BY <1>1, <1>5 DEF ArrayTypeOK
  <2>2. \A b, c \in live' : b # c /\ object'[b].data # NULL => object'[b].data # object'[c].data
    BY <1>1, <1>5 DEF ArrayTypeOK, EachBlockHasOwner
  <2>3. \A b \in live' : object'[b].data \in lent' => ~object'[b].free_when_destroyed
    BY <1>1, <1>5 DEF ArrayTypeOK, EachBlockHasOwner
  <2>. QED BY <2>1, <2>2, <2>3, <1>1, <1>6 DEF EachBlockHasOwner
<1>10. \A b \in live' : ~object'[b].free_when_destroyed => object'[b].data \in lent' \cup {NULL}
  BY <1>1, <1>5 DEF ArrayInv, ArrayTypeOK
<1>11. memory' = [q \in DOMAIN memory' |-> memory'[q]]
  OBVIOUS
<1>. QED BY <1>7, <1>8, <1>9, <1>10, <1>11 DEF ArrayInv, ArraysAsMeant

\* An array becomes one without a block: because it is cleared, because it is gone, or
\* because it is new.
LEMMA LosesBlock ==
  ASSUME ArrayInv, NEW a \in Arrays, NEW old \in Blocks \cup {NULL},
         old # NULL => a \in live /\ old = object[a].data /\ object[a].free_when_destroyed,
         a \in live => old = object[a].data \/ object[a].data \in lent \cup {NULL},
         object' = [object EXCEPT ![a] = Constructed], memory' = Deleted(old),
         meant' = [meant EXCEPT ![a] = <<>>],
         live' = live \cup {a} \/ live' = live \ {a}, lent' = lent, arrayCalls' \in Nat
  PROVE  ArrayInv'
<1>. USE ArraysAssumption
<1>1. ArrayTypeOK /\ ArraysAsMeant /\ EachBlockHasOwner
  BY DEF ArrayInv, ArraysAsMeant
<1>2. /\ DOMAIN memory' = DOMAIN memory \ {old}
      /\ \A q \in DOMAIN memory \ {old} : memory'[q] = memory[q]
  BY DEF Deleted
<1>3. /\ object'[a] = Constructed /\ meant'[a] = <<>> /\ Constructed \in Objects
      /\ \A b \in Arrays \ {a} : object'[b] = object[b] /\ meant'[b] = meant[b]
      /\ Constructed.data = NULL /\ Constructed.used = 0 /\ Constructed.allocated = 0
      /\ Constructed.free_when_destroyed
  BY <1>1 DEF ArrayTypeOK, Constructed, Objects
<1>4. old # NULL => old \in DOMAIN memory /\ old \notin lent
  BY <1>1 DEF EachBlockHasOwner
<1>5. \A b \in live \ {a} : object[b].data # NULL => object[b].data \in DOMAIN memory \ {old}
  BY <1>1 DEF EachBlockHasOwner, ArrayTypeOK
<1>6. live' \subseteq Arrays /\ live' \ {a} = live \ {a}
  BY <1>1 DEF ArrayTypeOK
<1>7. ArrayTypeOK'
  <2>1. object' \in [Arrays -> Objects] /\ meant' \in [Arrays -> Texts]
    BY <1>1, <1>3 DEF ArrayTypeOK, Objects, Texts
  <2>2. \A q \in DOMAIN memory' : memory'[q] \in [DOMAIN memory'[q] -> Elements \cup {Uninit}]
    BY <1>1, <1>2 DEF ArrayTypeOK
  <2>. QED BY <2>1, <2>2, <1>1, <1>2, <1>6 DEF ArrayTypeOK, Objects, Texts
<1>8. ASSUME NEW b \in live' PROVE ElementsHeld(object'[b], memory', meant'[b])
  <2>1. CASE b = a
    <3>1. ElementsHeld(Constructed, memory', <<>>)
      BY <1>3 DEF Item, ElementsHeld
    <3>. QED BY <3>1, <2>1, <1>3
  <2>2. CASE b # a
    <3>1. b \in live /\ b \in Arrays
      BY <2>2, <1>6
    <3>2. object[b].data # NULL => object[b].data \in DOMAIN memory' /\ memory'[object[b].data] = memory[object[b].data]
      BY <3>1, <2>2, <1>5, <1>2
    <3>. QED BY <3>1, <3>2, <2>2, <1>3, OthersHold
  <2>. QED BY <2>1, <2>2
<1>9. EachBlockHasOwner'
  <2>1. \A b, c \in live' : b # c /\ object'[b].data # NULL => object'[b].data # object'[c].data
    BY <1>1, <1>3, <1>6 DEF EachBlockHasOwner, ArrayTypeOK
  <2>2. \A b \in live' : object'[b].data \in lent' => ~object'[b].free_when_destroyed
    BY <1>1, <1>3, <1>6 DEF EachBlockHasOwner, ArrayTypeOK
  <2>3. {object'[b].data : b \in live'} \ {NULL} = {object[b].data : b \in live \ {a}} \ {NULL}
    <3>1. \A b \in live' : b # a => b \in live \ {a} /\ object'[b].data = object[b].data
      BY <1>3, <1>6
    <3>2. \A b \in live \ {a} : b \in live' /\ object'[b].data = object[b].data
      BY <1>3, <1>6
    <3>3. a \in live' => object'[a].data = NULL
      BY <1>3
    <3>. QED BY <3>1, <3>2, <3>3
  <2>4. DOMAIN memory \ {old} = ({object[b].data : b \in live \ {a}} \ {NULL}) \cup lent
    BY <1>1, <1>4, <1>5 DEF EachBlockHasOwner, ArrayTypeOK
  <2>. QED BY <2>1, <2>2, <2>3, <2>4, <1>2 DEF EachBlockHasOwner
<1>10. \A b \in live' : ~object'[b].free_when_destroyed => object'[b].data \in lent' \cup {NULL}
  BY <1>1, <1>3, <1>6 DEF ArrayInv, ArrayTypeOK
<1>11. memory' = [q \in DOMAIN memory' |-> memory'[q]]
  BY DEF Deleted
<1>. QED BY <1>7, <1>8, <1>9, <1>10, <1>11 DEF ArrayInv, ArraysAsMeant

\* What a call finds: an object q, with elements t, whose block is its own.
Finds(q, t) ==
  /\ q.free_when_destroyed /\ q.used = Len(t) /\ q.used \in Nat /\ q.allocated \in Nat
  /\ q.used <= q.allocated /\ q.data \in Blocks \cup {NULL}
  /\ q.data = NULL => q.allocated = 0
  /\ q.data # NULL =>
       /\ q.data \in DOMAIN memory /\ memory[q.data] \in Contents(q.allocated)
       /\ \A i \in 1 .. Len(t) : t[i] # AnyElement => memory[q.data][i - 1] = t[i]

\* An array that may be used has a block of the size it notes, or none and no room.
LEMMA UsableFinds ==
  ASSUME ArrayInv, NEW a \in Arrays, Usable(a)
  PROVE  a \in live /\ object[a] \in Objects /\ meant[a] \in Texts /\ Finds(object[a], meant[a])
<1>1. /\ a \in live /\ object[a] \in Objects /\ object[a].free_when_destroyed /\ meant[a] \in Texts
      /\ ElementsHeld(object[a], memory, meant[a])
  BY DEF ArrayInv, ArraysAsMeant, ArrayTypeOK, Objects, Texts, Usable
<1>2. PICK o \in Objects : o = object[a]
  BY <1>1
<1>3. o.used \in Nat /\ o.allocated \in Nat /\ o.data \in Blocks \cup {NULL}
  BY DEF Objects
<1>4. ASSUME o.data # NULL PROVE o.data \in DOMAIN memory /\ memory[o.data] \in Contents(o.allocated)
  <2>1. o.data \in DOMAIN memory /\ DOMAIN memory[o.data] = 0 .. o.allocated - 1
    BY <1>1, <1>2, <1>4 DEF Item, ElementsHeld
  <2>. QED BY <2>1 DEF Contents, ArrayInv, ArrayTypeOK
<1>. QED BY <1>1, <1>2, <1>3, <1>4 DEF Item, ElementsHeld, Finds

\* What the caller knows of an array with n elements are n elements.
LEMMA ResizedIsText ==
  ASSUME NEW s \in Texts, NEW n \in Nat
  PROVE  /\ Resized(s, n) \in Texts /\ Len(Resized(s, n)) = n
         /\ \A i \in 1 .. n : Resized(s, n)[i] = IF i <= Len(s) THEN s[i] ELSE AnyElement
BY DEF Resized, Texts

\* reallocate moves the elements that have room and leaves the others of the block as they are.
LEMMA MovedFacts ==
  ASSUME ArrayTypeOK, NEW q \in Objects, NEW t \in Texts, Finds(q, t), NEW n \in Nat
  PROVE  /\ Moved(q, n) \in Contents(n)
         /\ \A i \in 1 .. n : i <= Len(t) /\ t[i] # AnyElement => Moved(q, n)[i - 1] = t[i]
<1>1. q.used = Len(t) /\ Len(t) \in Nat
  BY DEF Finds
<1>2. CASE q.data # NULL
  <2>1. \A i \in 0 .. n - 1 : i < q.used => memory[q.data][i] \in Elements \cup {Uninit}
    BY <1>2 DEF Contents, Finds
  <2>. QED BY <1>1, <1>2, <2>1 DEF Moved, Contents, Finds
<1>3. CASE q.data = NULL
  <2>1. q.used = 0
    BY <1>3 DEF Finds
  <2>. QED BY <1>1, <2>1 DEF Moved, Contents
<1>. QED BY <1>2, <1>3

\* The members that reallocate leaves, and those with another count of elements.
LEMMA ReallocatedFacts ==
  ASSUME NEW o \in Objects, o.free_when_destroyed, NEW p \in Blocks, NEW n \in Nat
  PROVE  /\ Reallocated(o, p, n) \in Objects
         /\ Reallocated(o, p, n).data = p /\ Reallocated(o, p, n).allocated = n
         /\ Reallocated(o, p, n).used = IF n < o.used THEN n ELSE o.used
         /\ Reallocated(o, p, n).free_when_destroyed
BY DEF Reallocated, Objects

LEMMA ReallocatedUsedFacts ==
  ASSUME NEW o \in Objects, o.free_when_destroyed, NEW p \in Blocks, NEW n \in Nat, NEW u \in Nat
  PROVE  /\ [Reallocated(o, p, n) EXCEPT !.used = u] \in Objects
         /\ [Reallocated(o, p, n) EXCEPT !.used = u].data = p
         /\ [Reallocated(o, p, n) EXCEPT !.used = u].allocated = n
         /\ [Reallocated(o, p, n) EXCEPT !.used = u].used = u
         /\ [Reallocated(o, p, n) EXCEPT !.used = u].free_when_destroyed
BY DEF Reallocated, Objects

\* What a call that takes a fresh block has to do.
TakesBlock(a, q, p, o, content, s) ==
  /\ o \in Objects /\ content \in Contents(o.allocated) /\ s \in Texts
  /\ o.data = p /\ o.used = Len(s) /\ o.used <= o.allocated /\ o.free_when_destroyed
  /\ \A i \in 1 .. Len(s) : s[i] # AnyElement => content[i - 1] = s[i]
  /\ object' = [object EXCEPT ![a] = o]
  /\ memory' = With(Deleted(q.data), p, content) /\ meant' = [meant EXCEPT ![a] = s]
  /\ lent' = lent /\ arrayCalls' \in Nat

\* An array in use gives its block away for a fresh one: new[] may come before delete[] or after.
LEMMA UsableTakesBlock ==
  ASSUME ArrayInv, NEW a \in Arrays, Usable(a), live' = live,
         NEW p, p \in FreeBlocks(memory) \/ p \in FreeBlocks(Deleted(object[a].data)),
         NEW o, NEW content, NEW s, TakesBlock(a, object[a], p, o, content, s)
  PROVE  ArrayInv'
<1>1. a \in live /\ object[a].free_when_destroyed /\ object[a].data \in Blocks \cup {NULL}
  BY UsableFinds DEF Finds
<1>2. p \in FreeBlocks(Deleted(object[a].data))
  BY DEF FreeBlocks, Deleted
<1>3. live' = live \cup {a}
  BY <1>1
<1>. QED BY <1>1, <1>2, <1>3, GetsBlock DEF TakesBlock

\* A new array gets its first block.
LEMMA NewTakesBlock ==
  ASSUME ArrayInv, NEW a \in Arrays \ live, live' = live \cup {a},
         NEW p \in FreeBlocks(Deleted(NULL)),
         NEW o, NEW content, NEW s, TakesBlock(a, Constructed, p, o, content, s)
  PROVE  ArrayInv'
<1>1. Constructed.data = NULL
  BY DEF Constructed
<1>. QED BY <1>1, GetsBlock DEF TakesBlock

\* The calls, one by one.  reallocate: the elements that have room are kept.
LEMMA ReallocateKeeps ==
  ASSUME ArrayInv, NEW a \in Arrays, NEW n \in Nat, reallocate(a, n)
  PROVE  ArrayInv'
<1>1. Usable(a) /\ live' = live /\ lent' = lent /\ arrayCalls' \in Nat
  BY DEF reallocate, Calls, ArrayInv, ArrayTypeOK
<1>2. PICK q \in Objects, t \in Texts : q = object[a] /\ t = meant[a] /\ Finds(q, t)
  BY <1>1, UsableFinds
<1>3. PICK p \in FreeBlocks(memory) :
        /\ object' = [object EXCEPT ![a] = Reallocated(q, p, n)]
        /\ memory' = With(Deleted(q.data), p, Moved(q, n))
  BY <1>2 DEF reallocate
<1>4. PICK k \in Nat : k = IF n < Len(t) THEN n ELSE Len(t)
  BY <1>2 DEF Finds
<1>5. PICK s : s = Resized(t, k)
  OBVIOUS
<1>6. meant' = [meant EXCEPT ![a] = s]
  BY <1>2, <1>4, <1>5 DEF reallocate, Meant
<1>7. /\ s \in Texts /\ Len(s) = k
       /\ \A i \in 1 .. k : s[i] = t[i] /\ i <= Len(t) /\ i \in 1 .. n
  <2>1. Len(t) \in Nat /\ k <= Len(t) /\ k <= n
    BY <1>2, <1>4 DEF Finds
  <2>2. /\ s \in Texts /\ Len(s) = k
        /\ \A i \in 1 .. k : s[i] = IF i <= Len(t) THEN t[i] ELSE AnyElement
    BY <1>5, ResizedIsText
  <2>3. \A i \in 1 .. k : i <= Len(t) /\ i \in 1 .. n
    BY <2>1
  <2>. QED BY <2>2, <2>3
<1>8. /\ Reallocated(q, p, n) \in Objects /\ Reallocated(q, p, n).data = p
      /\ Reallocated(q, p, n).allocated = n /\ Reallocated(q, p, n).used = k
      /\ Reallocated(q, p, n).free_when_destroyed
  <2>1. q.free_when_destroyed /\ p \in Blocks
    BY <1>2 DEF FreeBlocks, Finds
  <2>2. /\ Reallocated(q, p, n) \in Objects /\ Reallocated(q, p, n).data = p
        /\ Reallocated(q, p, n).allocated = n
        /\ Reallocated(q, p, n).used = IF n < q.used THEN n ELSE q.used
        /\ Reallocated(q, p, n).free_when_destroyed
    BY <2>1, ReallocatedFacts
  <2>3. q.used = Len(t)
    BY <1>2 DEF Finds
  <2>. QED BY <2>2, <2>3, <1>4
<1>9. /\ Moved(q, n) \in Contents(n)
      /\ \A i \in 1 .. Len(s) : s[i] # AnyElement => Moved(q, n)[i - 1] = s[i]
  BY <1>2, <1>7, MovedFacts DEF ArrayInv
<1>10. TakesBlock(a, q, p, Reallocated(q, p, n), Moved(q, n), s)
  BY <1>1, <1>3, <1>4, <1>8, <1>9, <1>6, <1>7 DEF TakesBlock
<1>. QED BY <1>1, <1>2, <1>10, UsableTakesBlock

\* set_used: in the block that there is, or in a larger one.
LEMMA SetUsedKeeps ==
  ASSUME ArrayInv, NEW a \in Arrays, NEW n \in Nat, set_used(a, n)
  PROVE  ArrayInv'
<1>1. Usable(a) /\ live' = live /\ lent' = lent /\ arrayCalls' \in Nat
  BY DEF set_used, Calls, ArrayInv, ArrayTypeOK
<1>2. PICK q \in Objects, t \in Texts : q = object[a] /\ t = meant[a] /\ Finds(q, t) /\ a \in live
  BY <1>1, UsableFinds
<1>3. PICK s : s = Resized(t, n)
  OBVIOUS
<1>4. meant' = [meant EXCEPT ![a] = s]
  BY <1>2, <1>3 DEF set_used, Meant
<1>5. /\ s \in Texts /\ Len(s) = n
      /\ \A i \in 1 .. n : s[i] # AnyElement => s[i] = t[i] /\ i <= Len(t)
  BY <1>2, <1>3, ResizedIsText
<1>6. CASE q.allocated >= n /\ object' = [object EXCEPT ![a].used = n] /\ UNCHANGED memory
  <2>1. memory' = [memory EXCEPT ![q.data] = memory[q.data]]
    BY <1>6 DEF ArrayInv
  <2>2. \A i \in 1 .. Len(s) : s[i] # AnyElement => memory[q.data][i - 1] = s[i]
    BY <1>2, <1>4, <1>5, <1>6 DEF Finds
  <2>3. n <= q.allocated /\ q.free_when_destroyed
        /\ (q.data # NULL => memory[q.data] \in Contents(q.allocated))
    BY <1>2, <1>6 DEF Finds
  <2>4. ChangesItems(a, q, n, memory[q.data], s)
    BY <1>1, <1>4, <1>5, <1>6, <2>1, <2>2, <2>3 DEF ChangesItems
  <2>. QED BY <1>2, <2>3, <2>4, ChangesBlock
<1>7. ASSUME NEW p \in FreeBlocks(memory),
             memory' = With(Deleted(q.data), p, Moved(q, n)),
             object' = [object EXCEPT ![a] = [Reallocated(q, p, n) EXCEPT !.used = n]]
      PROVE  ArrayInv'
  <2>1. PICK o : o = [Reallocated(q, p, n) EXCEPT !.used = n]
    OBVIOUS
  <2>2. o \in Objects /\ o.data = p /\ o.allocated = n /\ o.used = n /\ o.free_when_destroyed
    BY <1>2, <2>1, ReallocatedUsedFacts DEF FreeBlocks, Finds
  <2>3. /\ Moved(q, n) \in Contents(n)
        /\ \A i \in 1 .. Len(s) : s[i] # AnyElement => Moved(q, n)[i - 1] = s[i]
    BY <1>2, <1>4, <1>5, MovedFacts DEF ArrayInv
  <2>4. TakesBlock(a, q, p, o, Moved(q, n), s)
    BY <1>1, <1>4, <1>5, <1>7, <2>2, <2>3, <2>1 DEF TakesBlock
  <2>. QED BY <1>1, <1>2, <2>4, UsableTakesBlock
<1>. QED BY <1>2, <1>6, <1>7 DEF set_used

\* push_back: behind the last element, in the block that there is or in one of twice its size.
LEMMA PushBackKeeps ==
  ASSUME ArrayInv, NEW a \in Arrays, NEW e \in Elements, push_back(a, e)
  PROVE  ArrayInv'
<1>1. Usable(a) /\ live' = live /\ lent' = lent /\ arrayCalls' \in Nat
  BY DEF push_back, Calls, ArrayInv, ArrayTypeOK
<1>2. PICK q \in Objects, t \in Texts : q = object[a] /\ t = meant[a] /\ Finds(q, t) /\ a \in live
  BY <1>1, UsableFinds
<1>3. PICK n \in Nat : n = q.used /\ n = Len(t)
  BY <1>2 DEF Finds
<1>4. PICK s : s = Append(t, e)
  OBVIOUS
<1>5. /\ s \in Texts /\ Len(s) = n + 1 /\ s[n + 1] = e /\ meant' = [meant EXCEPT ![a] = s]
      /\ \A i \in 1 .. n : s[i] = t[i]
  <2>1. meant' = [meant EXCEPT ![a] = s]
    BY <1>2, <1>4 DEF push_back, Meant
  <2>2. s \in Texts /\ Len(s) = n + 1 /\ s[n + 1] = e /\ \A i \in 1 .. n : s[i] = t[i]
    BY <1>3, <1>4 DEF Texts
  <2>. QED BY <2>1, <2>2
<1>6. ASSUME n + 1 <= q.allocated,
             memory' = [memory EXCEPT ![q.data] = [memory[q.data] EXCEPT ![n] = e]],
             object' = [object EXCEPT ![a].used = n + 1]
      PROVE  ArrayInv'
  <2>1. q.data # NULL /\ q.allocated \in Nat /\ memory[q.data] \in Contents(q.allocated) /\ q.free_when_destroyed
    BY <1>2, <1>6 DEF Finds
  <2>2. PICK content : content = [memory[q.data] EXCEPT ![n] = e]
    OBVIOUS
  <2>3. /\ content \in Contents(q.allocated) /\ content[n] = e
        /\ \A i \in 0 .. q.allocated - 1 : i # n => content[i] = memory[q.data][i]
    BY <1>6, <2>1, <2>2 DEF Contents
  <2>4. \A i \in 1 .. n : t[i] # AnyElement => memory[q.data][i - 1] = t[i]
    BY <1>2, <1>3, <2>1 DEF Finds
  <2>5. ASSUME NEW i \in 1 .. Len(s), s[i] # AnyElement PROVE content[i - 1] = s[i]
    <3>1. CASE i = n + 1
      BY <3>1, <1>5, <2>3
    <3>2. CASE i # n + 1
      <4>1. i \in 1 .. n /\ i - 1 \in 0 .. q.allocated - 1 /\ i - 1 # n
        BY <3>2, <1>5, <1>6, <2>1
      <4>. QED BY <4>1, <1>5, <2>3, <2>4, <2>5
    <3>. QED BY <3>1, <3>2
  <2>6. n + 1 \in Nat /\ memory' = [memory EXCEPT ![q.data] = content]
    BY <1>6, <2>2
  <2>7. ChangesItems(a, q, n + 1, content, s)
    BY <1>1, <1>5, <1>6, <2>3, <2>5, <2>6 DEF ChangesItems
  <2>. QED BY <1>2, <2>1, <2>7, ChangesBlock
<1>7. ASSUME NEW p \in FreeBlocks(memory),
             memory' = With(Deleted(q.data), p, [Moved(q, RoomFor(n)) EXCEPT ![n] = e]),
             object' = [object EXCEPT ![a] = [Reallocated(q, p, RoomFor(n)) EXCEPT !.used = n + 1]]
      PROVE  ArrayInv'
  <2>1. PICK r \in Nat : r = RoomFor(n) /\ n + 1 <= r
    BY DEF RoomFor
  <2>2. PICK o : o = [Reallocated(q, p, r) EXCEPT !.used = n + 1]
    OBVIOUS
  <2>3. o \in Objects /\ o.data = p /\ o.allocated = r /\ o.used = n + 1 /\ o.free_when_destroyed
    <3>1. q.free_when_destroyed /\ p \in Blocks /\ n + 1 \in Nat
      BY <1>2 DEF FreeBlocks, Finds
    <3>. QED BY <3>1, <2>2, ReallocatedUsedFacts
  <2>4. /\ Moved(q, r) \in Contents(r)
        /\ \A i \in 1 .. r : i <= n /\ t[i] # AnyElement => Moved(q, r)[i - 1] = t[i]
    BY <1>2, <1>3, MovedFacts DEF ArrayInv
  <2>5. PICK content : content = [Moved(q, r) EXCEPT ![n] = e]
    OBVIOUS
  <2>6. /\ content \in Contents(r) /\ content[n] = e
        /\ \A i \in 0 .. r - 1 : i # n => content[i] = Moved(q, r)[i]
    BY <2>1, <2>4, <2>5 DEF Contents
  <2>7. ASSUME NEW i \in 1 .. Len(s), s[i] # AnyElement PROVE content[i - 1] = s[i]
    <3>1. CASE i = n + 1
      BY <3>1, <1>5, <2>6
    <3>2. CASE i # n + 1
      <4>1. i \in 1 .. n /\ i \in 1 .. r /\ i - 1 \in 0 .. r - 1 /\ i - 1 # n
        BY <3>2, <1>5, <2>1
      <4>. QED BY <4>1, <1>5, <2>4, <2>6, <2>7
    <3>. QED BY <3>1, <3>2
  <2>8. TakesBlock(a, q, p, o, content, s)
    BY <1>1, <1>5, <1>7, <2>1, <2>3, <2>6, <2>7, <2>2, <2>5 DEF TakesBlock
  <2>. QED BY <1>1, <1>2, <2>8, UsableTakesBlock
<1>. QED BY <1>2, <1>3, <1>6, <1>7 DEF push_back

\* set_pointer: the block of the caller in place of the own one.
LEMMA SetPointerKeeps ==
  ASSUME ArrayInv, NEW a \in Arrays, NEW n \in Nat, NEW c \in [1 .. n -> Elements], set_pointer(a, c)
  PROVE  ArrayInv'
<1>1. Usable(a) /\ live' = live /\ lent' = lent /\ arrayCalls' \in Nat
  BY DEF set_pointer, Calls, ArrayInv, ArrayTypeOK
<1>2. PICK q \in Objects, t \in Texts : q = object[a] /\ t = meant[a] /\ Finds(q, t)
  BY <1>1, UsableFinds
<1>3. /\ c \in Texts /\ Len(c) = n /\ meant' = [meant EXCEPT ![a] = c]
      /\ \A i \in 1 .. n : c[i] \in Elements
  <2>1. c \in Texts /\ Len(c) = n /\ \A i \in 1 .. n : c[i] \in Elements
    BY DEF Texts
  <2>. QED BY <2>1 DEF set_pointer, Meant
<1>4. PICK p \in FreeBlocks(memory) :
        /\ memory' = With(Deleted(q.data), p, [i \in 0 .. n - 1 |-> c[i + 1]])
        /\ object' = [object EXCEPT ![a] = [q EXCEPT !.data = p, !.used = n, !.allocated = n]]
  BY <1>2, <1>3 DEF set_pointer
<1>5. PICK o : o = [q EXCEPT !.data = p, !.used = n, !.allocated = n]
  OBVIOUS
<1>6. o \in Objects /\ o.data = p /\ o.used = n /\ o.allocated = n
  BY <1>5 DEF Objects, FreeBlocks
<1>7. o.free_when_destroyed
  BY <1>2, <1>5 DEF Objects, Finds
<1>8. PICK content : content = [i \in 0 .. n - 1 |-> c[i + 1]]
  OBVIOUS
<1>9. content \in Contents(n) /\ \A i \in 1 .. n : content[i - 1] = c[i]
  BY <1>3, <1>8 DEF Contents
<1>10. TakesBlock(a, q, p, o, content, c)
  BY <1>1, <1>3, <1>4, <1>5, <1>6, <1>7, <1>8, <1>9 DEF TakesBlock
<1>. QED BY <1>1, <1>2, <1>10, UsableTakesBlock

\* The members and the block that operator= leaves.
LEMMA AssignedTakes ==
  ASSUME ArrayInv, NEW a \in Arrays, NEW b \in Arrays, NEW own \in Objects, Usable(b),
         Assigned(a, own, b), meant' = [meant EXCEPT ![a] = meant[b]], lent' = lent,
         a = b => own = object[a], arrayCalls' \in Nat
  PROVE  \E p \in FreeBlocks(Deleted(own.data)) : \E o, content, s : TakesBlock(a, own, p, o, content, s)
<1>1. PICK q \in Objects, t \in Texts : q = object[b] /\ t = meant[b] /\ Finds(q, t)
  BY UsableFinds
<1>2. PICK p \in FreeBlocks(Deleted(own.data)) :
        /\ memory' = With(Deleted(own.data), p, Moved(q, q.allocated))
        /\ object' = [object EXCEPT ![a] = [q EXCEPT !.data = p, !.allocated = q.allocated]]
  BY <1>1 DEF Assigned, RoomOf, Moved
<1>3. PICK o : o = [q EXCEPT !.data = p, !.allocated = q.allocated]
  OBVIOUS
<1>4. o \in Objects /\ o.data = p /\ o.used = q.used /\ o.allocated = q.allocated
  BY <1>3 DEF Objects, FreeBlocks
<1>5. o.free_when_destroyed
  BY <1>1, <1>3 DEF Objects, Finds
<1>6. q.allocated \in Nat /\ q.used = Len(t) /\ Len(t) <= q.allocated /\ Len(t) \in Nat
  BY <1>1 DEF Finds
<1>7. /\ Moved(q, q.allocated) \in Contents(q.allocated)
      /\ \A i \in 1 .. Len(t) : t[i] # AnyElement => Moved(q, q.allocated)[i - 1] = t[i]
  BY <1>1, <1>6, MovedFacts DEF ArrayInv
<1>8. TakesBlock(a, own, p, o, Moved(q, q.allocated), t)
  BY <1>1, <1>2, <1>5, <1>6, <1>7, <1>3, <1>4 DEF TakesBlock
<1>. QED BY <1>8

\* operator= and the copy constructor.
LEMMA CopiesKeep ==
  ASSUME ArrayInv, NEW a \in Arrays, NEW b \in Arrays, AssignArray(a, b) \/ ConstructCopy(a, b)
  PROVE  ArrayInv'
<1>1. Usable(b) /\ lent' = lent /\ arrayCalls' \in Nat /\ meant' = [meant EXCEPT ![a] = meant[b]] /\ a # b
  BY DEF AssignArray, ConstructCopy, Calls, Meant, Usable, ArrayInv, ArrayTypeOK
<1>2. CASE AssignArray(a, b)
  <2>1. Usable(a) /\ live' = live /\ Assigned(a, object[a], b)
    BY <1>2 DEF AssignArray
  <2>2. object[a] \in Objects
    BY <2>1, UsableFinds
  <2>3. PICK p \in FreeBlocks(Deleted(object[a].data)) :
          \E o, content, s : TakesBlock(a, object[a], p, o, content, s)
    BY <1>1, <2>1, <2>2, AssignedTakes
  <2>. QED BY <2>1, <2>3, UsableTakesBlock
<1>3. CASE ConstructCopy(a, b)
  <2>1. a \notin live /\ live' = live \cup {a} /\ Assigned(a, Constructed, b)
    BY <1>3 DEF ConstructCopy
  <2>2. Constructed \in Objects /\ Constructed.data = NULL
    BY DEF Constructed, Objects
  <2>3. PICK p \in FreeBlocks(Deleted(Constructed.data)) :
          \E o, content, s : TakesBlock(a, Constructed, p, o, content, s)
    BY <1>1, <2>1, <2>2, AssignedTakes
  <2>. QED BY <2>1, <2>2, <2>3, NewTakesBlock
<1>. QED BY <1>2, <1>3

\* Array(start_count)
LEMMA ConstructWithRoomKeeps ==
  ASSUME ArrayInv, NEW a \in Arrays, NEW n \in Nat, ConstructWithRoom(a, n)
  PROVE  ArrayInv'
<1>. USE ArraysAssumption
<1>1. a \notin live /\ live' = live \cup {a} /\ lent' = lent /\ arrayCalls' \in Nat
      /\ meant' = [meant EXCEPT ![a] = <<>>]
  BY DEF ConstructWithRoom, Calls, Meant, ArrayInv, ArrayTypeOK
<1>2. /\ Constructed \in Objects /\ Constructed.data = NULL /\ Constructed.used = 0
      /\ Constructed.free_when_destroyed
  BY DEF Constructed, Objects
<1>3. PICK p \in FreeBlocks(memory) :
        /\ object' = [object EXCEPT ![a] = Reallocated(Constructed, p, n)]
        /\ memory' = With(memory, p, Moved(Constructed, n))
  BY DEF ConstructWithRoom
<1>4. DOMAIN memory = DOMAIN memory \ {NULL} /\ memory = [q \in DOMAIN memory |-> memory[q]]
  <2>1. NULL \notin DOMAIN memory
    BY DEF ArrayInv, ArrayTypeOK
  <2>. QED BY <2>1 DEF ArrayInv
<1>5. p \in FreeBlocks(Deleted(NULL)) /\ memory' = With(Deleted(NULL), p, Moved(Constructed, n))
  BY <1>3, <1>4 DEF FreeBlocks, Deleted, With
<1>6. /\ Reallocated(Constructed, p, n) \in Objects /\ Reallocated(Constructed, p, n).data = p
      /\ Reallocated(Constructed, p, n).allocated = n /\ Reallocated(Constructed, p, n).used = 0
      /\ Reallocated(Constructed, p, n).free_when_destroyed
  BY <1>2, ReallocatedFacts DEF FreeBlocks
<1>7. Moved(Constructed, n) \in Contents(n)
  BY <1>2 DEF Moved, Contents
<1>8. TakesBlock(a, Constructed, p, Reallocated(Constructed, p, n), Moved(Constructed, n), <<>>)
  BY <1>1, <1>2, <1>3, <1>5, <1>6, <1>7 DEF TakesBlock, Texts
<1>. QED BY <1>1, <1>5, <1>8, NewTakesBlock

\* erase: what is behind moves up, within the block.
LEMMA EraseKeeps ==
  ASSUME ArrayInv, NEW a \in Arrays, NEW index \in Nat, NEW count \in Nat, erase(a, index, count)
  PROVE  ArrayInv'
<1>1. /\ Usable(a) /\ live' = live /\ lent' = lent /\ arrayCalls' \in Nat
      /\ index + count <= object[a].used
  BY DEF erase, Calls, ArrayInv, ArrayTypeOK
<1>2. PICK q \in Objects, t \in Texts : q = object[a] /\ t = meant[a] /\ Finds(q, t) /\ a \in live
  BY <1>1, UsableFinds
<1>3. PICK n : n = q.used - count
  OBVIOUS
<1>4. n \in Nat /\ q.used = n + count /\ Len(t) = n + count /\ index <= n /\ n <= q.allocated
  <2>1. /\ q.used \in Nat /\ q.allocated \in Nat /\ q.used <= q.allocated /\ q.used = Len(t)
        /\ index + count <= q.used
    BY <1>1, <1>2 DEF Finds
  <2>. QED BY <2>1, <1>3
<1>5. PICK s : s = [i \in 1 .. n |-> IF i <= index THEN t[i] ELSE t[i + count]]
  OBVIOUS
<1>6. /\ s \in Texts /\ Len(s) = n /\ meant' = [meant EXCEPT ![a] = s]
      /\ \A i \in 1 .. n : s[i] = IF i <= index THEN t[i] ELSE t[i + count]
  <2>1. Len(t) - count = n
    BY <1>4
  <2>2. \A i \in 1 .. n : i \in 1 .. Len(t) /\ (i + count) \in 1 .. Len(t)
    BY <1>4
  <2>3. \A i \in 1 .. Len(t) : t[i] \in Elements \cup {AnyElement}
    BY DEF Texts
  <2>4. s \in [1 .. n -> Elements \cup {AnyElement}]
    BY <1>5, <2>2, <2>3
  <2>5. s \in Texts /\ Len(s) = n
    BY <1>4, <2>4 DEF Texts
  <2>6. meant' = [meant EXCEPT ![a] = s]
    BY <1>2, <1>5, <2>1 DEF erase, Meant
  <2>. QED BY <1>5, <2>5, <2>6
<1>7. PICK content : content = [i \in 0 .. q.allocated - 1 |->
                       IF index <= i /\ i + count < q.used THEN memory[q.data][i + count] ELSE memory[q.data][i]]
  OBVIOUS
<1>8. memory' = [memory EXCEPT ![q.data] = content] /\ object' = [object EXCEPT ![a].used = n]
  BY <1>2, <1>4, <1>7, <1>3 DEF erase
<1>9. ASSUME q.data # NULL PROVE content \in Contents(q.allocated)
  <2>1. memory[q.data] \in Contents(q.allocated) /\ q.allocated \in Nat /\ q.used <= q.allocated
    BY <1>2, <1>9 DEF Finds
  <2>2. \A i \in 0 .. q.allocated - 1 : memory[q.data][i] \in Elements \cup {Uninit}
    BY <2>1 DEF Contents
  <2>3. \A i \in 0 .. q.allocated - 1 : i + count < q.used => (i + count) \in 0 .. q.allocated - 1
    BY <2>1, <1>4
  <2>. QED BY <1>7, <2>2, <2>3 DEF Contents
<1>10. ASSUME NEW i \in 1 .. Len(s), s[i] # AnyElement PROVE content[i - 1] = s[i]
  <2>1. q.data # NULL /\ q.allocated \in Nat /\ q.used <= q.allocated /\ i \in 1 .. n
        /\ \A k \in 1 .. Len(t) : t[k] # AnyElement => memory[q.data][k - 1] = t[k]
    BY <1>2, <1>4, <1>6, <1>10 DEF Finds
  <2>2. i - 1 \in 0 .. q.allocated - 1
    BY <1>4, <2>1
  <2>3. CASE i <= index
    <3>1. content[i - 1] = memory[q.data][i - 1]
      BY <1>7, <2>2, <2>3
    <3>. QED BY <1>4, <1>6, <1>10, <2>1, <2>3, <3>1
  <2>4. CASE ~(i <= index)
    <3>1. content[i - 1] = memory[q.data][(i - 1) + count]
      BY <1>4, <1>7, <2>1, <2>2, <2>4
    <3>2. i + count \in 1 .. Len(t) /\ (i - 1) + count = (i + count) - 1 /\ s[i] = t[i + count]
      BY <1>4, <1>6, <2>1, <2>4
    <3>. QED BY <1>10, <2>1, <3>1, <3>2
  <2>. QED BY <2>3, <2>4
<1>11. q.free_when_destroyed
  BY <1>2 DEF Finds
<1>12. ChangesItems(a, q, n, content, s)
  BY <1>1, <1>4, <1>6, <1>8, <1>9, <1>10 DEF ChangesItems
<1>. QED BY <1>2, <1>11, <1>12, ChangesBlock

\* set_free_when_destroyed(false) and pointer(): the block is the array's and the caller's.
LEMMA LendKeeps ==
  ASSUME ArrayInv, NEW a \in Arrays, Lend(a)
  PROVE  ArrayInv'
<1>. USE ArraysAssumption
<1>1. ArrayTypeOK /\ ArraysAsMeant /\ EachBlockHasOwner
  BY DEF ArrayInv, ArraysAsMeant
<1>2. /\ a \in live /\ live' = live /\ memory' = memory /\ meant' = meant /\ arrayCalls' \in Nat
      /\ lent' = lent \cup ({object[a].data} \ {NULL})
      /\ object' = [object EXCEPT ![a].free_when_destroyed = FALSE]
  BY <1>1 DEF Lend, Usable, Calls, ArrayTypeOK
<1>3. PICK q \in Objects : q = object[a]
  BY <1>1 DEF ArrayTypeOK, Objects
<1>4. PICK o : o = [q EXCEPT !.free_when_destroyed = FALSE]
  OBVIOUS
<1>5. o.data = q.data /\ o.used = q.used /\ o.allocated = q.allocated /\ ~o.free_when_destroyed
  BY <1>4 DEF Objects
<1>6. o \in Objects
  BY <1>4 DEF Objects
<1>7. /\ object' = [object EXCEPT ![a] = o] /\ object'[a] = o
      /\ \A b \in Arrays \ {a} : object'[b] = object[b]
      /\ \A b \in Arrays : object'[b].data = object[b].data
  BY <1>1, <1>2, <1>3, <1>4, <1>5 DEF ArrayTypeOK
<1>8. q.data # NULL => q.data \in DOMAIN memory /\ q.data \in Blocks
  BY <1>1, <1>2, <1>3 DEF EachBlockHasOwner, ArrayTypeOK
<1>9. ArrayTypeOK'
  <2>1. object' \in [Arrays -> Objects]
    BY <1>1, <1>7, <1>6 DEF ArrayTypeOK, Objects
  <2>. QED BY <2>1, <1>1, <1>2, <1>3, <1>8 DEF ArrayTypeOK, Objects
<1>10. ASSUME NEW b \in live' PROVE ElementsHeld(object'[b], memory', meant'[b])
  <2>1. ElementsHeld(object[b], memory, meant[b]) /\ b \in Arrays
    BY <1>1, <1>2 DEF ArraysAsMeant, ArrayTypeOK
  <2>2. CASE b = a
    <3>1. ElementsHeld(q, memory, meant[b])
      BY <2>1, <2>2, <1>3
    <3>2. ElementsHeld(o, memory, meant[b])
      BY <3>1, <1>4, <1>5 DEF Item, ElementsHeld
    <3>. QED BY <3>2, <2>2, <1>2, <1>7
  <2>3. CASE b # a
    BY <2>1, <2>3, <1>2, <1>7
  <2>. QED BY <2>2, <2>3
<1>11. EachBlockHasOwner'
  <2>1. {object'[b].data : b \in live'} = {object[b].data : b \in live}
    BY <1>1, <1>2, <1>7 DEF ArrayTypeOK
  <2>2. \A b, c \in live' : b # c /\ object'[b].data # NULL => object'[b].data # object'[c].data
    BY <1>1, <1>2, <1>7 DEF ArrayTypeOK, EachBlockHasOwner
  <2>3. ASSUME NEW b \in live', object'[b].data \in lent' PROVE ~object'[b].free_when_destroyed
    <3>1. CASE b = a
      BY <3>1, <1>4, <1>5, <1>7
    <3>2. CASE b # a
      <4>1. b \in live /\ b \in Arrays /\ object'[b] = object[b] /\ object[b].data \in lent'
        BY <2>3, <3>2, <1>1, <1>2, <1>7 DEF ArrayTypeOK
      <4>2. object[b].data \in lent
        BY <4>1, <3>2, <1>1, <1>2 DEF EachBlockHasOwner
      <4>. QED BY <4>1, <4>2, <1>1 DEF EachBlockHasOwner
    <3>. QED BY <3>1, <3>2
  <2>4. DOMAIN memory' = ({object'[b].data : b \in live'} \ {NULL}) \cup lent'
    BY <2>1, <1>1, <1>2, <1>3, <1>8 DEF EachBlockHasOwner
  <2>. QED BY <2>2, <2>3, <2>4 DEF EachBlockHasOwner
<1>12. \A b \in live' : ~object'[b].free_when_destroyed => object'[b].data \in lent' \cup {NULL}
  <2>1. ASSUME NEW b \in live', ~object'[b].free_when_destroyed PROVE object'[b].data \in lent' \cup {NULL}
    <3>1. CASE b = a
      BY <3>1, <1>2, <1>3, <1>4, <1>5, <1>7
    <3>2. CASE b # a
      <4>1. b \in live /\ object'[b] = object[b]
        BY <3>2, <1>1, <1>2, <1>7 DEF ArrayTypeOK
      <4>. QED BY <4>1, <2>1, <1>2 DEF ArrayInv
    <3>. QED BY <3>1, <3>2
  <2>. QED BY <2>1
<1>13. memory' = [p \in DOMAIN memory' |-> memory'[p]]
  BY <1>2 DEF ArrayInv
<1>. QED BY <1>9, <1>10, <1>11, <1>12, <1>13 DEF ArrayInv, ArraysAsMeant

\* Array(), ~Array and clear: no block is left to the array.
LEMMA EmptiedKeeps ==
  ASSUME ArrayInv, NEW a \in Arrays, Construct(a) \/ Destroy(a) \/ clear(a)
  PROVE  ArrayInv'
<1>. USE ArraysAssumption
<1>1. ArrayTypeOK /\ ArraysAsMeant /\ EachBlockHasOwner
  BY DEF ArrayInv, ArraysAsMeant
<1>2. /\ object' = [object EXCEPT ![a] = Constructed] /\ meant' = [meant EXCEPT ![a] = <<>>]
      /\ lent' = lent /\ arrayCalls' \in Nat
  BY <1>1 DEF Construct, Destroy, clear, Calls, Meant, ArrayTypeOK
<1>3. memory = Deleted(NULL)
  <2>1. NULL \notin DOMAIN memory
    BY <1>1 DEF ArrayTypeOK
  <2>2. memory = [p \in DOMAIN memory |-> memory[p]]
    BY DEF ArrayInv
  <2>. QED BY <2>1, <2>2 DEF Deleted
<1>4. CASE Construct(a)
  <2>1. a \notin live /\ live' = live \cup {a} /\ memory' = Deleted(NULL)
    BY <1>3, <1>4 DEF Construct
  <2>. QED BY <1>2, <2>1, LosesBlock
<1>5. CASE Destroy(a) /\ object[a].free_when_destroyed
  <2>1. a \in live /\ live' = live \ {a} /\ memory' = Deleted(object[a].data)
    BY <1>5 DEF Destroy
  <2>2. object[a].data \in Blocks \cup {NULL}
    BY <1>1 DEF ArrayTypeOK
  <2>. QED BY <1>2, <1>5, <2>1, <2>2, LosesBlock
<1>6. CASE Destroy(a) /\ ~object[a].free_when_destroyed
  <2>1. a \in live /\ live' = live \ {a} /\ memory' = Deleted(NULL)
    BY <1>3, <1>6 DEF Destroy
  <2>2. object[a].data \in lent \cup {NULL}
    BY <1>6, <2>1 DEF ArrayInv
  <2>. QED BY <1>2, <2>1, <2>2, LosesBlock
<1>7. CASE clear(a)
  <2>1. Usable(a) /\ live' = live \cup {a} /\ memory' = Deleted(object[a].data)
    BY <1>7 DEF clear, Usable
  <2>2. object[a].data \in Blocks \cup {NULL} /\ a \in live /\ object[a].free_when_destroyed
    BY <1>1, <2>1 DEF ArrayTypeOK, Usable
  <2>. QED BY <1>2, <2>1, <2>2, LosesBlock
<1>. QED BY <1>4, <1>5, <1>6, <1>7

\* Every array has the elements that the calls gave it, in a block of its own, and no
\* block is forgotten or deleted twice, whatever the calls and where new[] finds room.
THEOREM ArraysAsMeantAlways == ArraySpec => []ArraysAsMeant
<1>1. ArrayInit => ArrayInv
  <2>. SUFFICES ASSUME ArrayInit PROVE ArrayInv
    OBVIOUS
  <2>. USE ArraysAssumption
  <2>1. ArrayTypeOK
    BY DEF ArrayInit, ArrayTypeOK, Constructed
  <2>2. DOMAIN memory = {} /\ live = {} /\ lent = {}
    BY DEF ArrayInit
  <2>3. memory = [p \in DOMAIN memory |-> memory[p]]
    BY DEF ArrayInit
  <2>. QED BY <2>1, <2>2, <2>3 DEF ArrayInv, ArraysAsMeant, EachBlockHasOwner
<1>2. ArrayInv /\ [ArrayNext]_arrayVars => ArrayInv'
  <2>. SUFFICES ASSUME ArrayInv, [ArrayNext]_arrayVars PROVE ArrayInv'
    OBVIOUS
  <2>1. CASE UNCHANGED arrayVars
    BY <2>1 DEF arrayVars, ArrayInv, ArrayTypeOK, ArraysAsMeant, EachBlockHasOwner, ElementsHeld, Item
  <2>2. ASSUME NEW a \in Arrays, Construct(a) \/ Destroy(a) \/ clear(a) PROVE ArrayInv'
    BY <2>2, EmptiedKeeps
  <2>3. ASSUME NEW a \in Arrays, Lend(a) PROVE ArrayInv'
    BY <2>3, LendKeeps
  <2>4. ASSUME NEW a \in Arrays, NEW n \in 0 .. MaxUsed,
               ConstructWithRoom(a, n) \/ reallocate(a, n) \/ set_used(a, n)
        PROVE  ArrayInv'
    BY <2>4, ConstructWithRoomKeeps, ReallocateKeeps, SetUsedKeeps, ArraysAssumption
  <2>5. ASSUME NEW a \in Arrays, NEW e \in Elements, push_back(a, e) PROVE ArrayInv'
    BY <2>5, PushBackKeeps
  <2>6. ASSUME NEW a \in Arrays, NEW n \in 0 .. MaxUsed, NEW c \in [1 .. n -> Elements], set_pointer(a, c)
        PROVE  ArrayInv'
    BY <2>6, SetPointerKeeps, ArraysAssumption
  <2>7. ASSUME NEW a \in Arrays, NEW b \in Arrays, AssignArray(a, b) \/ ConstructCopy(a, b)
        PROVE  ArrayInv'
    BY <2>7, CopiesKeep
  <2>8. ASSUME NEW a \in Arrays, NEW index \in 0 .. MaxUsed - 1, NEW count \in 1 .. MaxUsed,
               erase(a, index, count)
        PROVE  ArrayInv'
    BY <2>8, EraseKeeps, ArraysAssumption
  <2>. QED BY <2>1, <2>2, <2>3, <2>4, <2>5, <2>6, <2>7, <2>8 DEF ArrayNext
<1>3. ArrayInv => ArraysAsMeant
  BY DEF ArrayInv
<1>. QED BY <1>1, <1>2, <1>3, PTL DEF ArraySpec
==============================================================================
