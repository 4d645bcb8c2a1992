-------------------------------- MODULE Arrays -------------------------------
(***************************************************************************)
(* Array (common/Array.h): a block of memory with room for `allocated'     *)
(* elements, of which the first `used' count.  Blocks come from new[] and  *)
(* go with delete[], which may give them out again; an array that is       *)
(* copied, grown or replaced has to let go of its old block and of no      *)
(* other.                                                                  *)
(*                                                                         *)
(* Calls are within what the operators assert in a debug build (an index   *)
(* is below `used'), no array is assigned to itself and no element is      *)
(* pushed that lies in the array: push_back and operator= read it after    *)
(* they have deleted it, and the program does neither.  is_sorted is       *)
(* written and never read, as binary_search is commented out.              *)
(***************************************************************************)
EXTENDS Integers, Sequences

CONSTANTS
  Arrays,         \* the objects
  Elements,
  Blocks,         \* addresses that new[] gives out
  NULL,           \* no address
  Uninit,         \* an element that was never written
  AnyElement,     \* meant: what the caller was told nothing about
  MaxUsed,        \* bounds the model: elements of an array
  MaxArrayCalls   \* bounds the model

ASSUME ArraysAssumption ==
  /\ NULL \notin Blocks
  /\ Uninit \notin Elements /\ AnyElement \notin Elements \cup {Uninit}
  /\ MaxUsed \in Nat /\ MaxArrayCalls \in Nat

VARIABLES
  live,        \* the objects that there are
  object,      \* their members
  memory,      \* per address in use: the elements of the block
  lent,        \* history: blocks whose owner now is who took pointer()
  meant,       \* history: per array, the elements it should have
  arrayCalls   \* history

arrayVars == <<live, object, memory, lent, meant, arrayCalls>>

Constructed == [data |-> NULL, used |-> 0, allocated |-> 0, free_when_destroyed |-> TRUE]

ArrayInit ==
  /\ live = {} /\ object = [a \in Arrays |-> Constructed]
  /\ memory = [p \in {} |-> <<>>]
  /\ lent = {} /\ meant = [a \in Arrays |-> <<>>] /\ arrayCalls = 0

-----------------------------------------------------------------------------
(* Memory. *)

\* delete[], of nothing when there is nothing.
Deleted(p) == [q \in DOMAIN memory \ {p} |-> memory[q]]

\* new[], at p.
With(m, p, content) == [q \in DOMAIN m \cup {p} |-> IF q = p THEN content ELSE m[q]]
FreeBlocks(m) == Blocks \ DOMAIN m

\* The elements that reallocate moves.
Moved(o, n) ==
  [i \in 0 .. n - 1 |-> IF i < o.used THEN memory[o.data][i] ELSE Uninit]

\* reallocate: the members afterwards.  The new block, at p, is there before the old one goes.
Reallocated(o, p, n) ==
  [o EXCEPT !.data = p, !.allocated = n, !.used = IF n < o.used THEN n ELSE o.used]

\* operator [], const_pointer() and end(), for an index below `used'.
Item(o, m, i) == m[o.data][i]

-----------------------------------------------------------------------------
(* Calls. *)

\* An array whose pointer was taken is only destroyed.
Usable(a) == a \in live /\ object[a].free_when_destroyed
Calls == arrayCalls < MaxArrayCalls /\ arrayCalls' = arrayCalls + 1
Meant(a, s) == meant' = [meant EXCEPT ![a] = s]

\* What the caller knows of an array with n elements that had s.
Resized(s, n) == [i \in 1 .. n |-> IF i <= Len(s) THEN s[i] ELSE AnyElement]

\* Array(): nothing.  Array(start_count): room, and no elements.
Construct(a) ==
  /\ Calls /\ a \notin live /\ live' = live \cup {a}
  /\ object' = [object EXCEPT ![a] = Constructed]
  /\ Meant(a, <<>>) /\ UNCHANGED <<memory, lent>>

ConstructWithRoom(a, n) ==
  /\ Calls /\ a \notin live /\ live' = live \cup {a}
  /\ \E p \in FreeBlocks(memory) :
       /\ object' = [object EXCEPT ![a] = Reallocated(Constructed, p, n)]
       /\ memory' = With(memory, p, Moved(Constructed, n))
  /\ Meant(a, <<>>) /\ UNCHANGED lent

\* ~Array
Destroy(a) ==
  /\ Calls /\ a \in live /\ live' = live \ {a}
  /\ memory' = IF object[a].free_when_destroyed THEN Deleted(object[a].data) ELSE memory
  /\ object' = [object EXCEPT ![a] = Constructed]
  /\ Meant(a, <<>>) /\ UNCHANGED lent

reallocate(a, n) ==
  /\ Calls /\ Usable(a)
  /\ \E p \in FreeBlocks(memory) :
       /\ object' = [object EXCEPT ![a] = Reallocated(object[a], p, n)]
       /\ memory' = With(Deleted(object[a].data), p, Moved(object[a], n))
  /\ Meant(a, Resized(meant[a], IF n < Len(meant[a]) THEN n ELSE Len(meant[a])))
  /\ UNCHANGED <<live, lent>>

\* The room that push_back makes.
RoomFor(used) == used * 2 + 1

\* push_back: a full array is reallocated first.
push_back(a, e) ==
  /\ Calls /\ Usable(a) /\ object[a].used < MaxUsed
  /\ LET o == object[a]
     IN  \/ /\ o.used + 1 <= o.allocated
            /\ memory' = [memory EXCEPT ![o.data] = [@ EXCEPT ![o.used] = e]]
            /\ object' = [object EXCEPT ![a].used = o.used + 1]
         \/ /\ o.used + 1 > o.allocated
            /\ \E p \in FreeBlocks(memory) :
                 /\ memory' = With(Deleted(o.data), p, [Moved(o, RoomFor(o.used)) EXCEPT ![o.used] = e])
                 /\ object' = [object EXCEPT
                                 ![a] = [Reallocated(o, p, RoomFor(o.used)) EXCEPT !.used = o.used + 1]]
  /\ Meant(a, Append(meant[a], e)) /\ UNCHANGED <<live, lent>>

clear(a) ==
  /\ Calls /\ Usable(a)
  /\ memory' = Deleted(object[a].data)
  /\ object' = [object EXCEPT ![a] = Constructed]
  /\ Meant(a, <<>>) /\ UNCHANGED <<live, lent>>

\* set_pointer: a block that the caller made becomes the array's.
set_pointer(a, content) ==
  /\ Calls /\ Usable(a)
  /\ \E p \in FreeBlocks(memory) :
       /\ memory' = With(Deleted(object[a].data), p, [i \in 0 .. Len(content) - 1 |-> content[i + 1]])
       /\ object' = [object EXCEPT ![a] = [object[a] EXCEPT !.data = p, !.used = Len(content), !.allocated = Len(content)]]
  /\ Meant(a, content) /\ UNCHANGED <<live, lent>>

\* set_used: elements that come by it are whatever is in the memory.
set_used(a, n) ==
  /\ Calls /\ Usable(a)
  /\ LET o == object[a]
     IN  \/ /\ o.allocated >= n
            /\ object' = [object EXCEPT ![a].used = n] /\ UNCHANGED memory
         \/ /\ o.allocated < n
            /\ \E p \in FreeBlocks(memory) :
                 /\ memory' = With(Deleted(o.data), p, Moved(o, n))
                 /\ object' = [object EXCEPT ![a] = [Reallocated(o, p, n) EXCEPT !.used = n]]
  /\ Meant(a, Resized(meant[a], n)) /\ UNCHANGED <<live, lent>>

\* A slip to test the property with: the room of the other array is not taken over.
AssignedRoom(o, own) == own.allocated

\* The room that operator= notes.
RoomOf(o, own) == o.allocated

\* operator=, and the copy constructor, whose object is without a block.  The old block
\* goes before the new one is made, so that they may be one.
Assigned(a, own, b) ==
  \E p \in FreeBlocks(Deleted(own.data)) :
    /\ memory' = With(Deleted(own.data), p, [i \in 0 .. object[b].allocated - 1 |->
                              IF i < object[b].used THEN memory[object[b].data][i] ELSE Uninit])
    /\ object' = [object EXCEPT ![a] = [object[b] EXCEPT !.data = p, !.allocated = RoomOf(object[b], own)]]

AssignArray(a, b) ==
  /\ Calls /\ Usable(a) /\ Usable(b) /\ a # b
  /\ Assigned(a, object[a], b) /\ Meant(a, meant[b]) /\ UNCHANGED <<live, lent>>

ConstructCopy(a, b) ==
  /\ Calls /\ a \notin live /\ Usable(b) /\ live' = live \cup {a}
  /\ Assigned(a, Constructed, b) /\ Meant(a, meant[b]) /\ UNCHANGED lent

\* erase of count elements; the one with an index alone is that of one element.
erase(a, index, count) ==
  /\ Calls /\ Usable(a) /\ index + count <= object[a].used
  /\ LET o == object[a]
     IN  /\ memory' = [memory EXCEPT ![o.data] =
                         [i \in 0 .. o.allocated - 1 |->
                            IF index <= i /\ i + count < o.used THEN memory[o.data][i + count]
                            ELSE memory[o.data][i]]]
         /\ object' = [object EXCEPT ![a].used = o.used - count]
  /\ Meant(a, [i \in 1 .. Len(meant[a]) - count |->
                 IF i <= index THEN meant[a][i] ELSE meant[a][i + count]])
  /\ UNCHANGED <<live, lent>>

\* set_free_when_destroyed(false) and pointer(), as MeshLoaderB3D calls them: the block
\* stays when the array goes.
Lend(a) ==
  /\ Calls /\ Usable(a)
  /\ object' = [object EXCEPT ![a].free_when_destroyed = FALSE]
  /\ lent' = lent \cup ({object[a].data} \ {NULL})
  /\ UNCHANGED <<live, memory, meant>>

ArrayNext ==
  \E a \in Arrays :
    \/ Construct(a) \/ Destroy(a) \/ clear(a) \/ Lend(a)
    \/ \E n \in 0 .. MaxUsed : ConstructWithRoom(a, n) \/ reallocate(a, n) \/ set_used(a, n)
    \/ \E e \in Elements : push_back(a, e)
    \/ \E content \in UNION {[1 .. n -> Elements] : n \in 0 .. MaxUsed} : set_pointer(a, content)
    \/ \E b \in Arrays : AssignArray(a, b) \/ ConstructCopy(a, b)
    \/ \E index \in 0 .. MaxUsed - 1 : \E count \in 1 .. MaxUsed : erase(a, index, count)

ArraySpec == ArrayInit /\ [][ArrayNext]_arrayVars

-----------------------------------------------------------------------------
(* An array holds the elements that were put into it and not taken out,    *)
(* whatever is copied, grown, shrunk and erased in between, of it and of   *)
(* others that may get its memory; and memory that is in use belongs to    *)
(* one array, or to the one who took it.                                   *)

ArrayTypeOK ==
  /\ live \subseteq Arrays
  /\ object \in [Arrays -> [data : Blocks \cup {NULL}, used : Nat, allocated : Nat,
                           free_when_destroyed : BOOLEAN]]
  /\ DOMAIN memory \subseteq Blocks
  /\ \A p \in DOMAIN memory : memory[p] \in [DOMAIN memory[p] -> Elements \cup {Uninit}]
  /\ lent \subseteq Blocks
  /\ meant \in [Arrays -> Seq(Elements \cup {AnyElement})]
  /\ arrayCalls \in Nat

\* The object o, in memory m, has the elements of s.
ElementsHeld(o, m, s) ==
  /\ o.used = Len(s) /\ o.used <= o.allocated
  /\ o.data = NULL => o.allocated = 0
  /\ o.data # NULL => o.data \in DOMAIN m /\ DOMAIN m[o.data] = 0 .. o.allocated - 1
  /\ \A i \in 1 .. Len(s) : s[i] # AnyElement => Item(o, m, i - 1) = s[i]

\* No block is deleted twice or forgotten: those in use are the ones of arrays and those lent.
EachBlockHasOwner ==
  /\ \A a, b \in live : a # b /\ object[a].data # NULL => object[a].data # object[b].data
  /\ \A a \in live : object[a].data \in lent => ~object[a].free_when_destroyed
  /\ DOMAIN memory = ({object[a].data : a \in live} \ {NULL}) \cup lent

ArraysAsMeant ==
  /\ \A a \in live : ElementsHeld(object[a], memory, meant[a])
  /\ EachBlockHasOwner
==============================================================================
