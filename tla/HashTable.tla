------------------------------ MODULE HashTable ------------------------------
(***************************************************************************)
(* The string hash table of common/HashTable.cpp: one array of nodes in    *)
(* which the chains of all keys live together (coalesced chaining).  A     *)
(* node is taken when its value is not null; a new key goes to its home    *)
(* node if that one is free and otherwise to the first free node of the    *)
(* whole array, which is linked behind the last node of the home's chain.  *)
(*                                                                         *)
(* The loops of Get and of NewKey are modelled iteration by iteration, so  *)
(* that whether they end is something to check.                            *)
(***************************************************************************)
EXTENDS Integers, FiniteSets

CONSTANTS
  TableSize,   \* tablesize, a power of two
  Keys,        \* the keys the callers use
  Values,      \* what they store: pointers to objects, never null
  EmptyKey,    \* the empty string
  Null,        \* the null pointer
  Hash(_)      \* the hash of a key, an int

ASSUME TableSizeAssumption == TableSize \in Nat \ {0}
ASSUME HashAssumption == \A k \in Keys : Hash(k) \in Int
ASSUME NullAssumption ==
  Null \notin Values /\ Null \notin 0 .. TableSize - 1 /\ Null \notin Keys
ASSUME EmptyKeyAssumption == EmptyKey \in Keys

VARIABLES
  key,     \* per node: its key, the empty string at first
  value,   \* per node: its value, null when the node is free
  next,    \* per node: the node behind it in its chain, or null
  pc,      \* where the running call is: "idle", "get", "append" or "crashed"
  argKey,  \* the key of the running call
  argValue,\* the value of the running Put
  cur,     \* the node the running loop is at
  free,    \* the node NewKey found free
  ret      \* what the last Get returned

nodes == <<key, value, next>>
vars == <<key, value, next, pc, argKey, argValue, cur, free, ret>>

Nodes == 0 .. TableSize - 1

\* Hash(key) & (tablesize-1): the mask of a power of two is the remainder.
HashStr(k) == Hash(k) % TableSize

Taken(n) == value[n] # Null

Init ==
  /\ key = [n \in Nodes |-> EmptyKey]
  /\ value = [n \in Nodes |-> Null]
  /\ next = [n \in Nodes |-> Null]
  /\ pc = "idle"
  /\ argKey = EmptyKey
  /\ argValue = Null
  /\ cur = Null
  /\ free = Null
  /\ ret = Null

\* A slip to test the properties with: a node counts as free when its key is empty.
FirstFreeByKey(n) == key[n] = EmptyKey /\ \A m \in Nodes : m < n => key[m] # EmptyKey

\* The scan of GetFreePos: the first free node of the array, or null.
FirstFree(n) == ~Taken(n) /\ \A m \in Nodes : m < n => Taken(m)
GetFreePos ==
  IF \E n \in Nodes : FirstFree(n) THEN CHOOSE n \in Nodes : FirstFree(n) ELSE Null

Store(n, k, v) ==
  /\ key' = [key EXCEPT ![n] = k]
  /\ value' = [value EXCEPT ![n] = v]

------------------------------------------------------------------------------
\* Put when the home node is free: the node is filled in place.
PutHome(k, v) ==
  /\ pc = "idle"
  /\ ~Taken(HashStr(k))
  /\ Store(HashStr(k), k, v)
  /\ UNCHANGED <<next, pc, argKey, argValue, cur, free, ret>>

\* Put when the home node is taken: NewKey looks for a free node and starts at
\* the home node to find the end of the chain.
PutNewKey(k, v) ==
  /\ pc = "idle"
  /\ Taken(HashStr(k))
  /\ GetFreePos # Null
  /\ free' = GetFreePos
  /\ argKey' = k
  /\ argValue' = v
  /\ cur' = HashStr(k)
  /\ pc' = "append"
  /\ UNCHANGED <<key, value, next, ret>>

\* Put into a full table: NewKey returns null ("TODO:Resize") and Put writes
\* through it.
PutFull(k, v) ==
  /\ pc = "idle"
  /\ Taken(HashStr(k))
  /\ GetFreePos = Null
  /\ pc' = "crashed"
  /\ UNCHANGED <<key, value, next, argKey, argValue, cur, free, ret>>

\* An iteration of NewKey's loop to the end of the chain.
AppendStep ==
  /\ pc = "append"
  /\ next[cur] # Null
  /\ cur' = next[cur]
  /\ UNCHANGED <<key, value, next, pc, argKey, argValue, free, ret>>

\* The end of the chain: the free node is linked behind it and filled.
AppendEnd ==
  /\ pc = "append"
  /\ next[cur] = Null
  /\ next' = [next EXCEPT ![cur] = free]
  /\ Store(free, argKey, argValue)
  /\ pc' = "idle"
  /\ UNCHANGED <<argKey, argValue, cur, free, ret>>

GetBegin(k) ==
  /\ pc = "idle"
  /\ argKey' = k
  /\ cur' = HashStr(k)
  /\ pc' = "get"
  /\ UNCHANGED <<key, value, next, argValue, free, ret>>

\* A slip: the test for an empty key is left out.
MatchesEmptyToo(n) == key[n] = argKey

\* n->key.Length()!=0 && n->key == key
Matches(n) == key[n] # EmptyKey /\ key[n] = argKey

GetFound ==
  /\ pc = "get"
  /\ Matches(cur)
  /\ ret' = value[cur]
  /\ pc' = "idle"
  /\ UNCHANGED <<key, value, next, argKey, argValue, cur, free>>

GetStep ==
  /\ pc = "get"
  /\ ~Matches(cur)
  /\ next[cur] # Null
  /\ cur' = next[cur]
  /\ UNCHANGED <<key, value, next, pc, argKey, argValue, free, ret>>

GetNotFound ==
  /\ pc = "get"
  /\ ~Matches(cur)
  /\ next[cur] = Null
  /\ ret' = Null
  /\ pc' = "idle"
  /\ UNCHANGED <<key, value, next, argKey, argValue, cur, free>>

\* A null pointer was written through: the program is gone.
Crashed ==
  /\ pc = "crashed"
  /\ UNCHANGED vars

Running == AppendStep \/ AppendEnd \/ GetFound \/ GetStep \/ GetNotFound

Next ==
  \/ \E k \in Keys, v \in Values : PutHome(k, v) \/ PutNewKey(k, v) \/ PutFull(k, v)
  \/ \E k \in Keys : GetBegin(k)
  \/ Running
  \/ Crashed

\* A call that has started runs on: its loops have no wait in them.
Spec == Init /\ [][Next]_vars /\ WF_vars(Running)

------------------------------------------------------------------------------

\* The shape of the table's state.
TypeOK ==
  /\ key \in [Nodes -> Keys]
  /\ value \in [Nodes -> Values \cup {Null}]
  /\ next \in [Nodes -> Nodes \cup {Null}]
  /\ pc \in {"idle", "get", "append", "crashed"}
  /\ argKey \in Keys
  /\ argValue \in Values \cup {Null}
  /\ cur \in Nodes \cup {Null}
  /\ free \in Nodes \cup {Null}
  /\ ret \in Values \cup {Null}

\* A set of nodes that no link leaves, and the nodes m that a walk along the links
\* from n comes to: those in every such set around n.
Closed(link, S) == \A n \in S : link[n] # Null => link[n] \in S
Reaches(link, n, m) == \A S \in SUBSET Nodes : n \in S /\ Closed(link, S) => m \in S

\* Links lead from taken nodes to taken nodes.  GetFreePos takes a null value for
\* free without looking at the links, so this is what keeps two chains from being
\* tied into one node, or a chain into a ring.
LinkedIsTaken == \A n \in Nodes : next[n] # Null => Taken(n) /\ Taken(next[n])

\* Whatever is stored under a key is in the chain that starts at the key's home
\* node, although the node may have been filled from another home and chains run
\* into each other (Put, NewKey and HashStr against the walk of Get).
StoredIsReachable == \A n \in Nodes : Taken(n) => Reaches(next, HashStr(key[n]), n)

\* Every Get comes back and so does every Put, unless the table is full: no chain
\* is ever a ring (the loops of Get and NewKey).
CallsReturn == pc # "idle" ~> pc \in {"idle", "crashed"}

Stored(k) == {n \in Nodes : Taken(n) /\ key[n] = k}

\* A Get that comes back empty-handed asked for a key under which nothing is
\* stored: the walk from the home node misses no node of the key, in whatever chain
\* it is (Get against Put and NewKey).
GetMissIsAbsent ==
  [][ pc = "get" /\ pc' = "idle" /\ ret' = Null /\ argKey # EmptyKey
        => Stored(argKey) = {} ]_vars

\* The node a Get of k stops at: the first one of the chain that holds k.
FirstOf(k) ==
  CHOOSE n \in Stored(k) : \A m \in Stored(k) : m # n => ~Reaches(next, m, n)

Contents ==
  [k \in {key[n] : n \in {m \in Nodes : Taken(m)}} \ {EmptyKey} |-> value[FirstOf(k)]]

Map == INSTANCE FirstPutMap
         WITH Capacity <- TableSize, table <- Contents,
              puts <- Cardinality({n \in Nodes : Taken(n)}),
              result <- ret, broken <- (pc = "crashed")

\* The table is a map in which the first put under a key wins, up to a table full
\* of puts: Get returns that first value, and null for a key never put, wherever
\* the key's node ended up (Put, NewKey, GetFreePos and Get together).
ImplementsMap == Map!MapSpec
==============================================================================
