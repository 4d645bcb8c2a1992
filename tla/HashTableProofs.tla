--------------------------- MODULE HashTableProofs ---------------------------
(***************************************************************************)
(* Theorems about the hash table, for every table size, every set of keys  *)
(* and every hash function: links and nodes fit together, and Get misses   *)
(* nothing that was put.  And about the index hash, for every length of    *)
(* the array, all sizes and all keys: it keeps the lists that KeyedLists   *)
(* promises (see IndexIsLists).  What is inductive is IndexInv: each table *)
(* Holds the lists that callers see, that is, hash[] names the first of    *)
(* each, indexChain[] the one behind each, and no place is in them twice.  *)
(* The cells of places that are in no list are free to name anything.      *)
(***************************************************************************)
EXTENDS HashTable, HashIndex, FiniteSetTheorems, WellFoundedInduction, NaturalsInduction,
        SequenceTheorems, TLAPS

Links == [Nodes -> Nodes \cup {Null}]

(***************************************************************************)
(* Walks along the links.                                                  *)
(***************************************************************************)

LEMMA HomeIsNode ==
  ASSUME NEW k \in Keys
  PROVE  HashStr(k) \in Nodes
<1>1. Hash(k) \in Int
  BY HashAssumption
<1>2. QED BY <1>1, TableSizeAssumption, SMT DEF HashStr, Nodes

LEMMA ReachesSelf ==
  ASSUME NEW link, NEW n \in Nodes
  PROVE  Reaches(link, n, n)
BY DEF Reaches

LEMMA ReachesOn ==
  ASSUME NEW link, NEW n \in Nodes, NEW m \in Nodes,
         Reaches(link, n, m), link[m] # Null
  PROVE  Reaches(link, n, link[m])
BY DEF Reaches, Closed

\* A walk that comes to another node goes through the first link.
LEMMA ReachesFromNext ==
  ASSUME NEW link \in Links, NEW n \in Nodes, NEW m \in Nodes,
         Reaches(link, n, m), n # m
  PROVE  link[n] # Null /\ Reaches(link, link[n], m)
<1>1. link[n] # Null
  <2>1. SUFFICES ASSUME link[n] = Null PROVE FALSE
    OBVIOUS
  <2>2. Closed(link, {n}) /\ {n} \in SUBSET Nodes
    BY <2>1 DEF Closed
  <2>3. QED BY <2>2 DEF Reaches
<1>2. ASSUME NEW S \in SUBSET Nodes, link[n] \in S, Closed(link, S)
      PROVE  m \in S
  <2>1. Closed(link, S \cup {n}) /\ S \cup {n} \in SUBSET Nodes
    BY <1>2 DEF Closed
  <2>2. m \in S \cup {n}
    BY <2>1 DEF Reaches
  <2>3. QED BY <2>2
<1>3. QED BY <1>1, <1>2 DEF Reaches

\* Linking a node behind the end of a chain leaves every walk possible.
LEMMA ReachesExtended ==
  ASSUME NEW link \in Links, NEW c \in Nodes, NEW f \in Nodes, link[c] = Null,
         NEW n \in Nodes, NEW m \in Nodes, Reaches(link, n, m)
  PROVE  Reaches([link EXCEPT ![c] = f], n, m)
<1> DEFINE longer == [link EXCEPT ![c] = f]
<1>1. ASSUME NEW S \in SUBSET Nodes, n \in S, Closed(longer, S)
      PROVE  m \in S
  <2>1. Closed(link, S)
    BY <1>1 DEF Closed, Links
  <2>2. QED BY <1>1, <2>1 DEF Reaches
<1>2. QED BY <1>1 DEF Reaches

(***************************************************************************)
(* The inductive invariant: besides the two facts about the nodes, what    *)
(* the running call has found out so far.                                  *)
(***************************************************************************)

AppendInv ==
  pc = "append" =>
    /\ cur \in Nodes /\ free \in Nodes /\ argValue \in Values
    /\ Taken(cur) /\ ~Taken(free)
    /\ Reaches(next, HashStr(argKey), cur)

GetInv ==
  pc = "get" =>
    /\ cur \in Nodes
    /\ argKey # EmptyKey => \A n \in Stored(argKey) : Reaches(next, cur, n)

\* A node has a key only while it has a value.
FreeIsEmpty == \A n \in Nodes : value[n] = Null => key[n] = EmptyKey

IInv == TypeOK /\ LinkedIsTaken /\ StoredIsReachable /\ FreeIsEmpty /\ AppendInv /\ GetInv

LEMMA InitIInv == Init => IInv
<1> SUFFICES ASSUME Init PROVE IInv
  OBVIOUS
<1>1. TypeOK
  BY EmptyKeyAssumption DEF Init, TypeOK
<1>2. LinkedIsTaken
  BY DEF Init, LinkedIsTaken
<1>3. StoredIsReachable
  BY DEF Init, StoredIsReachable, Taken
<1>4. FreeIsEmpty /\ AppendInv /\ GetInv
  BY DEF Init, FreeIsEmpty, AppendInv, GetInv
<1>5. QED BY <1>1, <1>2, <1>3, <1>4 DEF IInv

LEMMA FreePosIsFree ==
  ASSUME GetFreePos # Null
  PROVE  GetFreePos \in Nodes /\ ~Taken(GetFreePos)
<1>1. \E n \in Nodes : FirstFree(n)
  BY DEF GetFreePos
<1>2. GetFreePos \in Nodes /\ FirstFree(GetFreePos)
  BY <1>1 DEF GetFreePos
<1>3. QED BY <1>2 DEF FirstFree

\* Filling a node in place: it was free, so no chain has it and nothing but its
\* own key needs to reach it.
LEMMA PutHomeIInv ==
  ASSUME IInv, NEW k \in Keys, NEW v \in Values, PutHome(k, v)
  PROVE  IInv'
<1> DEFINE h == HashStr(k)
<1>1. h \in Nodes /\ v # Null
  BY HomeIsNode, NullAssumption
<1>2. TypeOK'
  BY <1>1 DEF IInv, TypeOK, PutHome, Store
<1>3. /\ value' = [value EXCEPT ![h] = v] /\ key' = [key EXCEPT ![h] = k]
      /\ next' = next /\ pc' = "idle"
  BY DEF PutHome, Store
<1>4. \A n \in Nodes : value'[n] # Null <=> Taken(n) \/ n = h
  BY <1>1, <1>3 DEF IInv, TypeOK, Taken
<1>5. LinkedIsTaken'
  <2>1. SUFFICES ASSUME NEW n \in Nodes, next'[n] # Null
                 PROVE  value'[n] # Null /\ value'[next'[n]] # Null
    BY DEF LinkedIsTaken, Taken
  <2>2. next[n] \in Nodes /\ Taken(n) /\ Taken(next[n])
    BY <1>3, <2>1 DEF IInv, TypeOK, LinkedIsTaken
  <2>3. QED BY <1>3, <1>4, <2>2
<1>6. StoredIsReachable'
  <2>1. SUFFICES ASSUME NEW n \in Nodes, value'[n] # Null
                 PROVE  Reaches(next', HashStr(key'[n]), n)
    BY DEF StoredIsReachable, Taken, Reaches, Closed, HashStr
  <2>2. CASE n = h
    <3>1. HashStr(key'[n]) = n
      BY <1>1, <1>3, <2>2 DEF IInv, TypeOK
    <3>2. QED BY <3>1, ReachesSelf
  <2>3. CASE n # h
    <3>1. Taken(n) /\ key'[n] = key[n]
      BY <1>3, <1>4, <2>1, <2>3 DEF IInv, TypeOK
    <3>2. QED BY <3>1, <1>3 DEF IInv, StoredIsReachable
  <2>4. QED BY <2>2, <2>3
<1>7. FreeIsEmpty'
  BY <1>1, <1>3 DEF IInv, TypeOK, FreeIsEmpty
<1>8. AppendInv' /\ GetInv'
  BY <1>3 DEF AppendInv, GetInv
<1>9. QED BY <1>2, <1>5, <1>6, <1>7, <1>8 DEF IInv

\* Linking and filling the free node: the chain of the key's home gets one longer.
LEMMA AppendEndIInv ==
  ASSUME IInv, AppendEnd
  PROVE  IInv'
<1>1. /\ cur \in Nodes /\ free \in Nodes /\ argValue \in Values /\ argValue # Null
      /\ argKey \in Keys /\ HashStr(argKey) \in Nodes
      /\ Taken(cur) /\ ~Taken(free) /\ next[cur] = Null
      /\ Reaches(next, HashStr(argKey), cur)
  BY HomeIsNode, NullAssumption DEF IInv, TypeOK, AppendInv, AppendEnd
<1>2. TypeOK'
  BY <1>1 DEF IInv, TypeOK, AppendEnd, Store
<1>3. /\ value' = [value EXCEPT ![free] = argValue]
      /\ key' = [key EXCEPT ![free] = argKey]
      /\ next' = [next EXCEPT ![cur] = free] /\ pc' = "idle"
  BY DEF AppendEnd, Store
<1>4. \A n \in Nodes : value'[n] # Null <=> Taken(n) \/ n = free
  BY <1>1, <1>3 DEF IInv, TypeOK, Taken
<1>5. LinkedIsTaken'
  <2>1. SUFFICES ASSUME NEW n \in Nodes, next'[n] # Null
                 PROVE  value'[n] # Null /\ value'[next'[n]] # Null
    BY DEF LinkedIsTaken, Taken
  <2>2. CASE n = cur
    <3>1. next'[n] = free
      BY <2>2, <1>1, <1>3 DEF IInv, TypeOK
    <3>2. QED BY <3>1, <2>2, <1>1, <1>4
  <2>3. CASE n # cur
    <3>1. next'[n] = next[n] /\ next[n] \in Nodes
      BY <2>1, <2>3, <1>3 DEF IInv, TypeOK
    <3>2. Taken(n) /\ Taken(next[n])
      BY <3>1, <2>1 DEF IInv, LinkedIsTaken
    <3>3. QED BY <3>1, <3>2, <1>4
  <2>4. QED BY <2>2, <2>3
<1>6. ASSUME NEW n \in Nodes, NEW m \in Nodes, Reaches(next, n, m)
      PROVE  Reaches(next', n, m)
  BY <1>1, <1>3, <1>6, ReachesExtended DEF IInv, TypeOK, Links
<1>7. StoredIsReachable'
  <2>1. SUFFICES ASSUME NEW n \in Nodes, value'[n] # Null
                 PROVE  Reaches(next', HashStr(key'[n]), n)
    BY DEF StoredIsReachable, Taken, Reaches, Closed, HashStr
  <2>2. CASE n = free
    <3>1. key'[n] = argKey
      BY <2>2, <1>1, <1>3 DEF IInv, TypeOK
    <3>2. Reaches(next', HashStr(argKey), cur)
      BY <1>1, <1>6
    <3>3. next'[cur] = free /\ free # Null
      BY <1>1, <1>3, NullAssumption DEF IInv, TypeOK, Nodes
    <3>4. Reaches(next', HashStr(argKey), free)
      BY <3>2, <3>3, <1>1, ReachesOn
    <3>5. QED BY <3>1, <3>4, <2>2
  <2>3. CASE n # free
    <3>1. Taken(n) /\ key'[n] = key[n] /\ key[n] \in Keys
      BY <1>3, <1>4, <2>1, <2>3 DEF IInv, TypeOK
    <3>2. Reaches(next, HashStr(key[n]), n)
      BY <3>1 DEF IInv, StoredIsReachable
    <3>3. QED BY <3>1, <3>2, <1>6, HomeIsNode
  <2>4. QED BY <2>2, <2>3
<1>8. FreeIsEmpty'
  BY <1>1, <1>3 DEF IInv, TypeOK, FreeIsEmpty
<1>9. AppendInv' /\ GetInv'
  BY <1>3 DEF AppendInv, GetInv
<1>10. QED BY <1>2, <1>5, <1>7, <1>8, <1>9 DEF IInv

\* Steps that leave the nodes alone keep what is said of the nodes.
LEMMA NodesUnchanged ==
  ASSUME IInv, UNCHANGED nodes
  PROVE  LinkedIsTaken' /\ StoredIsReachable' /\ FreeIsEmpty'
BY DEF IInv, nodes, FreeIsEmpty, LinkedIsTaken, StoredIsReachable, Taken, Reaches, Closed, HashStr

\* A Get that passes a node of another key keeps all nodes of its key ahead.
LEMMA GetStepAhead ==
  ASSUME IInv, pc = "get", ~Matches(cur), argKey # EmptyKey,
         NEW n \in Stored(argKey)
  PROVE  cur # n /\ next[cur] # Null /\ Reaches(next, next[cur], n)
<1>1. /\ n \in Nodes /\ key[n] = argKey /\ cur \in Nodes
      /\ Reaches(next, cur, n) /\ next \in Links
  BY DEF IInv, TypeOK, GetInv, Stored, Links
<1>2. cur # n
  BY <1>1 DEF Matches
<1>3. QED BY <1>1, <1>2, ReachesFromNext

LEMMA GetStepIInv ==
  ASSUME IInv, GetStep
  PROVE  IInv'
<1>1. /\ pc = "get" /\ ~Matches(cur) /\ next[cur] # Null /\ cur' = next[cur]
      /\ pc' = pc /\ next' = next /\ key' = key /\ value' = value /\ argKey' = argKey
  BY DEF GetStep
<1>2. cur' \in Nodes
  BY <1>1 DEF IInv, TypeOK, GetInv
<1>3. TypeOK'
  BY <1>2 DEF IInv, TypeOK, GetStep
<1>4. GetInv'
  <2>1. SUFFICES ASSUME argKey # EmptyKey, NEW n \in Stored(argKey)
                 PROVE  Reaches(next, next[cur], n)
    BY <1>1, <1>2 DEF GetInv, Stored, Taken, Reaches, Closed
  <2>2. QED BY <1>1, <2>1, GetStepAhead
<1>5. AppendInv'
  BY <1>1 DEF AppendInv
<1>6. QED BY <1>1, <1>3, <1>4, <1>5, NodesUnchanged DEF IInv, nodes

LEMMA GetBeginIInv ==
  ASSUME IInv, NEW k \in Keys, GetBegin(k)
  PROVE  IInv'
<1>1. /\ next' = next /\ key' = key /\ value' = value
      /\ argKey' = k /\ cur' = HashStr(k) /\ pc' = "get"
  BY DEF GetBegin
<1>2. cur' \in Nodes
  BY <1>1, HomeIsNode
<1>3. TypeOK'
  BY <1>2 DEF IInv, TypeOK, GetBegin
<1>4. GetInv'
  <2>1. SUFFICES ASSUME NEW n \in Stored(k)
                 PROVE  Reaches(next, HashStr(k), n)
    BY <1>1, <1>2 DEF GetInv, Stored, Taken, Reaches, Closed
  <2>2. n \in Nodes /\ Taken(n) /\ key[n] = k
    BY <2>1 DEF Stored
  <2>3. QED BY <2>2 DEF IInv, StoredIsReachable
<1>5. AppendInv'
  BY <1>1 DEF AppendInv
<1>6. QED BY <1>1, <1>3, <1>4, <1>5, NodesUnchanged DEF IInv, nodes

LEMMA PutNewKeyIInv ==
  ASSUME IInv, NEW k \in Keys, NEW v \in Values, PutNewKey(k, v)
  PROVE  IInv'
<1>1. /\ next' = next /\ key' = key /\ value' = value
      /\ argKey' = k /\ argValue' = v /\ cur' = HashStr(k) /\ pc' = "append"
      /\ free' = GetFreePos /\ Taken(HashStr(k)) /\ GetFreePos # Null
  BY DEF PutNewKey
<1>2. cur' \in Nodes /\ free' \in Nodes /\ ~Taken(free')
  BY <1>1, HomeIsNode, FreePosIsFree
<1>3. TypeOK'
  BY <1>2 DEF IInv, TypeOK, PutNewKey
<1>4. AppendInv'
  <2>1. Reaches(next, HashStr(k), HashStr(k))
    BY HomeIsNode, ReachesSelf
  <2>2. QED BY <1>1, <1>2, <2>1 DEF AppendInv, Taken, Reaches, Closed, HashStr
<1>5. GetInv'
  BY <1>1 DEF GetInv
<1>6. QED BY <1>1, <1>3, <1>4, <1>5, NodesUnchanged DEF IInv, nodes

LEMMA AppendStepIInv ==
  ASSUME IInv, AppendStep
  PROVE  IInv'
<1>1. /\ pc = "append" /\ next[cur] # Null /\ cur' = next[cur] /\ pc' = pc
      /\ next' = next /\ key' = key /\ value' = value
      /\ argKey' = argKey /\ argValue' = argValue /\ free' = free
  BY DEF AppendStep
<1>2. /\ cur \in Nodes /\ cur' \in Nodes /\ argKey \in Keys
      /\ Reaches(next, HashStr(argKey), cur) /\ Taken(next[cur])
  BY <1>1 DEF IInv, TypeOK, AppendInv, LinkedIsTaken
<1>3. TypeOK'
  BY <1>2 DEF IInv, TypeOK, AppendStep
<1>4. AppendInv'
  <2>1. Reaches(next, HashStr(argKey), next[cur])
    BY <1>1, <1>2, HomeIsNode, ReachesOn
  <2>2. free \in Nodes /\ argValue \in Values /\ ~Taken(free)
    BY <1>1 DEF IInv, AppendInv
  <2>3. QED BY <1>1, <1>2, <2>1, <2>2
            DEF AppendInv, Taken, Reaches, Closed, HashStr
<1>5. GetInv'
  BY <1>1 DEF GetInv
<1>6. QED BY <1>1, <1>3, <1>4, <1>5, NodesUnchanged DEF IInv, nodes

LEMMA StepIInv == IInv /\ [Next]_vars => IInv'
<1> SUFFICES ASSUME IInv, [Next]_vars PROVE IInv'
  OBVIOUS
<1>1. ASSUME NEW k \in Keys, NEW v \in Values,
             PutHome(k, v) \/ PutNewKey(k, v) \/ PutFull(k, v)
      PROVE  IInv'
  <2>1. CASE PutHome(k, v)
    BY <2>1, PutHomeIInv
  <2>2. CASE PutNewKey(k, v)
    BY <2>2, PutNewKeyIInv
  <2>3. CASE PutFull(k, v)
    <3>1. TypeOK' /\ AppendInv' /\ GetInv'
      BY <2>3 DEF PutFull, IInv, TypeOK, AppendInv, GetInv
    <3>2. QED BY <2>3, <3>1, NodesUnchanged DEF PutFull, IInv, nodes
  <2>4. QED BY <1>1, <2>1, <2>2, <2>3
<1>2. ASSUME NEW k \in Keys, GetBegin(k) PROVE IInv'
  BY <1>2, GetBeginIInv
<1>3. CASE AppendStep
  BY <1>3, AppendStepIInv
<1>4. CASE AppendEnd
  BY <1>4, AppendEndIInv
<1>5. CASE GetStep
  BY <1>5, GetStepIInv
<1>6. CASE GetFound \/ GetNotFound
  <2>1. UNCHANGED nodes /\ pc' = "idle"
    BY <1>6 DEF GetFound, GetNotFound, nodes
  <2>2. TypeOK'
    BY <1>6 DEF GetFound, GetNotFound, IInv, TypeOK, GetInv
  <2>3. QED BY <2>1, <2>2, NodesUnchanged DEF IInv, AppendInv, GetInv
<1>7. CASE Crashed \/ UNCHANGED vars
  <2>1. UNCHANGED vars
    BY <1>7 DEF Crashed
  <2>2. TypeOK' /\ AppendInv' /\ GetInv'
    BY <2>1 DEF vars, IInv, TypeOK, AppendInv, GetInv, Stored, Taken, Reaches, Closed, HashStr
  <2>3. QED BY <2>1, <2>2, NodesUnchanged DEF IInv, vars, nodes
<1>8. QED BY <1>1, <1>2, <1>3, <1>4, <1>5, <1>6, <1>7 DEF Next, Running

\* Links join taken nodes only, and every stored key is in the chain of its home
\* node: for every table size and every hash function.
THEOREM TableInvariant == Spec => [](TypeOK /\ LinkedIsTaken /\ StoredIsReachable)
<1>1. Spec => []IInv
  BY InitIInv, StepIInv, PTL DEF Spec
<1>2. IInv => TypeOK /\ LinkedIsTaken /\ StoredIsReachable
  BY DEF IInv
<1>3. QED BY <1>1, <1>2, PTL

\* A Get returns null only for a key under which nothing is stored: no put is ever
\* lost from sight, however the chains run into each other.
THEOREM GetMissesNothing == Spec => GetMissIsAbsent
<1>1. Spec => []IInv
  BY InitIInv, StepIInv, PTL DEF Spec
<1>2. ASSUME IInv, [Next]_vars, pc = "get", pc' = "idle", ret' = Null, argKey # EmptyKey
      PROVE  Stored(argKey) = {}
  <2>1. GetFound \/ GetNotFound
    BY <1>2 DEF Next, Running, PutHome, PutNewKey, PutFull, GetBegin, AppendStep,
                AppendEnd, GetStep, Crashed, vars
  <2>2. CASE GetFound
    <3>1. cur \in Nodes /\ key[cur] = argKey /\ value[cur] = Null
      BY <1>2, <2>2 DEF GetFound, Matches, IInv, GetInv
    <3>2. QED BY <3>1, <1>2 DEF IInv, FreeIsEmpty
  <2>3. CASE GetNotFound
    BY <1>2, <2>3, GetStepAhead DEF GetNotFound
  <2>4. QED BY <2>1, <2>2, <2>3
<1>3. IInv /\ [Next]_vars =>
        [ pc = "get" /\ pc' = "idle" /\ ret' = Null /\ argKey # EmptyKey
            => Stored(argKey) = {} ]_vars
  BY <1>2
<1>4. QED BY <1>1, <1>3, PTL DEF Spec, GetMissIsAbsent

(***************************************************************************)
(* The table implements the map.  No chain is a ring, and of the nodes     *)
(* that hold a key one is the first: the others are behind it.  That one   *)
(* is where Get stops, and what a later Put appends is behind it.          *)
(***************************************************************************)

Ringless(link) == \A n, m \in Nodes : Reaches(link, n, m) /\ Reaches(link, m, n) => n = m
FirstIn(link, S, n) == n \in S /\ \A m \in S : Reaches(link, n, m)
ChosenFirst(link, S) == CHOOSE n \in S : \A m \in S : m # n => ~Reaches(link, m, n)

HasFirst == \A k \in Keys : Stored(k) # {} => \E n \in Nodes : FirstIn(next, Stored(k), n)

HInv == IInv /\ Ringless(next) /\ HasFirst

LEMMA FirstIsChosen ==
  ASSUME NEW link, Ringless(link), NEW S \in SUBSET Nodes, NEW n, FirstIn(link, S, n)
  PROVE  ChosenFirst(link, S) = n
<1>1. n \in S /\ \A m \in S : m # n => ~Reaches(link, m, n)
  BY DEF Ringless, FirstIn
<1>2. \A x \in S : (\A m \in S : m # x => ~Reaches(link, m, x)) => x = n
  BY DEF FirstIn
<1>. QED BY <1>1, <1>2 DEF ChosenFirst

LEMMA ReachesIsNode ==
  ASSUME NEW link \in Links, NEW n \in Nodes, NEW m, Reaches(link, n, m)
  PROVE  m \in Nodes
<1>1. Closed(link, Nodes) /\ Nodes \in SUBSET Nodes
  BY DEF Closed, Links
<1>. QED BY <1>1 DEF Reaches

LEMMA ReachesThrough ==
  ASSUME NEW link \in Links, NEW n \in Nodes, NEW m \in Nodes, NEW o \in Nodes,
         Reaches(link, n, m), Reaches(link, m, o)
  PROVE  Reaches(link, n, o)
BY DEF Reaches

\* Two nodes on one walk: one of them is behind the other.
LEMMA ReachesLinear ==
  ASSUME NEW link \in Links, NEW h \in Nodes, NEW a \in Nodes, NEW b \in Nodes,
         Reaches(link, h, a), Reaches(link, h, b)
  PROVE  Reaches(link, a, b) \/ Reaches(link, b, a)
<1> DEFINE S == {m \in Nodes : Reaches(link, a, m) \/ Reaches(link, m, a)}
<1>1. ASSUME NEW m \in S, link[m] # Null PROVE link[m] \in S
  <2>1. m \in Nodes /\ link[m] \in Nodes
    BY <1>1 DEF Links
  <2>2. CASE Reaches(link, a, m)
    BY <1>1, <2>1, <2>2, ReachesOn
  <2>3. CASE Reaches(link, m, a) /\ m # a
    BY <2>1, <2>3, ReachesFromNext
  <2>4. CASE m = a
    BY <1>1, <2>1, <2>4, ReachesSelf, ReachesOn
  <2>. QED BY <1>1, <2>2, <2>3, <2>4
<1>2. Closed(link, S) /\ S \in SUBSET Nodes /\ h \in S
  BY <1>1 DEF Closed
<1>3. b \in S
  BY <1>2 DEF Reaches
<1>. QED BY <1>3

\* A walk along the lengthened chain is one along the old, or ends with the new link.
LEMMA ReachesShortened ==
  ASSUME NEW link \in Links, NEW c \in Nodes, NEW f \in Nodes, link[c] = Null, link[f] = Null,
         c # f, NEW n \in Nodes, NEW m \in Nodes, Reaches([link EXCEPT ![c] = f], n, m)
  PROVE  Reaches(link, n, m) \/ (m = f /\ Reaches(link, n, c))
<1>1. PICK longer : longer = [link EXCEPT ![c] = f]
  OBVIOUS
<1>2. longer[c] = f /\ \A x \in Nodes \ {c} : longer[x] = link[x]
  BY <1>1 DEF Links
<1>3. n # c \/ Reaches(link, n, c)
  BY ReachesSelf
<1> DEFINE R == {x \in Nodes : Reaches(link, n, x)}
           S == {x \in Nodes : Reaches(link, n, x) \/ (x = f /\ Reaches(link, n, c))}
<1>4. ASSUME NEW x \in S, longer[x] # Null PROVE longer[x] \in S
  <2>1. CASE x = c
    <3>1. Reaches(link, n, c)
      BY <1>4, <2>1
    <3>. QED BY <1>2, <2>1, <3>1
  <2>2. CASE x # c /\ Reaches(link, n, x)
    <3>1. longer[x] = link[x] /\ link[x] \in Nodes /\ x \in Nodes
      BY <1>2, <1>4, <2>2 DEF Links
    <3>2. Reaches(link, n, link[x])
      BY <1>4, <2>2, <3>1, ReachesOn
    <3>. QED BY <3>1, <3>2
  <2>3. CASE x # c /\ x = f
    BY <1>2, <1>4, <2>3
  <2>. QED BY <1>4, <2>1, <2>2, <2>3
<1>5. n \in S
  BY ReachesSelf
<1>6. m \in S
  BY <1>1, <1>4, <1>5 DEF Reaches, Closed
<1>. QED BY <1>6

\* The node that is linked was in no chain, so that linking it makes no ring.
LEMMA StillRingless ==
  ASSUME NEW link \in Links, NEW c \in Nodes, NEW f \in Nodes, link[c] = Null, link[f] = Null,
         c # f, Ringless(link)
  PROVE  Ringless([link EXCEPT ![c] = f])
<1>1. PICK longer : longer = [link EXCEPT ![c] = f]
  OBVIOUS
<1>2. \A x \in Nodes : Reaches(link, f, x) => x = f
  BY ReachesFromNext
<1>3. ASSUME NEW n \in Nodes, NEW m \in Nodes, Reaches(longer, n, m), Reaches(longer, m, n)
      PROVE  n = m
  <2>1. /\ Reaches(link, n, m) \/ (m = f /\ Reaches(link, n, c))
        /\ Reaches(link, m, n) \/ (n = f /\ Reaches(link, m, c))
    BY <1>1, <1>3, ReachesShortened
  <2>. QED BY <1>2, <2>1 DEF Ringless
<1>. QED BY <1>1, <1>3 DEF Ringless

\* The map that a table stands for has the keys that are stored, each with the value of
\* its first node.
ContentsAreFirsts ==
  /\ DOMAIN Contents = {k \in Keys : k # EmptyKey /\ Stored(k) # {}}
  /\ \A k \in DOMAIN Contents, n \in Nodes :
       FirstIn(next, Stored(k), n) => Contents[k] = value[n]

LEMMA ContentsFacts == TypeOK /\ Ringless(next) /\ HasFirst => ContentsAreFirsts
<1> SUFFICES ASSUME TypeOK, Ringless(next), HasFirst PROVE ContentsAreFirsts
  OBVIOUS
<1>1. DOMAIN Contents = {key[n] : n \in {m \in Nodes : Taken(m)}} \ {EmptyKey}
  BY DEF Contents
<1>2. \A n \in Nodes : key[n] \in Keys
  BY DEF TypeOK
<1>3. DOMAIN Contents = {k \in Keys : k # EmptyKey /\ Stored(k) # {}}
  BY <1>1, <1>2 DEF Stored
<1>4. ASSUME NEW k \in DOMAIN Contents, NEW n \in Nodes, FirstIn(next, Stored(k), n)
      PROVE  Contents[k] = value[n]
  <2>1. Stored(k) \in SUBSET Nodes
    BY DEF Stored
  <2>2. ChosenFirst(next, Stored(k)) = n
    BY <1>4, <2>1, FirstIsChosen
  <2>3. FirstOf(k) = n
    BY <2>2 DEF FirstOf, ChosenFirst
  <2>4. Contents[k] = value[FirstOf(k)]
    BY <1>1 DEF Contents
  <2>. QED BY <2>3, <2>4
<1>. QED BY <1>3, <1>4 DEF ContentsAreFirsts

\* How many nodes are taken: one more when a free one is filled, and all when GetFreePos
\* finds none.
TakenNodes == {n \in Nodes : Taken(n)}

LEMMA NodesFinite == IsFiniteSet(Nodes) /\ Cardinality(Nodes) = TableSize
<1>1. IsFiniteSet(0 .. TableSize - 1)
      /\ Cardinality(0 .. TableSize - 1) = IF 0 > TableSize - 1 THEN 0 ELSE (TableSize - 1) - 0 + 1
  BY TableSizeAssumption, FS_Interval
<1>. QED BY <1>1, TableSizeAssumption DEF Nodes

LEMMA OneMoreTaken ==
  ASSUME TypeOK, NEW f \in Nodes, ~Taken(f), NEW v \in Values, value' = [value EXCEPT ![f] = v]
  PROVE  /\ Cardinality(TakenNodes) \in Nat /\ Cardinality(TakenNodes) < TableSize
         /\ Cardinality(TakenNodes') = Cardinality(TakenNodes) + 1
<1>1. IsFiniteSet(TakenNodes)
  BY NodesFinite, FS_Subset DEF TakenNodes
<1>2. TakenNodes' = TakenNodes \cup {f} /\ f \notin TakenNodes
  BY NullAssumption DEF TakenNodes, Taken, TypeOK
<1>3. IsFiniteSet(TakenNodes \cup {f}) /\ Cardinality(TakenNodes \cup {f}) = Cardinality(TakenNodes) + 1
  BY <1>1, <1>2, FS_AddElement
<1>4. TakenNodes \cup {f} \in SUBSET Nodes
  BY DEF TakenNodes
<1>5. Cardinality(TakenNodes \cup {f}) <= TableSize
  BY <1>4, NodesFinite, FS_Subset
<1>6. Cardinality(TakenNodes) \in Nat
  BY <1>1, FS_CardinalityType
<1>. QED BY <1>2, <1>3, <1>5, <1>6, TableSizeAssumption

LEMMA NoneFreeAllTaken ==
  ASSUME GetFreePos = Null
  PROVE  TakenNodes = Nodes /\ Cardinality(TakenNodes) = TableSize
<1>1. ~\E n \in Nodes : FirstFree(n)
  <2>1. ASSUME \E n \in Nodes : FirstFree(n) PROVE FALSE
    <3>1. GetFreePos \in Nodes
      BY <2>1 DEF GetFreePos
    <3>. QED BY <3>1, NullAssumption DEF Nodes
  <2>. QED BY <2>1
<1>2. ASSUME NEW n \in Nodes, ~Taken(n) PROVE FALSE
  <2> DEFINE U == {m \in Nodes : ~Taken(m)}
  <2>1. U \in SUBSET Nat /\ n \in U
    BY <1>2 DEF Nodes
  <2>2. PICK m \in U : \A x \in U : m <= x
    <3>1. PICK R : R = OpToRel(<, Nat) /\ IsWellFoundedOn(R, Nat)
      BY NatLessThanWellFounded
    <3>2. \A a, b \in Nat : a < b => <<a, b>> \in R
      BY <3>1 DEF OpToRel
    <3>3. PICK m \in U : \A x \in U : ~(<<x, m>> \in R)
      BY <2>1, <3>1, WFMin
    <3>4. \A x \in U : m <= x
      <4>1. TAKE x \in U
      <4>2. x \in Nat /\ m \in Nat
        BY <2>1, <3>3
      <4>3. ~(x < m)
        BY <3>2, <3>3, <4>2
      <4>. QED BY <4>2, <4>3
    <3>. QED BY <3>3, <3>4
  <2>3. \A x \in Nodes : x < m => Taken(x)
    <3>1. TAKE x \in Nodes
    <3>2. m \in Nat /\ x \in Nat
      BY <2>1, <2>2 DEF Nodes
    <3>. QED BY <2>2, <3>2
  <2>4. FirstFree(m)
    BY <2>2, <2>3 DEF FirstFree
  <2>. QED BY <1>1, <2>2, <2>4
<1>3. TakenNodes = Nodes
  BY <1>2 DEF TakenNodes
<1>. QED BY <1>3, NodesFinite

\* A free node is filled for k, behind the first node of k if it has one.
LEMMA FillingPuts ==
  ASSUME HInv, Ringless(next)', TypeOK', NEW k \in Keys, NEW v \in Values, NEW f \in Nodes,
         ~Taken(f), Store(f, k, v),
         \A n, m \in Nodes : Reaches(next, n, m) => Reaches(next', n, m),
         \A n \in Nodes : FirstIn(next, Stored(k), n) => Reaches(next', n, f),
         ret' = ret, pc # "crashed", pc' # "crashed"
  PROVE  HasFirst' /\ Map!MapPut(k, v)
<1>1. /\ value' = [value EXCEPT ![f] = v] /\ key' = [key EXCEPT ![f] = k] /\ v # Null
      /\ value'[f] = v /\ key'[f] = k
      /\ \A n \in Nodes \ {f} : value'[n] = value[n] /\ key'[n] = key[n]
      /\ TypeOK
  BY NullAssumption DEF Store, HInv, IInv, TypeOK
<1>2. /\ Stored(k)' = Stored(k) \cup {f} /\ f \notin Stored(k)
      /\ \A j \in Keys \ {k} : Stored(j)' = Stored(j) /\ f \notin Stored(j)
  BY <1>1 DEF Stored, Taken
<1>3. \A j \in Keys : Stored(j) \in SUBSET Nodes
  BY DEF Stored
<1>4. ASSUME NEW j \in Keys, NEW n \in Nodes, FirstIn(next, Stored(j), n)
      PROVE  FirstIn(next', Stored(j)', n) /\ value'[n] = value[n]
  <2>1. n \in Stored(j) /\ n # f
    BY <1>2, <1>4 DEF FirstIn
  <2>2. \A m \in Stored(j) : Reaches(next', n, m)
    BY <1>3, <1>4 DEF FirstIn
  <2>3. j = k => Reaches(next', n, f)
    BY <1>4
  <2>. QED BY <1>1, <1>2, <2>1, <2>2, <2>3 DEF FirstIn
<1>5. Stored(k) = {} => FirstIn(next', Stored(k)', f)
  <2>1. Reaches(next', f, f)
    BY ReachesSelf
  <2>. QED BY <1>2, <2>1 DEF FirstIn
<1>6. HasFirst'
  <2>1. ASSUME NEW j \in Keys, Stored(j)' # {}
        PROVE  \E n \in Nodes : FirstIn(next', Stored(j)', n)
    <3>1. CASE Stored(j) # {}
      <4>1. PICK n \in Nodes : FirstIn(next, Stored(j), n)
        BY <3>1 DEF HInv, HasFirst
      <4>. QED BY <1>4, <4>1
    <3>2. CASE Stored(j) = {}
      <4>1. j = k
        BY <1>2, <2>1, <3>2
      <4>. QED BY <1>5, <3>2, <4>1
    <3>. QED BY <3>1, <3>2
  <2>. QED BY <2>1 DEF HasFirst, FirstIn, Reaches, Closed
<1>7. /\ DOMAIN Contents = {j \in Keys : j # EmptyKey /\ Stored(j) # {}}
      /\ \A j \in DOMAIN Contents, n \in Nodes :
           FirstIn(next, Stored(j), n) => Contents[j] = value[n]
  BY <1>1, ContentsFacts DEF HInv, ContentsAreFirsts
<1>8. /\ DOMAIN Contents' = {j \in Keys : j # EmptyKey /\ Stored(j)' # {}}
      /\ \A j \in DOMAIN Contents', n \in Nodes :
           FirstIn(next', Stored(j)', n) => Contents'[j] = value'[n]
  <2>1. TypeOK' /\ Ringless(next)' /\ HasFirst' => ContentsAreFirsts'
    BY ContentsFacts, PTL
  <2>. QED BY <1>6, <2>1 DEF ContentsAreFirsts, FirstIn, Reaches, Closed
<1>9. ASSUME NEW j \in DOMAIN Contents PROVE j \in DOMAIN Contents' /\ Contents'[j] = Contents[j]
  <2>1. j \in Keys /\ j # EmptyKey /\ Stored(j) # {}
    BY <1>7
  <2>2. PICK n \in Nodes : FirstIn(next, Stored(j), n)
    BY <2>1 DEF HInv, HasFirst
  <2>3. FirstIn(next', Stored(j)', n) /\ value'[n] = value[n]
    BY <1>4, <2>1, <2>2
  <2>4. Stored(j)' # {}
    BY <2>3 DEF FirstIn
  <2>5. j \in DOMAIN Contents'
    BY <1>8, <2>1, <2>4
  <2>. QED BY <1>7, <1>8, <2>2, <2>3, <2>5
<1>10. ASSUME k # EmptyKey, k \notin DOMAIN Contents
       PROVE  k \in DOMAIN Contents' /\ Contents'[k] = v
  <2>1. Stored(k) = {}
    BY <1>7, <1>10
  <2>2. FirstIn(next', Stored(k)', f)
    BY <1>5, <2>1
  <2>3. k \in DOMAIN Contents'
    BY <1>2, <1>8, <1>10
  <2>. QED BY <1>1, <1>8, <2>2, <2>3
<1>11. DOMAIN Contents' = IF k = EmptyKey \/ k \in DOMAIN Contents
                            THEN DOMAIN Contents ELSE DOMAIN Contents \cup {k}
  <2>1. \A j \in DOMAIN Contents' : j \in DOMAIN Contents \/ (j = k /\ k # EmptyKey)
    BY <1>2, <1>7, <1>8
  <2>. QED BY <1>9, <1>10, <2>1
<1>12. Contents' = IF k = EmptyKey \/ k \in DOMAIN Contents
                     THEN Contents
                     ELSE [x \in DOMAIN Contents \cup {k} |-> IF x = k THEN v ELSE Contents[x]]
  <2>1. /\ Contents = [x \in DOMAIN Contents |-> Contents[x]]
        /\ Contents' = [x \in DOMAIN Contents' |-> Contents'[x]]
    BY DEF Contents
  <2>2. CASE k = EmptyKey \/ k \in DOMAIN Contents
    BY <1>9, <1>11, <2>1, <2>2
  <2>3. CASE ~(k = EmptyKey \/ k \in DOMAIN Contents)
    <3>1. DOMAIN Contents' = DOMAIN Contents \cup {k}
      BY <1>11, <2>3
    <3>2. \A x \in DOMAIN Contents \cup {k} : Contents'[x] = IF x = k THEN v ELSE Contents[x]
      BY <1>9, <1>10, <2>3
    <3>3. Contents' = [x \in DOMAIN Contents \cup {k} |-> IF x = k THEN v ELSE Contents[x]]
      BY <2>1, <3>1, <3>2
    <3>. QED BY <2>3, <3>3
  <2>. QED BY <2>2, <2>3
<1>13. /\ Cardinality({n \in Nodes : Taken(n)}) < TableSize
       /\ Cardinality({n \in Nodes : Taken(n)}') = Cardinality({n \in Nodes : Taken(n)}) + 1
  BY <1>1, OneMoreTaken DEF TakenNodes
<1>14. (pc = "crashed") = FALSE /\ (pc' = "crashed") = FALSE
  OBVIOUS
<1>15. Map!MapPut(k, v)
  BY <1>12, <1>13, <1>14 DEF Map!MapPut
<1>. QED BY <1>6, <1>15

\* A free home node: nothing is stored under a key whose home is free.
LEMMA HomeFreeNothingStored ==
  ASSUME IInv, NEW k \in Keys, ~Taken(HashStr(k))
  PROVE  Stored(k) = {}
<1> SUFFICES ASSUME NEW n \in Stored(k) PROVE FALSE
  OBVIOUS
<1>1. n \in Nodes /\ Taken(n) /\ key[n] = k /\ HashStr(k) \in Nodes /\ next \in Links
  BY HomeIsNode DEF Stored, IInv, TypeOK, Links
<1>2. Reaches(next, HashStr(k), n) /\ HashStr(k) # n
  BY <1>1 DEF IInv, StoredIsReachable
<1>3. next[HashStr(k)] # Null
  BY <1>1, <1>2, ReachesFromNext
<1>. QED BY <1>1, <1>3 DEF IInv, LinkedIsTaken

LEMMA PutHomePuts ==
  ASSUME HInv, IInv', NEW k \in Keys, NEW v \in Values, PutHome(k, v)
  PROVE  HInv' /\ Map!MapPut(k, v)
<1>1. /\ next' = next /\ ret' = ret /\ pc = "idle" /\ pc' = "idle"
      /\ ~Taken(HashStr(k)) /\ Store(HashStr(k), k, v) /\ HashStr(k) \in Nodes
  BY HomeIsNode DEF PutHome
<1>2. Ringless(next)'
  BY <1>1 DEF HInv, Ringless, Reaches, Closed
<1>3. Stored(k) = {}
  BY <1>1, HomeFreeNothingStored DEF HInv
<1>4. \A n \in Nodes : FirstIn(next, Stored(k), n) => Reaches(next', n, HashStr(k))
  BY <1>3 DEF FirstIn
<1>5. HasFirst' /\ Map!MapPut(k, v)
  BY <1>1, <1>2, <1>4, FillingPuts DEF IInv
<1>. QED BY <1>2, <1>5 DEF HInv

LEMMA AppendEndPuts ==
  ASSUME HInv, IInv', AppendEnd
  PROVE  HInv' /\ Map!MapPut(argKey, argValue)
<1>1. /\ cur \in Nodes /\ free \in Nodes /\ argValue \in Values /\ argKey \in Keys
      /\ HashStr(argKey) \in Nodes /\ Taken(cur) /\ ~Taken(free) /\ next[cur] = Null
      /\ Reaches(next, HashStr(argKey), cur) /\ next \in Links
      /\ Store(free, argKey, argValue) /\ next' = [next EXCEPT ![cur] = free]
      /\ pc = "append" /\ pc' = "idle" /\ ret' = ret
  BY HomeIsNode DEF HInv, IInv, TypeOK, AppendInv, AppendEnd, Links
<1>2. next[free] = Null /\ cur # free
  BY <1>1 DEF HInv, IInv, LinkedIsTaken
<1>3. Ringless(next')
  BY <1>1, <1>2, StillRingless DEF HInv
<1>4. \A n, m \in Nodes : Reaches(next, n, m) => Reaches(next', n, m)
  BY <1>1, ReachesExtended
<1>5. ASSUME NEW n \in Nodes, FirstIn(next, Stored(argKey), n)
      PROVE  Reaches(next', n, free)
  <2>1. Taken(n) /\ key[n] = argKey
    BY <1>5 DEF FirstIn, Stored
  <2>2. Reaches(next, HashStr(argKey), n)
    BY <2>1 DEF HInv, IInv, StoredIsReachable
  <2>3. Reaches(next, n, cur)
    <3>1. CASE Reaches(next, cur, n)
      <4>1. n = cur
        BY <1>1, <3>1, ReachesFromNext
      <4>. QED BY <4>1, ReachesSelf
    <3>. QED BY <1>1, <2>2, <3>1, ReachesLinear
  <2>4. Reaches(next', n, cur)
    BY <1>1, <1>4, <2>3
  <2>5. next'[cur] = free /\ free # Null
    BY <1>1, NullAssumption DEF Links, Nodes
  <2>. QED BY <1>1, <2>4, <2>5, ReachesOn
<1>6. Ringless(next)'
  BY <1>3 DEF Ringless, Reaches, Closed
<1>7. HasFirst' /\ Map!MapPut(argKey, argValue)
  BY <1>1, <1>4, <1>5, <1>6, FillingPuts DEF IInv
<1>. QED BY <1>6, <1>7 DEF HInv

\* Get stops at the first node of its key: all others of the key are ahead of it.
LEMMA GetGets ==
  ASSUME HInv, GetFound \/ GetNotFound
  PROVE  Map!MapGet(argKey)
<1>1. ContentsAreFirsts /\ argKey \in Keys /\ cur \in Nodes /\ pc = "get" /\ pc' = "idle"
  BY ContentsFacts DEF HInv, IInv, TypeOK, GetInv, GetFound, GetNotFound
<1>2. UNCHANGED nodes
  BY DEF GetFound, GetNotFound, nodes
<1>3. Contents' = Contents /\ Cardinality({n \in Nodes : Taken(n)})' = Cardinality({n \in Nodes : Taken(n)})
  BY <1>2 DEF nodes, Contents, Taken, FirstOf, Stored, Reaches, Closed
<1>4. CASE GetFound
  <2>1. argKey # EmptyKey /\ key[cur] = argKey /\ ret' = value[cur]
    BY <1>4 DEF GetFound, Matches
  <2>2. cur \in Stored(argKey)
    BY <1>1, <2>1 DEF Stored, Taken, HInv, IInv, FreeIsEmpty
  <2>3. \A n \in Stored(argKey) : Reaches(next, cur, n)
    BY <1>1, <2>1 DEF HInv, IInv, GetInv
  <2>4. FirstIn(next, Stored(argKey), cur)
    BY <2>2, <2>3 DEF FirstIn
  <2>5. argKey \in DOMAIN Contents /\ Contents[argKey] = value[cur]
    BY <1>1, <2>1, <2>2, <2>4 DEF ContentsAreFirsts
  <2>. QED BY <1>1, <1>3, <2>1, <2>5 DEF Map!MapGet
<1>5. CASE GetNotFound
  <2>1. ret' = Null /\ ~Matches(cur) /\ next[cur] = Null
    BY <1>5 DEF GetNotFound
  <2>2. argKey # EmptyKey => Stored(argKey) = {}
    BY <1>1, <2>1, GetStepAhead DEF HInv
  <2>3. argKey \notin DOMAIN Contents
    BY <2>2, <1>1 DEF ContentsAreFirsts
  <2>. QED BY <1>1, <1>3, <2>1, <2>3 DEF Map!MapGet
<1>. QED BY <1>4, <1>5

LEMMA InitIsMap == Init => HInv /\ Map!MapInit
<1> SUFFICES ASSUME Init PROVE HInv /\ Map!MapInit
  OBVIOUS
<1>1. IInv
  BY InitIInv
<1>2. \A n \in Nodes : next[n] = Null /\ ~Taken(n)
  BY DEF Init, Taken
<1>3. next \in Links
  BY <1>1 DEF IInv, TypeOK, Links
<1>4. Ringless(next)
  BY <1>2, <1>3, ReachesFromNext DEF Ringless
<1>5. \A k \in Keys : Stored(k) = {}
  BY <1>2 DEF Stored
<1>6. HasFirst
  BY <1>5 DEF HasFirst
<1>7. {n \in Nodes : Taken(n)} = {} /\ Cardinality({n \in Nodes : Taken(n)}) = 0
  BY <1>2, FS_EmptySet
<1>8. DOMAIN Contents = {} /\ Contents = [k \in DOMAIN Contents |-> Contents[k]]
  BY <1>7 DEF Contents
<1>9. Contents = [k \in {} |-> Null]
  BY <1>8
<1>. QED BY <1>1, <1>4, <1>6, <1>7, <1>9 DEF HInv, Init, Map!MapInit

LEMMA StepIsMap ==
  ASSUME HInv, [Next]_vars
  PROVE  HInv' /\ [Map!MapNext]_(Map!mapVars)
<1>1. IInv'
  BY StepIInv DEF HInv
<1>2. ASSUME UNCHANGED nodes
      PROVE  /\ HInv' /\ Contents' = Contents
             /\ Cardinality({n \in Nodes : Taken(n)})' = Cardinality({n \in Nodes : Taken(n)})
  <2>1. Ringless(next)' /\ HasFirst'
    BY <1>2 DEF nodes, HInv, Ringless, HasFirst, FirstIn, Stored, Taken, Reaches, Closed
  <2>2. Contents' = Contents
    BY <1>2 DEF nodes, Contents, Taken, FirstOf, Stored, Reaches, Closed
  <2>3. Cardinality({n \in Nodes : Taken(n)})' = Cardinality({n \in Nodes : Taken(n)})
    BY <1>2 DEF nodes, Taken
  <2>. QED BY <1>1, <2>1, <2>2, <2>3 DEF HInv
<1>3. ASSUME UNCHANGED nodes, ret' = ret, pc # "crashed" <=> pc' # "crashed"
      PROVE  HInv' /\ UNCHANGED Map!mapVars
  <2>1. (pc' = "crashed") = (pc = "crashed")
    BY <1>3
  <2>. QED BY <1>2, <1>3, <2>1 DEF Map!mapVars
<1>4. ASSUME NEW k \in Keys, NEW v \in Values, PutHome(k, v)
      PROVE  HInv' /\ [Map!MapNext]_(Map!mapVars)
  BY <1>1, <1>4, PutHomePuts DEF Map!MapNext
<1>5. ASSUME NEW k \in Keys, NEW v \in Values, PutNewKey(k, v)
      PROVE  HInv' /\ [Map!MapNext]_(Map!mapVars)
  BY <1>3, <1>5 DEF PutNewKey, nodes
<1>6. ASSUME NEW k \in Keys, NEW v \in Values, PutFull(k, v)
      PROVE  HInv' /\ [Map!MapNext]_(Map!mapVars)
  <2>1. UNCHANGED nodes /\ ret' = ret /\ pc = "idle" /\ pc' = "crashed" /\ GetFreePos = Null
    BY <1>6 DEF PutFull, nodes
  <2>2. Cardinality({n \in Nodes : Taken(n)}) = TableSize
    BY <2>1, NoneFreeAllTaken DEF TakenNodes
  <2>3. (pc = "crashed") = FALSE /\ (pc' = "crashed") = TRUE
    BY <2>1
  <2>4. Map!MapPutFull
    BY <1>2, <2>1, <2>2, <2>3 DEF Map!MapPutFull
  <2>. QED BY <1>2, <2>1, <2>4 DEF Map!MapNext
<1>7. CASE \/ \E k \in Keys : GetBegin(k)
           \/ AppendStep \/ GetStep \/ Crashed \/ UNCHANGED vars
  BY <1>3, <1>7 DEF GetBegin, AppendStep, GetStep, Crashed, vars, nodes
<1>8. CASE AppendEnd
  <2>1. argKey \in Keys /\ argValue \in Values
    BY <1>8 DEF AppendEnd, HInv, IInv, TypeOK, AppendInv
  <2>. QED BY <1>1, <1>8, <2>1, AppendEndPuts DEF Map!MapNext
<1>9. CASE GetFound \/ GetNotFound
  <2>1. UNCHANGED nodes
    BY <1>9 DEF GetFound, GetNotFound, nodes
  <2>2. argKey \in Keys
    BY DEF HInv, IInv, TypeOK
  <2>. QED BY <1>2, <1>9, <2>1, <2>2, GetGets DEF Map!MapNext
<1>. QED BY <1>4, <1>5, <1>6, <1>7, <1>8, <1>9 DEF Next, Running

\* The table is a map in which the first put under a key stays, for every table size, every
\* hash function and however the chains run into each other; and a put breaks the program
\* when as many puts were made as the table has nodes, and not before.
THEOREM TableIsMap == Spec => ImplementsMap
<1>1. HInv /\ [Next]_vars => HInv' /\ [Map!MapNext]_(Map!mapVars)
  BY StepIsMap
<1>. QED BY <1>1, InitIsMap, PTL DEF Spec, ImplementsMap, Map!MapSpec

(***************************************************************************)
(* Index hash: sequences, and walks along the chain.                       *)
(***************************************************************************)

\* Of natural numbers, one is the least.
LEMMA LeastOfPlaces ==
  ASSUME NEW A \in SUBSET Nat, A # {}
  PROVE  \E x \in A : \A y \in A : x <= y
<1>1. PICK R : R = OpToRel(<, Nat) /\ IsWellFoundedOn(R, Nat)
  BY NatLessThanWellFounded
<1>2. \A i, j \in Nat : i < j => <<i, j>> \in R
  BY <1>1 DEF OpToRel
<1>3. PICK x \in A : \A y \in A : ~(<<y, x>> \in R)
  BY <1>1, WFMin
<1>4. \A y \in A : x <= y
  <2>1. TAKE y \in A
  <2>2. x \in Nat /\ y \in Nat /\ ~(y < x)
    BY <1>2, <1>3
  <2> QED
    BY <2>2
<1> QED
  BY <1>3, <1>4

\* What holds at 0 and goes on from one number to the next holds up to N.
LEMMA UpTo ==
  ASSUME NEW N \in Nat, NEW T,
         0 \in T, \A n \in 0 .. N : n \in T /\ n < N => n + 1 \in T
  PROVE  \A n \in 0 .. N : n \in T
<1> SUFFICES ASSUME (0 .. N) \ T # {} PROVE FALSE
  OBVIOUS
<1>1. PICK n \in (0 .. N) \ T : \A m \in (0 .. N) \ T : n <= m
  <2>1. PICK A : A = (0 .. N) \ T
    OBVIOUS
  <2>2. A \in SUBSET Nat /\ A # {}
    BY <2>1
  <2> QED
    BY <2>1, <2>2, LeastOfPlaces
<1>2. n # 0 /\ n - 1 \in 0 .. N /\ n - 1 < N
  BY <1>1
<1>3. n - 1 \in T
  BY <1>1, <1>2
<1>4. (n - 1) + 1 \in T
  BY <1>2, <1>3
<1> QED
  BY <1>1, <1>2, <1>4

\* What comes behind the last of a list is -1.
Item(s, n) == IF n \in 1 .. Len(s) THEN s[n] ELSE -1
Follows(c, s) == \A n \in 1 .. Len(s) : c[s[n]] = Item(s, n + 1)
Once(s) == \A n, m \in 1 .. Len(s) : s[n] = s[m] => n = m

\* A list of places that has none twice is no longer than the array.
LEMMA FitsIn ==
  ASSUME NEW S \in Nat, NEW s \in Seq(0 .. S - 1), Once(s)
  PROVE  Len(s) <= S
<1>1. PICK N : N = Len(s)
  OBVIOUS
<1>2. N \in Nat /\ s \in [1 .. N -> 0 .. S - 1]
  BY <1>1, LenProperties
<1>3. s \in Injection(1 .. N, 0 .. S - 1)
  BY <1>1, <1>2 DEF Injection, Once, IsInjective
<1>4. IsFiniteSet(0 .. S - 1) /\ Cardinality(0 .. S - 1) = S
  BY FS_Interval
<1>5. Cardinality(1 .. N) = N
  BY <1>2, FS_Interval
<1>6. Cardinality(1 .. N) <= Cardinality(0 .. S - 1)
  BY <1>3, <1>4, FS_Injection
<1> QED
  BY <1>1, <1>4, <1>5, <1>6

\* The recursive function of Walk.
IsWalk(w, c, S, n) ==
  w = [k \in 0 .. n |-> [i \in -1 .. S - 1 |->
        IF k = 0 \/ i = -1 THEN <<>> ELSE <<i>> \o w[k - 1][c[i]]]]

LEMMA WalkIsMade ==
  ASSUME NEW x, x.indexSize \in Nat
  PROVE  \E w : /\ IsWalk(w, x.indexChain, x.indexSize, x.indexSize)
                /\ \A first : Walk(x, first) = w[x.indexSize][first]
<1> DEFINE S == x.indexSize
           c == x.indexChain
<1>1. S \in Nat
  OBVIOUS
<1>2. PICK T : T = {n \in 0 .. S : \E h : IsWalk(h, c, S, n)}
  OBVIOUS
<1>3. 0 \in T
  <2>1. PICK h : h = [k \in 0 .. 0 |-> [i \in -1 .. S - 1 |-> <<>>]]
    OBVIOUS
  <2>2. IsWalk(h, c, S, 0)
    BY <2>1 DEF IsWalk
  <2> QED
    BY <1>1, <1>2, <2>2
<1>4. ASSUME NEW n \in 0 .. S, n \in T, n < S
      PROVE  n + 1 \in T
  <2>1. PICK h : IsWalk(h, c, S, n)
    BY <1>2, <1>4
  <2>2. PICK g : g = [k \in 0 .. n + 1 |-> IF k \in 0 .. n THEN h[k]
                       ELSE [i \in -1 .. S - 1 |->
                              IF k = 0 \/ i = -1 THEN <<>> ELSE <<i>> \o h[k - 1][c[i]]]]
    OBVIOUS
  <2>3. \A k \in 0 .. n : g[k] = h[k]
    BY <1>1, <2>2
  <2>4. \A k \in 0 .. n + 1 : g[k] = [i \in -1 .. S - 1 |->
          IF k = 0 \/ i = -1 THEN <<>> ELSE <<i>> \o g[k - 1][c[i]]]
    <3> TAKE k \in 0 .. n + 1
    <3>1. CASE k \in 0 .. n
      <4>1. k = 0 \/ k - 1 \in 0 .. n
        BY <3>1
      <4>2. g[k] = [i \in -1 .. S - 1 |->
              IF k = 0 \/ i = -1 THEN <<>> ELSE <<i>> \o h[k - 1][c[i]]]
        BY <2>1, <2>3, <3>1 DEF IsWalk
      <4>3. k = 0 \/ g[k - 1] = h[k - 1]
        BY <2>3, <4>1
      <4> QED
        BY <4>2, <4>3
    <3>2. CASE k = n + 1
      <4>1. k # 0 /\ k - 1 \in 0 .. n /\ k \notin 0 .. n
        BY <3>2
      <4>2. g[k - 1] = h[k - 1]
        BY <2>3, <4>1
      <4> QED
        BY <2>2, <4>1, <4>2
    <3> QED
      BY <3>1, <3>2
  <2>5. IsWalk(g, c, S, n + 1)
    BY <2>2, <2>4 DEF IsWalk
  <2>6. n + 1 \in 0 .. S
    BY <1>1, <1>4
  <2> QED
    BY <1>2, <2>5, <2>6
<1>5. \A n \in 0 .. S : n \in T
  BY <1>1, <1>3, <1>4, UpTo
<1>6. \E h : IsWalk(h, c, S, S)
  BY <1>1, <1>2, <1>5
<1>7. PICK w : w = CHOOSE walk : walk = [n \in 0 .. x.indexSize |->
                     [i \in -1 .. x.indexSize - 1 |->
                       IF n = 0 \/ i = -1 THEN <<>> ELSE <<i>> \o walk[n - 1][x.indexChain[i]]]]
  OBVIOUS
<1>8. IsWalk(w, c, S, S)
  BY <1>6, <1>7 DEF IsWalk
<1>9. \A first : Walk(x, first) = w[S][first]
  BY <1>7 DEF Walk
<1> QED
  BY <1>8, <1>9

\* A walk along a list gives the list.
LEMMA WalkIsList ==
  ASSUME NEW x, x.indexSize \in Nat, NEW s \in Seq(0 .. x.indexSize - 1), Once(s),
         Follows(x.indexChain, s)
  PROVE  Walk(x, Item(s, 1)) = s
<1>1. PICK S, c, N : S = x.indexSize /\ c = x.indexChain /\ N = Len(s)
  OBVIOUS
<1>2. S \in Nat /\ N \in Nat /\ N <= S /\ \A n \in 1 .. N : s[n] \in 0 .. S - 1
  BY <1>1, FitsIn
<1>3. PICK w : IsWalk(w, c, S, S) /\ \A first : Walk(x, first) = w[S][first]
  BY <1>1, WalkIsMade
<1>4. \A n \in 0 .. S : w[n] = [i \in -1 .. S - 1 |->
        IF n = 0 \/ i = -1 THEN <<>> ELSE <<i>> \o w[n - 1][c[i]]]
  BY <1>3 DEF IsWalk
<1>5. \A n \in 0 .. S : w[n][-1] = <<>>
  <2>1. -1 \in -1 .. S - 1
    BY <1>2
  <2> QED
    BY <1>4, <2>1
<1>6. PICK T : T = {m \in 0 .. N : \A n \in m .. S :
                      w[n][Item(s, (N - m) + 1)] = SubSeq(s, (N - m) + 1, N)}
  OBVIOUS
<1>7. 0 \in T
  <2>1. Item(s, (N - 0) + 1) = -1
    BY <1>1, <1>2 DEF Item
  <2>2. SubSeq(s, (N - 0) + 1, N) = <<>>
    BY <1>2, SubSeqEmpty
  <2>3. \A n \in 0 .. S : w[n][Item(s, (N - 0) + 1)] = SubSeq(s, (N - 0) + 1, N)
    BY <1>5, <2>1, <2>2
  <2> QED
    BY <1>2, <1>6, <2>3
<1>8. ASSUME NEW m \in 0 .. N, m \in T, m < N
      PROVE  m + 1 \in T
  <2>1. PICK p : p = N - m
    OBVIOUS
  <2>2. p \in 1 .. N /\ (N - (m + 1)) + 1 = p /\ (N - m) + 1 = p + 1
    BY <1>2, <1>8, <2>1
  <2>3. Item(s, p) = s[p] /\ s[p] \in 0 .. S - 1 /\ c[s[p]] = Item(s, p + 1)
    BY <1>1, <1>2, <2>2 DEF Item, Follows
  <2>4. SubSeq(s, p, N) = <<s[p]>> \o SubSeq(s, p + 1, N)
    <3>1. p \in 1 .. Len(s) /\ N \in p .. Len(s)
      BY <1>1, <1>2, <2>2
    <3> QED
      BY <3>1, SubSeqRecursiveFirst
  <2>5. ASSUME NEW n \in m + 1 .. S
        PROVE  w[n][Item(s, p)] = SubSeq(s, p, N)
    <3>1. n \in 0 .. S /\ n # 0 /\ n - 1 \in m .. S
      BY <1>2, <1>8, <2>5
    <3>2. w[n - 1][Item(s, p + 1)] = SubSeq(s, p + 1, N)
      BY <1>6, <1>8, <2>2, <3>1
    <3>3. PICK i : i = s[p]
      OBVIOUS
    <3>4. i \in -1 .. S - 1 /\ i # -1
      BY <1>2, <2>3, <3>3
    <3>5. w[n][i] = <<i>> \o w[n - 1][c[i]]
      BY <1>4, <3>1, <3>4
    <3> QED
      BY <2>3, <2>4, <3>2, <3>3, <3>5
  <2>6. m + 1 \in 0 .. N
    BY <1>2, <1>8
  <2> QED
    BY <1>6, <2>2, <2>5, <2>6
<1>9. \A m \in 0 .. N : m \in T
  BY <1>2, <1>7, <1>8, UpTo
<1>10. w[S][Item(s, 1)] = SubSeq(s, 1, N)
  <2>1. N \in T /\ S \in N .. S /\ (N - N) + 1 = 1
    BY <1>2, <1>9
  <2> QED
    BY <1>6, <2>1
<1>11. SubSeq(s, 1, N) = s
  BY <1>1, SubSeqFull
<1> QED
  BY <1>3, <1>10, <1>11

(***************************************************************************)
(* Index hash: the lists that a table holds.                               *)
(***************************************************************************)

\* Lists whose first items are in h, and what is behind each in c.
Apart(L, N) ==
  \A a, b \in 0 .. N - 1 : \A n \in 1 .. Len(L[a]), m \in 1 .. Len(L[b]) :
    L[a][n] = L[b][m] => a = b /\ n = m
Listed(h, c, N, S, L) ==
  /\ L = [b \in 0 .. N - 1 |-> L[b]]
  /\ \A b \in 0 .. N - 1 :
       L[b] \in Seq(0 .. S - 1) /\ h[b] = Item(L[b], 1) /\ Follows(c, L[b])
  /\ Apart(L, N)

LEMMA ApartIn ==
  ASSUME NEW N, NEW L, Apart(L, N),
         NEW a \in 0 .. N - 1, NEW b \in 0 .. N - 1,
         NEW n \in 1 .. Len(L[a]), NEW m \in 1 .. Len(L[b]), L[a][n] = L[b][m]
  PROVE  a = b /\ n = m
  BY DEF Apart

\* A table, and the lists that it holds.
HashSizes == {s[1] : s \in Sizes}
IsTable(x) ==
  /\ x = [hashSize |-> x.hashSize, hash |-> x.hash, indexSize |-> x.indexSize,
          indexChain |-> x.indexChain, hashMask |-> x.hashMask, lookupMask |-> x.lookupMask]
  /\ x.hashSize \in HashSizes /\ x.indexSize \in Nat
Used(x) ==
  /\ x.lookupMask = -1 /\ x.hashMask = x.hashSize - 1
  /\ x.hash \in [0 .. x.hashSize - 1 -> -1 .. x.indexSize - 1]
  /\ x.indexChain \in [0 .. x.indexSize - 1 -> -1 .. x.indexSize - 1]
HoldsUsed(x, L) == Used(x) /\ Listed(x.hash, x.indexChain, x.hashSize, x.indexSize, L)
Holds(x, L) ==
  /\ IsTable(x)
  /\ ~IsAllocated(x) => x.lookupMask = 0 /\ L = Lists!NoLists(x.hashSize)
  /\ IsAllocated(x) => HoldsUsed(x, L)

LEMMA SizesArePositive ==
  ASSUME NEW n \in HashSizes
  PROVE  n \in Nat \ {0} /\ INVALID_INDEX \notin [0 .. n - 1 -> Int]
<1>1. PICK s \in Sizes : n = s[1]
  BY DEF HashSizes
<1>2. s \in (Nat \ {0}) \X Nat /\ INVALID_INDEX \notin [0 .. s[1] - 1 -> Int]
  BY SizesAssumption
<1> QED
  BY <1>1, <1>2

\* What is used is allocated.
LEMMA UsedIsAllocated ==
  ASSUME NEW x, IsTable(x), Used(x)
  PROVE  IsAllocated(x)
<1>1. x.hashSize \in Nat \ {0} /\ INVALID_INDEX \notin [0 .. x.hashSize - 1 -> Int]
  BY SizesArePositive DEF IsTable
<1>2. x.hash \in [0 .. x.hashSize - 1 -> Int]
  BY DEF Used, IsTable
<1> QED
  BY <1>1, <1>2 DEF IsAllocated

LEMMA BucketOf ==
  ASSUME NEW hashKey \in Nat, NEW n \in Nat \ {0}
  PROVE  hashKey % n \in 0 .. n - 1 /\ (hashKey \in 0 .. n - 1 => hashKey % n = hashKey)
  OBVIOUS

\* Callers see the lists of a table.
LEMMA ListsAreSeen ==
  ASSUME NEW x, NEW L, Holds(x, L)
  PROVE  /\ ListsOf(x) = L
         /\ \A hashKey \in Nat :
              /\ ~IsAllocated(x) => ListUnder(x, hashKey) = <<>>
              /\ IsAllocated(x) =>
                   /\ Mask(hashKey, x.hashMask) \in 0 .. x.hashSize - 1
                   /\ ListUnder(x, hashKey) = L[Mask(hashKey, x.hashMask)]
<1>1. PICK N : N = x.hashSize
  OBVIOUS
<1>2. N \in Nat \ {0}
  BY <1>1, SizesArePositive DEF Holds, IsTable
<1>3. CASE ~IsAllocated(x)
  <2>1. x.lookupMask = 0 /\ L = Lists!NoLists(N)
    BY <1>1, <1>3 DEF Holds
  <2>2. \A hashKey : ListUnder(x, hashKey) = <<>>
    BY <2>1 DEF ListUnder, First
  <2>3. ListsOf(x) = L
    BY <1>1, <2>1, <2>2 DEF ListsOf, Lists!NoLists
  <2> QED
    BY <1>3, <2>2, <2>3
<1>4. CASE IsAllocated(x)
  <2>1. Used(x) /\ Listed(x.hash, x.indexChain, N, x.indexSize, L) /\ x.indexSize \in Nat
    BY <1>1, <1>4 DEF Holds, HoldsUsed, IsTable
  <2>2. x.lookupMask # 0 /\ x.hashMask + 1 = N
    BY <1>1, <1>2, <2>1 DEF Used
  <2>3. ASSUME NEW b \in 0 .. N - 1
        PROVE  IF x.hash[b] = -1 THEN L[b] = <<>> ELSE L[b] = Walk(x, x.hash[b])
    <3>1. L[b] \in Seq(0 .. x.indexSize - 1) /\ x.hash[b] = Item(L[b], 1) /\ Follows(x.indexChain, L[b])
      BY <2>1 DEF Listed
    <3>2. Once(L[b])
      BY <2>1 DEF Listed, Apart, Once
    <3>3. Walk(x, x.hash[b]) = L[b]
      BY <2>1, <3>1, <3>2, WalkIsList
    <3>4. x.hash[b] = -1 => L[b] = <<>>
      <4>1. PICK s : s = L[b]
        OBVIOUS
      <4>2. s # <<>> => 1 \in 1 .. Len(s) /\ s[1] \in 0 .. x.indexSize - 1
        <5>1. PICK T : T = 0 .. x.indexSize - 1
          OBVIOUS
        <5>2. s \in Seq(T) /\ (s # <<>> => Len(s) \in Nat \ {0})
          BY <3>1, <4>1, <5>1, EmptySeq
        <5>3. s # <<>> => 1 \in 1 .. Len(s)
          BY <5>2
        <5> QED
          BY <5>1, <5>2, <5>3, ElementOfSeq
      <4>3. s # <<>> => Item(s, 1) \in 0 .. x.indexSize - 1
        BY <4>2 DEF Item
      <4> QED
        BY <2>1, <3>1, <4>1, <4>3
    <3> QED
      BY <3>3, <3>4
  <2>4. ASSUME NEW hashKey \in Nat
        PROVE  /\ Mask(hashKey, x.hashMask) \in 0 .. N - 1
               /\ ListUnder(x, hashKey) = L[Mask(hashKey, x.hashMask)]
    <3>1. Mask(hashKey, x.hashMask) \in 0 .. N - 1
      BY <1>2, <2>2, BucketOf DEF Mask
    <3>2. PICK b \in 0 .. N - 1 : b = Mask(hashKey, x.hashMask)
      BY <3>1
    <3>3. First(x, hashKey) = x.hash[b]
      BY <2>2, <3>2 DEF First
    <3>4. ListUnder(x, hashKey) = L[b]
      BY <2>3, <3>3 DEF ListUnder
    <3> QED
      BY <3>2, <3>4
  <2>5. \A b \in 0 .. N - 1 : ListUnder(x, b) = L[b]
    <3>1. \A b \in 0 .. N - 1 : b \in Nat /\ Mask(b, x.hashMask) = b
      BY <1>2, <2>2, BucketOf DEF Mask
    <3> QED
      BY <2>4, <3>1
  <2>6. ListsOf(x) = L
    BY <1>1, <2>1, <2>5 DEF ListsOf, Listed
  <2> QED
    BY <1>1, <1>4, <2>4, <2>6
<1> QED
  BY <1>3, <1>4

\* A table as it is allocated holds nothing.
LEMMA AllocateHolds ==
  ASSUME NEW x, IsTable(x), NEW size \in Nat, NEW y, y = Allocate(x, size)
  PROVE  /\ Holds(y, Lists!NoLists(x.hashSize)) /\ IsAllocated(y)
         /\ y.hashSize = x.hashSize /\ y.indexSize = size
<1>1. PICK N, h, S, c, hm, lm :
        x = [hashSize |-> N, hash |-> h, indexSize |-> S, indexChain |-> c, hashMask |-> hm, lookupMask |-> lm]
  BY DEF IsTable
<1>2. x.hashSize = N /\ N \in HashSizes
  BY <1>1 DEF IsTable
<1>3. N \in Nat \ {0}
  BY <1>2, SizesArePositive
<1>4. y = [hashSize |-> N, hash |-> Cells(N), indexSize |-> size, indexChain |-> Cells(size),
           hashMask |-> N - 1, lookupMask |-> -1]
  BY <1>1, <1>2 DEF Allocate
<1>5. IsTable(y)
  BY <1>2, <1>4 DEF IsTable
<1>6. y.hashSize = N /\ y.hash = Cells(N) /\ y.indexSize = size /\ y.indexChain = Cells(size)
      /\ y.hashMask = N - 1 /\ y.lookupMask = -1
  BY <1>4
<1>7. Used(y)
  BY <1>3, <1>6 DEF Used, Cells
<1>8. Listed(Cells(N), Cells(size), N, size, Lists!NoLists(N))
  <2>1. PICK L : L = Lists!NoLists(N)
    OBVIOUS
  <2>2. L = [b \in 0 .. N - 1 |-> <<>>]
    BY <2>1 DEF Lists!NoLists
  <2>3. <<>> \in Seq(0 .. size - 1) /\ Len(<<>>) = 0 /\ \A n \in 1 .. 0 : FALSE
    BY EmptySeq
  <2>4. Item(<<>>, 1) = -1 /\ Follows(Cells(size), <<>>)
    BY <2>3 DEF Item, Follows
  <2>5. \A b \in 0 .. N - 1 : L[b] = <<>> /\ Cells(N)[b] = -1
    BY <2>2 DEF Cells
  <2> QED
    BY <2>1, <2>2, <2>3, <2>4, <2>5 DEF Listed, Apart
<1> QED
  BY <1>2, <1>5, <1>6, <1>7, <1>8, UsedIsAllocated DEF Holds, HoldsUsed

\* More room makes no difference to lists.
LEMMA RoomIsMade ==
  ASSUME NEW n \in Nat
  PROVE  RoundedUp(n) \in Nat /\ n <= RoundedUp(n)
<1>1. PICK r : r = n % GRANULARITY
  OBVIOUS
<1>2. r \in 0 .. GRANULARITY - 1 /\ GRANULARITY \in Nat \ {0}
  BY <1>1, SizesAssumption, BucketOf
<1>3. RoundedUp(n) = IF r = 0 THEN n ELSE n + GRANULARITY - r
  BY <1>1 DEF RoundedUp
<1> QED
  BY <1>2, <1>3

LEMMA ListedInMore ==
  ASSUME NEW h, NEW c, NEW N, NEW S \in Nat, NEW L, Listed(h, c, N, S, L), NEW R \in Nat, S <= R,
         NEW d, \A i \in 0 .. S - 1 : d[i] = c[i]
  PROVE  Listed(h, d, N, R, L)
<1>1. ASSUME NEW b \in 0 .. N - 1
      PROVE  L[b] \in Seq(0 .. R - 1) /\ Follows(d, L[b])
  <2>1. L[b] \in Seq(0 .. S - 1) /\ Follows(c, L[b])
    BY DEF Listed
  <2>2. L[b] \in Seq(0 .. R - 1)
    <3>1. 0 .. S - 1 \subseteq 0 .. R - 1
      OBVIOUS
    <3> QED
      BY <2>1, <3>1, SeqMonotonic
  <2>3. \A n \in 1 .. Len(L[b]) : L[b][n] \in 0 .. S - 1
    BY <2>1, ElementOfSeq
  <2> QED
    BY <2>1, <2>2, <2>3 DEF Follows
<1> QED
  BY <1>1 DEF Listed

LEMMA ResizeHolds ==
  ASSUME NEW x, NEW L, Holds(x, L), IsAllocated(x), NEW n \in Nat, NEW y, y = ResizeIndex(x, n)
  PROVE  /\ Holds(y, L) /\ IsAllocated(y) /\ y.hashSize = x.hashSize /\ n <= y.indexSize
         /\ x.indexSize <= y.indexSize /\ y.hash = x.hash
         /\ \A i \in 0 .. x.indexSize - 1 : y.indexChain[i] = x.indexChain[i]
<1>1. PICK N, h, S, c, hm, lm :
        x = [hashSize |-> N, hash |-> h, indexSize |-> S, indexChain |-> c, hashMask |-> hm, lookupMask |-> lm]
  BY DEF Holds, IsTable
<1>2. x.hashSize = N /\ x.hash = h /\ x.indexSize = S /\ x.indexChain = c /\ x.hashMask = hm
      /\ x.lookupMask = lm
  BY <1>1
<1>3. IsTable(x) /\ Used(x) /\ Listed(h, c, N, S, L) /\ N \in HashSizes /\ S \in Nat
  BY <1>2 DEF Holds, HoldsUsed, IsTable
<1>4. CASE n <= S
  <2>1. y = x
    BY <1>2, <1>4 DEF ResizeIndex
  <2> QED
    BY <1>2, <1>3, <1>4, <2>1
<1>5. CASE ~(n <= S)
  <2>1. PICK R, d : R = RoundedUp(n) /\ d = [i \in 0 .. R - 1 |-> IF i < S THEN c[i] ELSE -1]
    OBVIOUS
  <2>2. R \in Nat /\ n <= R /\ S <= R
    BY <1>3, <1>5, <2>1, RoomIsMade
  <2>3. y = [hashSize |-> N, hash |-> h, indexSize |-> R, indexChain |-> d, hashMask |-> hm, lookupMask |-> lm]
    BY <1>1, <1>2, <1>5, <2>1 DEF ResizeIndex
  <2>4. y.hashSize = N /\ y.hash = h /\ y.indexSize = R /\ y.indexChain = d /\ y.hashMask = hm
        /\ y.lookupMask = lm
    BY <2>3
  <2>5. IsTable(y)
    BY <1>3, <2>2, <2>3, <2>4 DEF IsTable
  <2>6. \A i \in 0 .. S - 1 : d[i] = c[i]
    BY <1>3, <2>1, <2>2
  <2>7. h \in [0 .. N - 1 -> -1 .. S - 1] /\ c \in [0 .. S - 1 -> -1 .. S - 1]
        /\ lm = -1 /\ hm = N - 1
    BY <1>2, <1>3 DEF Used
  <2>8. h \in [0 .. N - 1 -> -1 .. R - 1] /\ d \in [0 .. R - 1 -> -1 .. R - 1]
    <3>1. -1 .. S - 1 \subseteq -1 .. R - 1 /\ -1 \in -1 .. R - 1
      BY <1>3, <2>2
    <3>2. h \in [0 .. N - 1 -> -1 .. R - 1]
      BY <2>7, <3>1
    <3>3. \A i \in 0 .. R - 1 : d[i] \in -1 .. R - 1
      <4> TAKE i \in 0 .. R - 1
      <4>1. CASE i < S
        <5>1. i \in 0 .. S - 1
          BY <1>3, <4>1
        <5>2. d[i] \in -1 .. S - 1
          BY <2>6, <2>7, <5>1
        <5> QED
          BY <3>1, <5>2
      <4>2. CASE ~(i < S)
        BY <2>1, <3>1, <4>2
      <4> QED
        BY <4>1, <4>2
    <3>4. d = [i \in 0 .. R - 1 |-> d[i]]
      BY <2>1
    <3> QED
      BY <3>2, <3>3, <3>4
  <2>9. Used(y)
    BY <2>4, <2>7, <2>8 DEF Used
  <2>10. Listed(h, d, N, R, L)
    BY <1>3, <2>2, <2>6, ListedInMore
  <2> QED
    BY <1>2, <2>2, <2>4, <2>5, <2>6, <2>9, <2>10, UsedIsAllocated DEF Holds, HoldsUsed
<1> QED
  BY <1>4, <1>5

\* Room for one more.
LEMMA WithRoomHolds ==
  ASSUME NEW x, NEW L, Holds(x, L), NEW index \in Nat, NEW y, y = WithRoom(x, index)
  PROVE  /\ Holds(y, L) /\ IsAllocated(y) /\ y.hashSize = x.hashSize /\ index < y.indexSize
<1>1. x.indexSize \in Nat /\ IsTable(x)
  BY DEF Holds, IsTable
<1>2. CASE ~IsAllocated(x)
  <2>1. PICK size : size = IF index >= x.indexSize THEN index + 1 ELSE x.indexSize
    OBVIOUS
  <2>2. size \in Nat /\ index < size
    BY <1>1, <2>1
  <2>3. y = Allocate(x, size)
    BY <1>2, <2>1 DEF WithRoom
  <2>4. L = Lists!NoLists(x.hashSize)
    BY <1>2 DEF Holds
  <2> QED
    BY <1>1, <2>2, <2>3, <2>4, AllocateHolds
<1>3. CASE IsAllocated(x)
  <2>1. y = ResizeIndex(x, index + 1) /\ index + 1 \in Nat
    BY <1>3 DEF WithRoom
  <2>2. /\ Holds(y, L) /\ IsAllocated(y) /\ y.hashSize = x.hashSize /\ index + 1 <= y.indexSize
    BY <1>3, <2>1, ResizeHolds
  <2>3. y.indexSize \in Nat
    BY <2>2 DEF Holds, IsTable
  <2> QED
    BY <2>2, <2>3
<1> QED
  BY <1>2, <1>3

\* Put before a list.
LEMMA PutBefore ==
  ASSUME NEW T, NEW s \in Seq(T), NEW i \in T, NEW r, r = <<i>> \o s
  PROVE  /\ r \in Seq(T) /\ Len(s) \in Nat /\ Len(r) = Len(s) + 1 /\ r[1] = i
         /\ \A n \in 1 .. Len(s) : r[n + 1] = s[n]
<1>1. PICK u, l : u = <<i>> /\ l = Len(s)
  OBVIOUS
<1>2. u \in Seq(T) /\ Len(u) = 1 /\ u[1] = i /\ l \in Nat
  BY <1>1
<1>3. /\ r \in Seq(T) /\ Len(r) = 1 + l
      /\ \A n \in 1 .. 1 + l : r[n] = IF n <= 1 THEN u[n] ELSE s[n - 1]
  BY <1>1, <1>2, ConcatProperties
<1>4. \A n \in 1 .. l : r[n + 1] = s[n]
  <2> TAKE n \in 1 .. l
  <2>1. n + 1 \in 1 .. 1 + l /\ ~(n + 1 <= 1) /\ (n + 1) - 1 = n
    BY <1>2
  <2> QED
    BY <1>3, <2>1
<1>5. r[1] = i
  BY <1>2, <1>3
<1> QED
  BY <1>1, <1>2, <1>3, <1>4, <1>5

NotIn(L, N, i) == \A b \in 0 .. N - 1 : \A n \in 1 .. Len(L[b]) : L[b][n] # i

\* Where the places of M come from, into which i is put.
Comes(L, M, N, bucket, i) ==
  \A b \in 0 .. N - 1 : \A n \in 1 .. Len(M[b]) :
    \/ b = bucket /\ n = 1 /\ M[b][n] = i
    \/ \E k \in 1 .. Len(L[b]) : /\ M[b][n] = L[b][k] /\ M[b][n] # i
                                 /\ n = IF b = bucket THEN k + 1 ELSE k

LEMMA ApartWithFirst ==
  ASSUME NEW L, NEW M, NEW N, NEW bucket, NEW i, Apart(L, N), Comes(L, M, N, bucket, i)
  PROVE  Apart(M, N)
<1>1. ASSUME NEW a \in 0 .. N - 1, NEW b \in 0 .. N - 1, NEW n \in 1 .. Len(M[a]), NEW m \in 1 .. Len(M[b]),
             M[a][n] = M[b][m]
      PROVE  a = b /\ n = m
  <2>1. CASE M[a][n] = i
    BY <1>1, <2>1 DEF Comes
  <2>2. CASE M[a][n] # i
    <3>1. PICK j \in 1 .. Len(L[a]) : M[a][n] = L[a][j] /\ n = IF a = bucket THEN j + 1 ELSE j
      BY <2>2 DEF Comes
    <3>2. PICK k \in 1 .. Len(L[b]) : M[b][m] = L[b][k] /\ m = IF b = bucket THEN k + 1 ELSE k
      BY <1>1, <2>2 DEF Comes
    <3>3. L[a][j] = L[b][k]
      BY <1>1, <3>1, <3>2
    <3>4. a = b /\ j = k
      BY <3>3 DEF Apart
    <3> QED
      BY <3>1, <3>2, <3>4
  <2> QED
    BY <2>1, <2>2
<1> QED
  BY <1>1 DEF Apart

\* An item put before one of the lists.
LEMMA FirstIsListed ==
  ASSUME NEW N \in Nat, NEW S \in Nat, NEW h, NEW c, NEW L, Listed(h, c, N, S, L),
         h \in [0 .. N - 1 -> -1 .. S - 1], c \in [0 .. S - 1 -> -1 .. S - 1],
         NEW bucket \in 0 .. N - 1, NEW i \in 0 .. S - 1, NotIn(L, N, i),
         NEW M, M = Lists!WithFirst(L, bucket, i)
  PROVE  Listed([h EXCEPT ![bucket] = i], [c EXCEPT ![i] = h[bucket]], N, S, M)
<1>1. PICK f, d : f = [h EXCEPT ![bucket] = i] /\ d = [c EXCEPT ![i] = h[bucket]]
  OBVIOUS
<1>2. /\ f[bucket] = i /\ (\A b \in 0 .. N - 1 : b # bucket => f[b] = h[b])
      /\ d[i] = h[bucket] /\ (\A j \in 0 .. S - 1 : j # i => d[j] = c[j])
  BY <1>1
<1>3. L = [b \in 0 .. N - 1 |-> L[b]]
  BY DEF Listed
<1>4. /\ M = [b \in 0 .. N - 1 |-> M[b]] /\ M[bucket] = <<i>> \o L[bucket]
      /\ \A b \in 0 .. N - 1 : b # bucket => M[b] = L[b]
  BY <1>3 DEF Lists!WithFirst
<1>5. PICK T, s, r, l : T = 0 .. S - 1 /\ s = L[bucket] /\ r = M[bucket] /\ l = Len(s)
  OBVIOUS
<1>6. s \in Seq(T) /\ i \in T /\ h[bucket] = Item(s, 1) /\ Follows(c, s)
  BY <1>5 DEF Listed
<1>7. /\ r \in Seq(T) /\ l \in Nat /\ Len(r) = l + 1 /\ r[1] = i /\ \A n \in 1 .. l : r[n + 1] = s[n]
  <2>1. r = <<i>> \o s
    BY <1>4, <1>5
  <2>2. /\ r \in Seq(T) /\ Len(s) \in Nat /\ Len(r) = Len(s) + 1 /\ r[1] = i
        /\ \A n \in 1 .. Len(s) : r[n + 1] = s[n]
    <3>1. s \in Seq(T) /\ i \in T
      BY <1>6
    <3> QED
      BY <2>1, <3>1, PutBefore
  <2> QED
    BY <1>5, <2>2
<1>8. \A n \in 1 .. l + 1 : n = 1 \/ (n - 1 \in 1 .. l /\ r[n] = s[n - 1])
  <2> TAKE n \in 1 .. l + 1
  <2>1. n = 1 \/ (n - 1 \in 1 .. l /\ (n - 1) + 1 = n)
    BY <1>7
  <2> QED
    BY <1>7, <2>1
<1>9. \A n \in 1 .. l : s[n] \in T /\ s[n] # i
  BY <1>5, <1>6, ElementOfSeq DEF NotIn
<1>10. Follows(d, r)
  <2>1. ASSUME NEW n \in 1 .. l + 1
        PROVE  d[r[n]] = Item(r, n + 1)
    <3>1. CASE n = 1
      <4>1. Item(r, 2) = Item(s, 1)
        <5>1. 2 \in 1 .. l + 1 <=> 1 \in 1 .. l
          BY <1>7
        <5>2. 1 \in 1 .. l => r[1 + 1] = s[1]
          BY <1>7
        <5> QED
          BY <1>5, <1>7, <5>1, <5>2 DEF Item
      <4> QED
        BY <1>2, <1>6, <1>7, <3>1, <4>1
    <3>2. CASE n # 1
      <4>1. PICK k \in 1 .. l : k = n - 1
        BY <1>8, <3>2
      <4>2. r[n] = s[k] /\ s[k] \in T /\ s[k] # i
        BY <1>8, <1>9, <3>2, <4>1
      <4>3. d[s[k]] = c[s[k]]
        BY <1>2, <1>5, <4>2
      <4>4. c[s[k]] = Item(s, k + 1)
        BY <1>5, <1>6 DEF Follows
      <4>5. Item(r, n + 1) = Item(s, k + 1)
        <5>1. (n + 1 \in 1 .. l + 1 <=> k + 1 \in 1 .. l) /\ n + 1 = (k + 1) + 1
          BY <1>7, <4>1
        <5>2. k + 1 \in 1 .. l => r[(k + 1) + 1] = s[k + 1]
          BY <1>7
        <5> QED
          BY <1>5, <1>7, <5>1, <5>2 DEF Item
      <4> QED
        BY <4>2, <4>3, <4>4, <4>5
    <3> QED
      BY <3>1, <3>2
  <2> QED
    BY <1>7, <2>1 DEF Follows
<1>11. f[bucket] = Item(r, 1)
  <2>1. 1 \in 1 .. l + 1
    BY <1>7
  <2> QED
    BY <1>2, <1>7, <2>1 DEF Item
<1>12. ASSUME NEW b \in 0 .. N - 1, b # bucket
       PROVE  M[b] \in Seq(T) /\ f[b] = Item(M[b], 1) /\ Follows(d, M[b])
  <2>1. M[b] = L[b] /\ L[b] \in Seq(T) /\ h[b] = Item(L[b], 1) /\ Follows(c, L[b]) /\ f[b] = h[b]
    BY <1>2, <1>4, <1>5, <1>12 DEF Listed
  <2>2. \A n \in 1 .. Len(L[b]) : L[b][n] \in T /\ L[b][n] # i
    BY <2>1, ElementOfSeq DEF NotIn
  <2>3. Follows(d, L[b])
    BY <1>2, <1>5, <2>1, <2>2 DEF Follows
  <2> QED
    BY <2>1, <2>3
<1>13. ASSUME NEW b \in 0 .. N - 1, NEW n \in 1 .. Len(M[b])
       PROVE  \/ b = bucket /\ n = 1 /\ M[b][n] = i
              \/ \E k \in 1 .. Len(L[b]) : /\ M[b][n] = L[b][k] /\ M[b][n] # i
                                           /\ n = IF b = bucket THEN k + 1 ELSE k
  <2>1. CASE b # bucket
    BY <1>4, <2>1 DEF NotIn
  <2>2. CASE b = bucket /\ n = 1
    BY <1>5, <1>7, <2>2
  <2>3. CASE b = bucket /\ n # 1
    <3>1. n - 1 \in 1 .. l /\ r[n] = s[n - 1] /\ n = (n - 1) + 1
      <4>1. n \in 1 .. l + 1
        BY <1>5, <1>7, <2>3
      <4> QED
        BY <1>7, <1>8, <2>3, <4>1
    <3>2. s[n - 1] # i
      BY <1>9, <3>1
    <3> QED
      BY <1>5, <2>3, <3>1, <3>2
  <2> QED
    BY <2>1, <2>2, <2>3
<1>14. Apart(M, N)
  <2>1. Comes(L, M, N, bucket, i) /\ Apart(L, N)
    BY <1>13 DEF Comes, Listed
  <2> QED
    BY <2>1, ApartWithFirst
<1>15. \A b \in 0 .. N - 1 : M[b] \in Seq(T) /\ f[b] = Item(M[b], 1) /\ Follows(d, M[b])
  BY <1>5, <1>7, <1>10, <1>11, <1>12
<1>16. Listed(f, d, N, S, M)
  BY <1>4, <1>5, <1>14, <1>15 DEF Listed
<1> QED
  BY <1>1, <1>16

\* Linked, and with it Add.
LEMMA LinkedHolds ==
  ASSUME NEW x, NEW L, Holds(x, L), IsAllocated(x), NEW bucket \in 0 .. x.hashSize - 1,
         NEW i \in 0 .. x.indexSize - 1, NotIn(L, x.hashSize, i), NEW y, y = Linked(x, bucket, i)
  PROVE  Holds(y, Lists!WithFirst(L, bucket, i)) /\ IsAllocated(y) /\ y.hashSize = x.hashSize
<1>1. PICK N, h, S, c, hm, lm :
        x = [hashSize |-> N, hash |-> h, indexSize |-> S, indexChain |-> c, hashMask |-> hm, lookupMask |-> lm]
  BY DEF Holds, IsTable
<1>2. x.hashSize = N /\ x.hash = h /\ x.indexSize = S /\ x.indexChain = c /\ x.hashMask = hm
      /\ x.lookupMask = lm
  BY <1>1
<1>3. IsTable(x) /\ Used(x) /\ Listed(h, c, N, S, L) /\ N \in HashSizes /\ S \in Nat
  BY <1>2 DEF Holds, HoldsUsed, IsTable
<1>4. N \in Nat \ {0}
  BY <1>3, SizesArePositive
<1>5. h \in [0 .. N - 1 -> -1 .. S - 1] /\ c \in [0 .. S - 1 -> -1 .. S - 1] /\ lm = -1 /\ hm = N - 1
  BY <1>2, <1>3 DEF Used
<1>6. PICK f, d : f = [h EXCEPT ![bucket] = i] /\ d = [c EXCEPT ![i] = h[bucket]]
  OBVIOUS
<1>7. y = [hashSize |-> N, hash |-> f, indexSize |-> S, indexChain |-> d, hashMask |-> hm, lookupMask |-> lm]
  BY <1>1, <1>2, <1>6 DEF Linked
<1>8. y.hashSize = N /\ y.hash = f /\ y.indexSize = S /\ y.indexChain = d /\ y.hashMask = hm
      /\ y.lookupMask = lm
  BY <1>7
<1>9. IsTable(y)
  BY <1>3, <1>7, <1>8 DEF IsTable
<1>10. f \in [0 .. N - 1 -> -1 .. S - 1] /\ d \in [0 .. S - 1 -> -1 .. S - 1]
  <2>1. i \in -1 .. S - 1 /\ h[bucket] \in -1 .. S - 1
    BY <1>2, <1>3, <1>5
  <2>2. f \in [0 .. N - 1 -> -1 .. S - 1]
    BY <1>5, <1>6, <2>1
  <2>3. d \in [0 .. S - 1 -> -1 .. S - 1]
    BY <1>5, <1>6, <2>1
  <2> QED
    BY <2>2, <2>3
<1>11. Used(y)
  BY <1>5, <1>8, <1>10 DEF Used
<1>12. Listed(f, d, N, S, Lists!WithFirst(L, bucket, i))
  BY <1>2, <1>3, <1>4, <1>5, <1>6, FirstIsListed
<1> QED
  BY <1>2, <1>8, <1>9, <1>11, <1>12, UsedIsAllocated DEF Holds, HoldsUsed

LEMMA AddToHolds ==
  ASSUME NEW x, NEW L, Holds(x, L), NEW hashKey \in Nat, NEW index \in Nat, NotIn(L, x.hashSize, index),
         NEW y, y = AddTo(x, hashKey, index)
  PROVE  /\ hashKey % x.hashSize \in 0 .. x.hashSize - 1
         /\ Holds(y, Lists!WithFirst(L, hashKey % x.hashSize, index)) /\ y.hashSize = x.hashSize
<1>1. PICK r, N : r = WithRoom(x, index) /\ N = x.hashSize
  OBVIOUS
<1>2. Holds(r, L) /\ IsAllocated(r) /\ r.hashSize = N /\ index < r.indexSize
  BY <1>1, WithRoomHolds
<1>3. N \in Nat \ {0} /\ r.indexSize \in Nat
  BY <1>1, <1>2, SizesArePositive DEF Holds, IsTable
<1>4. r.hashMask = N - 1
  BY <1>2 DEF Holds, HoldsUsed, Used
<1>5. PICK bucket : bucket = hashKey % N
  OBVIOUS
<1>6. bucket \in 0 .. N - 1
  BY <1>3, <1>5, BucketOf
<1>7. Mask(hashKey, r.hashMask) = bucket
  <2>1. (N - 1) + 1 = N
    BY <1>3
  <2> QED
    BY <1>4, <1>5, <2>1 DEF Mask
<1>8. y = Linked(r, bucket, index)
  BY <1>1, <1>7 DEF AddTo
<1>9. index \in 0 .. r.indexSize - 1
  BY <1>2, <1>3
<1>10. Holds(y, Lists!WithFirst(L, bucket, index)) /\ y.hashSize = N
  BY <1>1, <1>2, <1>6, <1>8, <1>9, LinkedHolds
<1> QED
  BY <1>1, <1>5, <1>6, <1>10

\* What is taken out of a list, and where.
LEMMA OneIsFound ==
  ASSUME NEW s, NEW i, NEW N \in Nat, N = Len(s), NEW p \in 1 .. N, s[p] = i, Once(s)
  PROVE  Lists!RemoveFirst(s, i) = SubSeq(s, 1, p - 1) \o SubSeq(s, p + 1, Len(s))
<1>1. PICK I : I = {n \in 1 .. Len(s) : s[n] = i}
  OBVIOUS
<1>2. I = {p}
  BY <1>1 DEF Once
<1>3. Lists!RemoveFirst(s, i) = Lists!RemoveAt(s, Lists!SelectInSeq(s, LAMBDA v : v = i))
  BY DEF Lists!RemoveFirst
<1>4. Lists!SelectInSeq(s, LAMBDA v : v = i) = Lists!Min(I)
  BY <1>1, <1>2 DEF Lists!SelectInSeq
<1>5. Lists!Min(I) = p
  BY <1>2 DEF Lists!Min
<1> QED
  BY <1>3, <1>4, <1>5 DEF Lists!RemoveAt

LEMMA NoneIsFound ==
  ASSUME NEW s, NEW i, \A n \in 1 .. Len(s) : s[n] # i
  PROVE  Lists!RemoveFirst(s, i) = s
  BY DEF Lists!RemoveFirst

\* One place less.
Less(s, r, p) ==
  /\ Len(r) = Len(s) - 1
  /\ \A n \in 1 .. Len(r) : r[n] = IF n < p THEN s[n] ELSE s[n + 1]

LEMMA OneIsTaken ==
  ASSUME NEW T, NEW s \in Seq(T), NEW i, NEW p \in 1 .. Len(s), s[p] = i, Once(s),
         NEW r, r = Lists!RemoveFirst(s, i)
  PROVE  r \in Seq(T) /\ Less(s, r, p)
<1>1. PICK N, u, v : N = Len(s) /\ u = SubSeq(s, 1, p - 1) /\ v = SubSeq(s, p + 1, N)
  OBVIOUS
<1>2. N \in Nat /\ p \in 1 .. N /\ \A n \in 1 .. N : s[n] \in T
  BY <1>1, ElementOfSeq
<1>3. r = u \o v
  BY <1>1, <1>2, OneIsFound
<1>4. u \in Seq(T) /\ Len(u) = p - 1 /\ \A n \in 1 .. p - 1 : u[n] = s[n]
  <2>1. PICK q : q = p - 1
    OBVIOUS
  <2>2. q \in Int /\ 1 \in Int /\ \A n \in 1 .. q : s[n] \in T
    BY <1>2, <2>1
  <2>3. /\ SubSeq(s, 1, q) \in Seq(T) /\ Len(SubSeq(s, 1, q)) = IF 1 <= q THEN q - 1 + 1 ELSE 0
        /\ \A n \in 1 .. q - 1 + 1 : SubSeq(s, 1, q)[n] = s[1 + n - 1]
    BY <2>2, SubSeqProperties
  <2>4. u = SubSeq(s, 1, q) /\ q - 1 + 1 = q /\ q >= 0 /\ \A n \in 1 .. q : 1 + n - 1 = n
    BY <1>1, <1>2, <2>1
  <2> QED
    BY <2>1, <2>3, <2>4
<1>5. v \in Seq(T) /\ Len(v) = N - p /\ \A n \in 1 .. N - p : v[n] = s[n + p]
  <2>1. PICK q : q = p + 1
    OBVIOUS
  <2>2. q \in Int /\ N \in Int /\ \A n \in q .. N : s[n] \in T
    BY <1>2, <2>1
  <2>3. /\ SubSeq(s, q, N) \in Seq(T) /\ Len(SubSeq(s, q, N)) = IF q <= N THEN N - q + 1 ELSE 0
        /\ \A n \in 1 .. N - q + 1 : SubSeq(s, q, N)[n] = s[q + n - 1]
    BY <2>2, SubSeqProperties
  <2>4. v = SubSeq(s, q, N) /\ N - q + 1 = N - p /\ (q <= N \/ N - p = 0)
        /\ \A n \in 1 .. N - p : q + n - 1 = n + p
    BY <1>1, <1>2, <2>1
  <2> QED
    BY <2>3, <2>4
<1>6. /\ r \in Seq(T) /\ Len(r) = (p - 1) + (N - p)
      /\ \A n \in 1 .. (p - 1) + (N - p) : r[n] = IF n <= p - 1 THEN u[n] ELSE v[n - (p - 1)]
  BY <1>3, <1>4, <1>5, ConcatProperties
<1>7. (p - 1) + (N - p) = N - 1
  BY <1>2
<1>8. \A n \in 1 .. N - 1 : r[n] = IF n < p THEN s[n] ELSE s[n + 1]
  <2> TAKE n \in 1 .. N - 1
  <2>1. r[n] = IF n <= p - 1 THEN u[n] ELSE v[n - (p - 1)]
    BY <1>6, <1>7
  <2>2. CASE n < p
    <3>1. n \in 1 .. p - 1
      BY <1>2, <2>2
    <3> QED
      BY <1>4, <2>1, <2>2, <3>1
  <2>3. CASE ~(n < p)
    <3>1. n - (p - 1) \in 1 .. N - p /\ (n - (p - 1)) + p = n + 1 /\ ~(n <= p - 1)
      BY <1>2, <2>3
    <3> QED
      BY <1>5, <2>1, <2>3, <3>1
  <2> QED
    BY <2>2, <2>3
<1> QED
  BY <1>1, <1>6, <1>7, <1>8 DEF Less

\* The list of bucket k is without its place p.
TakenFrom(L, M, N, k, p) ==
  \A b \in 0 .. N - 1 : \A n \in 1 .. Len(M[b]) :
    \E q \in 1 .. Len(L[b]) : M[b][n] = L[b][q] /\ n = IF b = k /\ q > p THEN q - 1 ELSE q

LEMMA ApartWithout ==
  ASSUME NEW L, NEW M, NEW N, NEW k, NEW p, Apart(L, N), TakenFrom(L, M, N, k, p)
  PROVE  Apart(M, N)
<1>1. ASSUME NEW a \in 0 .. N - 1, NEW b \in 0 .. N - 1, NEW n \in 1 .. Len(M[a]), NEW m \in 1 .. Len(M[b]),
             M[a][n] = M[b][m]
      PROVE  a = b /\ n = m
  <2>1. PICK i \in 1 .. Len(L[a]) : M[a][n] = L[a][i] /\ n = IF a = k /\ i > p THEN i - 1 ELSE i
    BY DEF TakenFrom
  <2>2. PICK j \in 1 .. Len(L[b]) : M[b][m] = L[b][j] /\ m = IF b = k /\ j > p THEN j - 1 ELSE j
    BY DEF TakenFrom
  <2>3. L[a][i] = L[b][j]
    BY <1>1, <2>1, <2>2
  <2>4. a = b /\ i = j
    BY <2>3 DEF Apart
  <2> QED
    BY <2>1, <2>2, <2>4
<1> QED
  BY <1>1 DEF Apart

\* What Remove makes of the arrays when it is called for the p-th of the list of bucket k.
Unlinked(h, c, S, s, k, i, f, d) ==
  /\ f = [h EXCEPT ![k] = IF h[k] = i THEN c[i] ELSE h[k]]
  /\ d = [j \in 0 .. S - 1 |->
           IF j = i THEN -1
           ELSE IF h[k] # i /\ j \in {s[n] : n \in 1 .. Len(s)} /\ c[j] = i THEN c[i] ELSE c[j]]

\* The list that an index is taken out of.
LEMMA ListIsUnlinked ==
  ASSUME NEW S \in Nat, NEW h, NEW c, NEW s \in Seq(0 .. S - 1), NEW k, NEW p \in 1 .. Len(s),
         NEW i, i = s[p], NEW f, NEW d, Unlinked(h, c, S, s, k, i, f, d),
         h[k] = Item(s, 1), Follows(c, s), Once(s), k \in DOMAIN h,
         NEW r, Less(s, r, p)
  PROVE  f[k] = Item(r, 1) /\ Follows(d, r)
<1>1. PICK N, T : N = Len(s) /\ T = 0 .. S - 1
  OBVIOUS
<1>2. N \in Nat /\ p \in 1 .. N /\ Len(r) = N - 1 /\ \A n \in 1 .. N : s[n] \in T
  BY <1>1, ElementOfSeq DEF Less
<1>3. \A n \in 1 .. N - 1 : r[n] = IF n < p THEN s[n] ELSE s[n + 1]
  BY <1>1, <1>2 DEF Less
<1>4. \A n \in 1 .. N : s[n] = i => n = p
  BY <1>1 DEF Once
<1>5. i \in T /\ i # -1
  BY <1>1, <1>2
<1>6. \A n \in 1 .. N : c[s[n]] = IF n < N THEN s[n + 1] ELSE -1
  <2> TAKE n \in 1 .. N
  <2>1. c[s[n]] = Item(s, n + 1)
    BY <1>1 DEF Follows
  <2>2. n + 1 \in 1 .. N <=> n < N
    BY <1>2
  <2> QED
    BY <1>1, <2>1, <2>2 DEF Item
<1>7. /\ f[k] = IF h[k] = i THEN c[i] ELSE h[k]
      /\ \A n \in 1 .. N : d[s[n]] = IF s[n] = i THEN -1 ELSE IF h[k] # i /\ c[s[n]] = i THEN c[i] ELSE c[s[n]]
  BY <1>1, <1>2 DEF Unlinked
<1>8. h[k] = s[1]
  <2>1. 1 \in 1 .. N
    BY <1>2
  <2> QED
    BY <1>1, <2>1 DEF Item
<1>9. f[k] = Item(r, 1)
  <2>1. Item(r, 1) = IF 1 \in 1 .. N - 1 THEN r[1] ELSE -1
    BY <1>2 DEF Item
  <2>2. CASE p = 1
    <3>1. h[k] = i /\ f[k] = c[i] /\ c[i] = IF 1 < N THEN s[2] ELSE -1
      BY <1>2, <1>6, <1>7, <1>8, <2>2
    <3>2. 1 \in 1 .. N - 1 <=> 1 < N
      BY <1>2
    <3>3. 1 \in 1 .. N - 1 => r[1] = s[2]
      BY <1>3, <2>2
    <3> QED
      BY <2>1, <3>1, <3>2, <3>3
  <2>3. CASE p # 1
    <3>1. 1 \in 1 .. N /\ 1 \in 1 .. N - 1 /\ 1 < p
      BY <1>2, <2>3
    <3>2. h[k] # i
      BY <1>4, <1>8, <2>3, <3>1
    <3> QED
      BY <1>3, <1>7, <1>8, <2>1, <3>1, <3>2
  <2> QED
    BY <2>2, <2>3
<1>10. ASSUME NEW n \in 1 .. N - 1
       PROVE  d[r[n]] = IF n < N - 1 THEN r[n + 1] ELSE -1
  <2>1. n + 1 \in 1 .. N /\ n \in 1 .. N /\ n < N /\ (n < N - 1 <=> n + 1 < N) /\ (n < N - 1 => n + 1 \in 1 .. N - 1)
        /\ (n < N - 1 => n + 2 \in 1 .. N)
    BY <1>2
  <2>2. CASE n < p - 1
    <3>1. n < N - 1 /\ n + 1 < p /\ n < p
      BY <1>2, <2>2
    <3>2. r[n] = s[n] /\ r[n + 1] = s[n + 1] /\ s[n] # i /\ s[n + 1] # i
      BY <1>3, <1>4, <2>1, <2>2, <3>1
    <3>3. c[s[n]] = s[n + 1]
      BY <1>6, <2>1
    <3>4. d[s[n]] = c[s[n]]
      BY <1>7, <2>1, <3>2, <3>3
    <3> QED
      BY <3>1, <3>2, <3>3, <3>4
  <2>3. CASE n = p - 1
    <3>1. n < p /\ n + 1 = p /\ p # 1 /\ 1 \in 1 .. N
      BY <1>2, <2>3
    <3>2. r[n] = s[n] /\ s[n] # i /\ c[s[n]] = i /\ h[k] # i
      BY <1>3, <1>4, <1>6, <1>8, <2>1, <2>3, <3>1
    <3>3. d[s[n]] = c[i]
      BY <1>7, <2>1, <3>2
    <3>4. c[i] = IF p < N THEN s[p + 1] ELSE -1
      BY <1>2, <1>6
    <3>5. n < N - 1 => r[n + 1] = s[p + 1]
      BY <1>3, <2>1, <3>1
    <3>6. n < N - 1 <=> p < N
      BY <1>2, <3>1
    <3> QED
      BY <3>2, <3>3, <3>4, <3>5, <3>6
  <2>4. CASE n >= p
    <3>1. r[n] = s[n + 1] /\ s[n + 1] # i
      <4>1. ~(n < p) /\ n + 1 # p
        BY <1>2, <2>4
      <4> QED
        BY <1>3, <1>4, <2>1, <4>1
    <3>2. c[s[n + 1]] = IF n + 1 < N THEN s[n + 2] ELSE -1
      <4>1. (n + 1) + 1 = n + 2
        BY <2>1
      <4> QED
        BY <1>6, <2>1, <4>1
    <3>3. n < N - 1 => s[n + 2] # i /\ r[n + 1] = s[n + 2]
      <4>1. ~(n + 1 < p) /\ (n + 1) + 1 = n + 2 /\ n + 2 # p
        BY <1>2, <2>4
      <4> QED
        BY <1>3, <1>4, <2>1, <4>1
    <3>4. c[s[n + 1]] # i
      BY <1>5, <2>1, <3>2, <3>3
    <3>5. d[s[n + 1]] = c[s[n + 1]]
      BY <1>7, <2>1, <3>1, <3>4
    <3> QED
      BY <2>1, <3>1, <3>2, <3>3, <3>5
  <2> QED
    BY <1>2, <2>2, <2>3, <2>4
<1>11. Follows(d, r)
  <2>1. ASSUME NEW n \in 1 .. Len(r)
        PROVE  d[r[n]] = Item(r, n + 1)
    <3>1. n \in 1 .. N - 1 /\ (n + 1 \in 1 .. N - 1 <=> n < N - 1)
      BY <1>2
    <3> QED
      BY <1>2, <1>10, <3>1 DEF Item
  <2> QED
    BY <2>1 DEF Follows
<1> QED
  BY <1>9, <1>11

\* All lists.
LEMMA OneIsUnlinked ==
  ASSUME NEW N \in Nat, NEW S \in Nat, NEW h, NEW c, NEW L, Listed(h, c, N, S, L),
         DOMAIN h = 0 .. N - 1,
         NEW k \in 0 .. N - 1, NEW p \in 1 .. Len(L[k]), NEW i, i = L[k][p],
         NEW f, NEW d, Unlinked(h, c, S, L[k], k, i, f, d),
         NEW M, M = Lists!Without(L, i)
  PROVE  Listed(f, d, N, S, M) /\ NotIn(M, N, i)
<1>1. PICK T, s, r : T = 0 .. S - 1 /\ s = L[k] /\ r = M[k]
  OBVIOUS
<1>2. L = [b \in 0 .. N - 1 |-> L[b]] /\ Apart(L, N)
  BY DEF Listed
<1>3. M = [b \in 0 .. N - 1 |-> M[b]] /\ \A b \in 0 .. N - 1 : M[b] = Lists!RemoveFirst(L[b], i)
  BY <1>2 DEF Lists!Without
<1>4. s \in Seq(T) /\ h[k] = Item(s, 1) /\ Follows(c, s)
  BY <1>1 DEF Listed
<1>5. Once(s)
  BY <1>1, <1>2 DEF Apart, Once
<1>6. p \in 1 .. Len(s) /\ s[p] = i /\ r = Lists!RemoveFirst(s, i)
  BY <1>1, <1>3
<1>7. r \in Seq(T) /\ Less(s, r, p)
  BY <1>4, <1>5, <1>6, OneIsTaken
<1>8. f[k] = Item(r, 1) /\ Follows(d, r)
  <2>1. s \in Seq(0 .. S - 1) /\ Unlinked(h, c, S, s, k, i, f, d) /\ k \in DOMAIN h /\ i = s[p] /\ p \in 1 .. Len(s)
        /\ h[k] = Item(s, 1) /\ Follows(c, s) /\ Less(s, r, p)
    BY <1>1, <1>4, <1>6, <1>7
  <2> QED
    BY <1>5, <2>1, ListIsUnlinked
<1>9. ASSUME NEW b \in 0 .. N - 1, b # k, NEW n \in 1 .. Len(L[b])
      PROVE  L[b][n] # i /\ \A m \in 1 .. Len(s) : L[b][n] # s[m]
  <2>1. ASSUME NEW m \in 1 .. Len(L[k])
        PROVE  L[b][n] # L[k][m]
    BY <1>2, <1>9, ApartIn
  <2> QED
    BY <1>1, <2>1
<1>10. ASSUME NEW b \in 0 .. N - 1, b # k
       PROVE  M[b] = L[b] /\ M[b] \in Seq(T) /\ f[b] = Item(M[b], 1) /\ Follows(d, M[b])
  <2>1. M[b] = L[b]
    BY <1>3, <1>9, <1>10, NoneIsFound
  <2>2. L[b] \in Seq(T) /\ h[b] = Item(L[b], 1) /\ Follows(c, L[b])
    BY <1>1 DEF Listed
  <2>3. f[b] = h[b]
    BY <1>10 DEF Unlinked
  <2>4. ASSUME NEW n \in 1 .. Len(L[b])
        PROVE  d[L[b][n]] = c[L[b][n]]
    <3>1. L[b][n] \in 0 .. S - 1
      BY <1>1, <2>2, ElementOfSeq
    <3>2. L[b][n] # i /\ L[b][n] \notin {s[m] : m \in 1 .. Len(s)}
      BY <1>9, <1>10
    <3> QED
      BY <1>1, <3>1, <3>2 DEF Unlinked
  <2>5. Follows(d, L[b])
    BY <2>2, <2>4 DEF Follows
  <2> QED
    BY <2>1, <2>2, <2>3, <2>5
<1>11. \A n \in 1 .. Len(r) : \E q \in 1 .. Len(s) : r[n] = s[q] /\ n = (IF q > p THEN q - 1 ELSE q) /\ q # p
  <2> TAKE n \in 1 .. Len(r)
  <2>1. PICK l : l = Len(s)
    OBVIOUS
  <2>2. l \in Nat /\ n \in 1 .. l - 1 /\ p \in 1 .. l /\ r[n] = IF n < p THEN s[n] ELSE s[n + 1]
    BY <1>4, <1>6, <1>7, <2>1 DEF Less
  <2>3. CASE n < p
    <3>1. n \in 1 .. l /\ ~(n > p) /\ n # p
      BY <2>2, <2>3
    <3> QED
      BY <2>1, <2>2, <2>3, <3>1
  <2>4. CASE ~(n < p)
    <3>1. n + 1 \in 1 .. l /\ n + 1 > p /\ n + 1 # p /\ n = (n + 1) - 1
      BY <2>2, <2>4
    <3> QED
      BY <2>1, <2>2, <2>4, <3>1
  <2> QED
    BY <2>3, <2>4
<1>12. TakenFrom(L, M, N, k, p)
  <2>1. ASSUME NEW b \in 0 .. N - 1, NEW n \in 1 .. Len(M[b])
        PROVE  \E q \in 1 .. Len(L[b]) : M[b][n] = L[b][q] /\ n = IF b = k /\ q > p THEN q - 1 ELSE q
    <3>1. CASE b = k
      BY <1>1, <1>11, <3>1
    <3>2. CASE b # k
      BY <1>10, <3>2
    <3> QED
      BY <3>1, <3>2
  <2> QED
    BY <2>1 DEF TakenFrom
<1>13. Apart(M, N)
  BY <1>2, <1>12, ApartWithout
<1>14. NotIn(M, N, i)
  <2>1. ASSUME NEW b \in 0 .. N - 1, NEW n \in 1 .. Len(M[b])
        PROVE  M[b][n] # i
    <3>1. CASE b = k
      <4>1. PICK q \in 1 .. Len(s) : r[n] = s[q] /\ q # p
        BY <1>1, <1>11, <3>1
      <4>2. s[q] # s[p]
        BY <1>5, <1>6, <4>1 DEF Once
      <4> QED
        BY <1>1, <1>6, <3>1, <4>1, <4>2
    <3>2. CASE b # k
      BY <1>9, <1>10, <3>2
    <3> QED
      BY <3>1, <3>2
  <2> QED
    BY <2>1 DEF NotIn
<1>15. \A b \in 0 .. N - 1 : M[b] \in Seq(T) /\ f[b] = Item(M[b], 1) /\ Follows(d, M[b])
  BY <1>1, <1>7, <1>8, <1>10
<1> QED
  BY <1>1, <1>3, <1>13, <1>14, <1>15 DEF Listed

\* Remove.
LEMMA RemoveFromHolds ==
  ASSUME NEW x, NEW L, Holds(x, L), IsAllocated(x), NEW hashKey \in Nat,
         NEW k, k = Mask(hashKey, x.hashMask), NEW p \in 1 .. Len(L[k]), NEW i, i = L[k][p],
         NEW y, y = RemoveFrom(x, hashKey, i)
  PROVE  /\ Holds(y, Lists!Without(L, i)) /\ IsAllocated(y)
         /\ y.hashSize = x.hashSize /\ y.indexSize = x.indexSize /\ i \in 0 .. x.indexSize - 1
         /\ NotIn(Lists!Without(L, i), x.hashSize, i)
<1>1. PICK N, h, S, c, hm, lm :
        x = [hashSize |-> N, hash |-> h, indexSize |-> S, indexChain |-> c, hashMask |-> hm, lookupMask |-> lm]
  BY DEF Holds, IsTable
<1>2. x.hashSize = N /\ x.hash = h /\ x.indexSize = S /\ x.indexChain = c /\ x.hashMask = hm
      /\ x.lookupMask = lm
  BY <1>1
<1>3. IsTable(x) /\ Used(x) /\ Listed(h, c, N, S, L) /\ N \in HashSizes /\ S \in Nat
  BY <1>2 DEF Holds, HoldsUsed, IsTable
<1>4. N \in Nat \ {0}
  BY <1>3, SizesArePositive
<1>5. h \in [0 .. N - 1 -> -1 .. S - 1] /\ c \in [0 .. S - 1 -> -1 .. S - 1] /\ lm = -1 /\ hm = N - 1
  BY <1>2, <1>3 DEF Used
<1>6. k \in 0 .. N - 1
  BY <1>2, <1>5, ListsAreSeen
<1>7. PICK s : s = L[k]
  OBVIOUS
<1>8. s \in Seq(0 .. S - 1) /\ h[k] = Item(s, 1) /\ Follows(c, s) /\ Once(s)
  BY <1>3, <1>6, <1>7 DEF Listed, Apart, Once
<1>9. Walk(x, h[k]) = s
  BY <1>2, <1>3, <1>8, WalkIsList
<1>10. DOMAIN s = 1 .. Len(s)
  BY <1>8
<1>11. PICK f, d : /\ f = [h EXCEPT ![k] = IF h[k] = i THEN c[i] ELSE h[k]]
                   /\ d = [j \in 0 .. S - 1 |->
                       IF j = i THEN -1
                       ELSE IF h[k] # i /\ j \in {s[n] : n \in 1 .. Len(s)} /\ c[j] = i THEN c[i] ELSE c[j]]
  OBVIOUS
<1>12. Unlinked(h, c, S, s, k, i, f, d)
  BY <1>11 DEF Unlinked
<1>13. y = [x EXCEPT !.hash = f, !.indexChain = d]
  <2>1. DOMAIN c = 0 .. S - 1
    BY <1>5
  <2> DEFINE K == Mask(hashKey, x.hashMask)
             Chain == Walk(x, x.hash[K])
             E == [j \in DOMAIN x.indexChain |->
                    IF j = i THEN -1
                    ELSE IF x.hash[K] # i /\ (j \in {Chain[n] : n \in DOMAIN Chain} /\ x.indexChain[j] = i)
                         THEN x.indexChain[i] ELSE x.indexChain[j]]
  <2>2. PICK e : e = E
    OBVIOUS
  <2>3. e = d
    <3>1. DOMAIN e = 0 .. S - 1 /\ DOMAIN d = 0 .. S - 1 /\ e = [j \in 0 .. S - 1 |-> e[j]] /\ d = [j \in 0 .. S - 1 |-> d[j]]
      BY <1>2, <1>11, <2>1, <2>2
    <3>2. \A j \in 0 .. S - 1 :
            e[j] = IF j = i THEN -1
                   ELSE IF x.hash[K] # i /\ (j \in {Chain[n] : n \in DOMAIN Chain} /\ x.indexChain[j] = i)
                        THEN x.indexChain[i] ELSE x.indexChain[j]
      BY <1>2, <2>1, <2>2
    <3>3. K = k /\ Chain = s
      BY <1>2, <1>9
    <3> HIDE DEF K, Chain
    <3>4. {Chain[n] : n \in DOMAIN Chain} = {s[n] : n \in 1 .. Len(s)}
      BY <1>10, <3>3
    <3>5. \A j \in 0 .. S - 1 : e[j] = d[j]
      BY <1>2, <1>11, <3>2, <3>3, <3>4
    <3> QED
      BY <3>1, <3>5
  <2>4. PICK b : b = Mask(hashKey, x.hashMask)
    OBVIOUS
  <2>5. PICK g : g = [h EXCEPT ![b] = IF h[b] = i THEN c[i] ELSE h[b]]
    OBVIOUS
  <2>6. g = f
    BY <1>11, <2>4, <2>5
  <2>7. y = [x EXCEPT !.hash = g, !.indexChain = e]
    <3>1. y = [x EXCEPT !.hash[K] = IF x.hash[K] = i THEN x.indexChain[i] ELSE x.hash[K], !.indexChain = E]
      BY DEF RemoveFrom
    <3>2. [x.hash EXCEPT ![K] = IF x.hash[K] = i THEN x.indexChain[i] ELSE x.hash[K]] = g
      BY <1>2, <2>4, <2>5
    <3> HIDE DEF K, E
    <3>3. y = [x EXCEPT !.hash = [x.hash EXCEPT ![K] = IF x.hash[K] = i THEN x.indexChain[i] ELSE x.hash[K]],
                        !.indexChain = E]
      BY <1>1, <3>1
    <3> QED
      BY <2>2, <3>2, <3>3
  <2> QED
    BY <2>3, <2>6, <2>7
<1>14. y = [hashSize |-> N, hash |-> f, indexSize |-> S, indexChain |-> d, hashMask |-> hm, lookupMask |-> lm]
  BY <1>1, <1>13
<1>15. y.hashSize = N /\ y.hash = f /\ y.indexSize = S /\ y.indexChain = d /\ y.hashMask = hm
      /\ y.lookupMask = lm
  BY <1>14
<1>16. IsTable(y)
  BY <1>3, <1>14, <1>15 DEF IsTable
<1>17. i \in 0 .. S - 1
  BY <1>7, <1>8, ElementOfSeq
<1>18. f \in [0 .. N - 1 -> -1 .. S - 1] /\ d \in [0 .. S - 1 -> -1 .. S - 1]
  <2>1. c[i] \in -1 .. S - 1 /\ h[k] \in -1 .. S - 1
    BY <1>5, <1>6, <1>17
  <2>2. f \in [0 .. N - 1 -> -1 .. S - 1]
    BY <1>5, <1>6, <1>11, <2>1
  <2>3. -1 \in -1 .. S - 1 /\ \A j \in 0 .. S - 1 : c[j] \in -1 .. S - 1
    BY <1>3, <1>5
  <2>4. \A j \in 0 .. S - 1 : d[j] \in -1 .. S - 1
    BY <1>11, <2>1, <2>3
  <2> QED
    BY <1>11, <2>2, <2>4
<1>19. Used(y)
  BY <1>5, <1>15, <1>18 DEF Used
<1>20. Listed(f, d, N, S, Lists!Without(L, i)) /\ NotIn(Lists!Without(L, i), N, i)
  <2>1. N \in Nat /\ DOMAIN h = 0 .. N - 1 /\ Unlinked(h, c, S, L[k], k, i, f, d)
    BY <1>4, <1>5, <1>7, <1>12
  <2> QED
    BY <1>3, <1>6, <2>1, OneIsUnlinked
<1> QED
  BY <1>2, <1>15, <1>16, <1>17, <1>19, <1>20, UsedIsAllocated DEF Holds, HoldsUsed

(***************************************************************************)
(* Index hash: items that change their places.                             *)
(***************************************************************************)

\* Of integers that have a bound, one is the greatest.
LEMMA GreatestOfInts ==
  ASSUME NEW A \in SUBSET Int, A # {}, NEW B \in Int, \A a \in A : a <= B,
         NEW m, m = Max(A)
  PROVE  m \in A /\ m <= B /\ \A a \in A : a <= m
<1>1. PICK D : D = {B - a : a \in A}
  OBVIOUS
<1>2. D \in SUBSET Nat /\ D # {}
  <2>1. \A a \in A : B - a \in Nat
    <3> TAKE a \in A
    <3>1. a \in Int /\ a <= B
      OBVIOUS
    <3> QED
      BY <3>1
  <2>2. D # {}
    BY <1>1
  <2> QED
    BY <1>1, <2>1, <2>2
<1>3. PICK e \in D : \A y \in D : e <= y
  BY <1>2, LeastOfPlaces
<1>4. PICK g \in A : e = B - g
  BY <1>1
<1>5. \A a \in A : a <= g
  <2> TAKE a \in A
  <2>1. B - g <= B - a
    BY <1>1, <1>3, <1>4
  <2> QED
    BY <2>1
<1>6. m = CHOOSE x \in A : \A y \in A : x >= y
  BY DEF Max
<1>7. g \in A /\ \A y \in A : g >= y
  BY <1>5
<1>8. m \in A /\ \A y \in A : m >= y
  BY <1>6, <1>7
<1> QED
  BY <1>8

\* Items under new numbers: W says which, and the arrays follow it.
Renumbered(h, c, L, N, R, W, f, d) ==
  /\ W[-1] = -1
  /\ \A b \in 0 .. N - 1 : f[b] = W[h[b]]
  /\ \A b \in 0 .. N - 1 : \A n \in 1 .. Len(L[b]) :
       W[L[b][n]] \in 0 .. R - 1 /\ d[W[L[b][n]]] = W[c[L[b][n]]]
OneToOne(L, N, W) ==
  \A a, b \in 0 .. N - 1 : \A n \in 1 .. Len(L[a]), m \in 1 .. Len(L[b]) :
    W[L[a][n]] = W[L[b][m]] => L[a][n] = L[b][m]
UnderNew(L, N, W) == [b \in 0 .. N - 1 |-> [n \in 1 .. Len(L[b]) |-> W[L[b][n]]]]

LEMMA ApartUnderNew ==
  ASSUME NEW L, NEW N, NEW W, Apart(L, N), OneToOne(L, N, W), \A b \in 0 .. N - 1 : Len(L[b]) \in Nat,
         NEW M, M = UnderNew(L, N, W)
  PROVE  Apart(M, N)
<1>1. \A b \in 0 .. N - 1 : Len(M[b]) = Len(L[b]) /\ \A n \in 1 .. Len(L[b]) : M[b][n] = W[L[b][n]]
  <2> TAKE b \in 0 .. N - 1
  <2>1. M[b] = [n \in 1 .. Len(L[b]) |-> W[L[b][n]]]
    BY DEF UnderNew
  <2>2. PICK l : l = Len(L[b])
    OBVIOUS
  <2>3. l \in Nat /\ M[b] = [n \in 1 .. l |-> W[L[b][n]]]
    BY <2>1, <2>2
  <2>4. Len(M[b]) = l
    BY <2>3
  <2> QED
    BY <2>1, <2>2, <2>4
<1>2. ASSUME NEW a \in 0 .. N - 1, NEW b \in 0 .. N - 1, NEW n \in 1 .. Len(M[a]), NEW m \in 1 .. Len(M[b]),
             M[a][n] = M[b][m]
      PROVE  a = b /\ n = m
  <2>1. PICK i \in 1 .. Len(L[a]) : i = n /\ M[a][n] = W[L[a][i]]
    BY <1>1
  <2>2. PICK j \in 1 .. Len(L[b]) : j = m /\ M[b][m] = W[L[b][j]]
    BY <1>1
  <2>3. W[L[a][i]] = W[L[b][j]]
    BY <1>2, <2>1, <2>2
  <2>4. L[a][i] = L[b][j]
    BY <2>3 DEF OneToOne
  <2>5. a = b /\ i = j
    BY <2>4, ApartIn
  <2> QED
    BY <2>1, <2>2, <2>5
<1> QED
  BY <1>2 DEF Apart

LEMMA NewNumbers ==
  ASSUME NEW N \in Nat, NEW S \in Nat, NEW R \in Nat, NEW h, NEW c, NEW L, Listed(h, c, N, S, L),
         NEW W, NEW f, NEW d, Renumbered(h, c, L, N, R, W, f, d), OneToOne(L, N, W),
         NEW M, M = UnderNew(L, N, W)
  PROVE  Listed(f, d, N, R, M)
<1>1. ASSUME NEW b \in 0 .. N - 1
      PROVE  Len(L[b]) \in Nat /\ M[b] \in Seq(0 .. R - 1) /\ f[b] = Item(M[b], 1) /\ Follows(d, M[b])
  <2>1. PICK s, r, l : s = L[b] /\ r = M[b] /\ l = Len(s)
    OBVIOUS
  <2>2. l \in Nat /\ h[b] = Item(s, 1) /\ Follows(c, s)
    <3>1. s \in Seq(0 .. S - 1) /\ h[b] = Item(s, 1) /\ Follows(c, s)
      BY <2>1 DEF Listed
    <3> QED
      BY <2>1, <3>1
  <2>3. r = [n \in 1 .. l |-> W[s[n]]]
    BY <2>1 DEF UnderNew
  <2>4. \A n \in 1 .. l : W[s[n]] \in 0 .. R - 1 /\ d[W[s[n]]] = W[c[s[n]]]
    BY <2>1 DEF Renumbered
  <2>5. r \in Seq(0 .. R - 1) /\ Len(r) = l
    BY <2>2, <2>3, <2>4
  <2>6. \A n \in Nat : Item(r, n) = W[Item(s, n)]
    <3>1. W[-1] = -1
      BY DEF Renumbered
    <3> TAKE n \in Nat
    <3>2. CASE n \in 1 .. l
      BY <2>1, <2>3, <2>5, <3>2 DEF Item
    <3>3. CASE n \notin 1 .. l
      BY <2>1, <2>5, <3>1, <3>3 DEF Item
    <3> QED
      BY <3>2, <3>3
  <2>7. f[b] = Item(r, 1)
    <3>1. f[b] = W[h[b]]
      BY DEF Renumbered
    <3> QED
      BY <2>2, <2>6, <3>1
  <2>8. ASSUME NEW n \in 1 .. l
        PROVE  d[r[n]] = Item(r, n + 1)
    <3>1. r[n] = W[s[n]] /\ c[s[n]] = Item(s, n + 1) /\ n + 1 \in Nat
      BY <2>1, <2>2, <2>3 DEF Follows
    <3> QED
      BY <2>4, <2>6, <3>1
  <2>9. Follows(d, r)
    BY <2>5, <2>8 DEF Follows
  <2> QED
    BY <2>1, <2>2, <2>5, <2>7, <2>9
<1>2. Apart(M, N)
  <2>1. Apart(L, N) /\ \A b \in 0 .. N - 1 : Len(L[b]) \in Nat
    BY <1>1 DEF Listed
  <2> QED
    BY <2>1, ApartUnderNew
<1>3. M = [b \in 0 .. N - 1 |-> M[b]]
  BY DEF UnderNew
<1> QED
  BY <1>1, <1>2, <1>3 DEF Listed

\* An item of a list is named by the array.
LEMMA ListedIsNamed ==
  ASSUME NEW N, NEW S \in Nat, NEW h, NEW c, NEW L, Listed(h, c, N, S, L),
         NEW b \in 0 .. N - 1, NEW n \in 1 .. Len(L[b])
  PROVE  /\ L[b][n] \in 0 .. S - 1
         /\ L[b][n] = h[b] \/ \E i \in 0 .. S - 1 : L[b][n] = c[i]
<1>1. PICK s : s = L[b]
  OBVIOUS
<1>2. s \in Seq(0 .. S - 1) /\ h[b] = Item(s, 1) /\ Follows(c, s)
  BY <1>1 DEF Listed
<1>3. \A m \in 1 .. Len(s) : s[m] \in 0 .. S - 1
  BY <1>2, ElementOfSeq
<1>4. CASE n = 1
  <2>1. h[b] = s[1]
    BY <1>1, <1>2, <1>4 DEF Item
  <2> QED
    BY <1>1, <1>3, <1>4, <2>1
<1>5. CASE n # 1
  <2>1. PICK l : l = Len(s)
    OBVIOUS
  <2>2. l \in Nat
    BY <1>2, <2>1
  <2>3. n - 1 \in 1 .. l /\ (n - 1) + 1 = n /\ n \in 1 .. l
    BY <1>1, <1>5, <2>1, <2>2
  <2>4. c[s[n - 1]] = Item(s, n)
    BY <1>2, <2>1, <2>3 DEF Follows
  <2>5. c[s[n - 1]] = s[n]
    BY <2>1, <2>3, <2>4 DEF Item
  <2> QED
    BY <1>1, <1>3, <2>1, <2>3, <2>5
<1> QED
  BY <1>4, <1>5

\* The numbers from index on, moved by so many.
Where(S, index, by) == [p \in -1 .. S - 1 |-> IF p >= index THEN p + by ELSE p]

\* The lists of the items behind index, with their new places.
MovedUp(L, index) == Lists!Moved(L, LAMBDA p : IF p >= index THEN p + 1 ELSE p)
MovedDown(L, index) == Lists!Moved(L, LAMBDA p : IF p > index THEN p - 1 ELSE p)

LEMMA MovedIsUnderNew ==
  ASSUME NEW N, NEW S \in Nat, NEW h, NEW c, NEW L, Listed(h, c, N, S, L), NEW index \in Nat
  PROVE  /\ MovedUp(L, index) = UnderNew(L, N, Where(S, index, 1))
         /\ NotIn(L, N, index) => MovedDown(L, index) = UnderNew(L, N, Where(S, index, -1))
<1>1. PICK U, D : U = UnderNew(L, N, Where(S, index, 1)) /\ D = UnderNew(L, N, Where(S, index, -1))
  OBVIOUS
<1>2. \A b \in 0 .. N - 1 : DOMAIN L[b] = 1 .. Len(L[b]) /\ \A n \in 1 .. Len(L[b]) : L[b][n] \in 0 .. S - 1
  <2> TAKE b \in 0 .. N - 1
  <2>1. PICK s : s = L[b]
    OBVIOUS
  <2>2. s \in Seq(0 .. S - 1)
    BY <2>1 DEF Listed
  <2> QED
    BY <2>1, <2>2, ElementOfSeq
<1>3. DOMAIN L = 0 .. N - 1
  BY DEF Listed
<1>4. ASSUME NEW b \in 0 .. N - 1
      PROVE  [n \in DOMAIN L[b] |-> IF L[b][n] >= index THEN L[b][n] + 1 ELSE L[b][n]] = U[b]
  <2>1. PICK s, l : s = L[b] /\ l = Len(s)
    OBVIOUS
  <2>2. DOMAIN s = 1 .. l /\ \A n \in 1 .. l : s[n] \in -1 .. S - 1
    BY <1>2, <2>1
  <2>3. U[b] = [n \in 1 .. l |-> Where(S, index, 1)[s[n]]]
    BY <1>1, <2>1 DEF UnderNew
  <2>4. \A n \in 1 .. l : Where(S, index, 1)[s[n]] = IF s[n] >= index THEN s[n] + 1 ELSE s[n]
    BY <2>2 DEF Where
  <2> QED
    BY <2>1, <2>2, <2>3, <2>4
<1>5. ASSUME NEW b \in 0 .. N - 1, NotIn(L, N, index)
      PROVE  [n \in DOMAIN L[b] |-> IF L[b][n] > index THEN L[b][n] - 1 ELSE L[b][n]] = D[b]
  <2>1. PICK s, l : s = L[b] /\ l = Len(s)
    OBVIOUS
  <2>2. DOMAIN s = 1 .. l /\ \A n \in 1 .. l : s[n] \in -1 .. S - 1 /\ s[n] # index
    BY <1>2, <1>5, <2>1 DEF NotIn
  <2>3. D[b] = [n \in 1 .. l |-> Where(S, index, -1)[s[n]]]
    BY <1>1, <2>1 DEF UnderNew
  <2>4. \A n \in 1 .. l : Where(S, index, -1)[s[n]] = IF s[n] > index THEN s[n] - 1 ELSE s[n]
    <3> TAKE n \in 1 .. l
    <3>1. s[n] \in -1 .. S - 1 /\ s[n] # index
      BY <2>2
    <3>2. s[n] >= index <=> s[n] > index
      BY <3>1
    <3> QED
      BY <3>1, <3>2 DEF Where
  <2> QED
    BY <2>1, <2>2, <2>3, <2>4
<1>6. MovedUp(L, index) =
        [b \in DOMAIN L |-> [n \in DOMAIN L[b] |-> IF L[b][n] >= index THEN L[b][n] + 1 ELSE L[b][n]]]
  BY DEF Lists!Moved, MovedUp, MovedDown
<1>7. MovedDown(L, index) =
        [b \in DOMAIN L |-> [n \in DOMAIN L[b] |-> IF L[b][n] > index THEN L[b][n] - 1 ELSE L[b][n]]]
  BY DEF Lists!Moved, MovedUp, MovedDown
<1>8. U = [b \in 0 .. N - 1 |-> U[b]] /\ D = [b \in 0 .. N - 1 |-> D[b]]
  BY <1>1 DEF UnderNew
<1>9. MovedUp(L, index) = U
  BY <1>3, <1>4, <1>6, <1>8
<1>10. NotIn(L, N, index) => MovedDown(L, index) = D
  <2> HAVE NotIn(L, N, index)
  <2>1. \A b \in 0 .. N - 1 : [n \in DOMAIN L[b] |-> IF L[b][n] > index THEN L[b][n] - 1 ELSE L[b][n]] = D[b]
    BY <1>5
  <2> QED
    BY <1>3, <1>7, <1>8, <2>1
<1> QED
  BY <1>1, <1>9, <1>10

LEMMA MovedDownIs ==
  ASSUME NEW N, NEW S \in Nat, NEW h, NEW c, NEW L, Listed(h, c, N, S, L), NEW index \in Nat, NotIn(L, N, index)
  PROVE  MovedDown(L, index) = UnderNew(L, N, Where(S, index, -1))
  BY MovedIsUnderNew

\* What a used table names.
Shape(x, N, h, S, c) ==
  x = [hashSize |-> N, hash |-> h, indexSize |-> S, indexChain |-> c, hashMask |-> N - 1, lookupMask |-> -1]
ArraysIn(h, c, N, S) ==
  /\ N \in HashSizes /\ N \in Nat \ {0} /\ S \in Nat
  /\ h \in [0 .. N - 1 -> -1 .. S - 1] /\ c \in [0 .. S - 1 -> -1 .. S - 1]

LEMMA AllocatedShape ==
  ASSUME NEW x, NEW L, Holds(x, L), IsAllocated(x)
  PROVE  \E N, h, S, c : Shape(x, N, h, S, c) /\ ArraysIn(h, c, N, S) /\ Listed(h, c, N, S, L)
<1>1. PICK N, h, S, c, hm, lm :
        x = [hashSize |-> N, hash |-> h, indexSize |-> S, indexChain |-> c, hashMask |-> hm, lookupMask |-> lm]
  BY DEF Holds, IsTable
<1>2. x.hashSize = N /\ x.hash = h /\ x.indexSize = S /\ x.indexChain = c /\ x.hashMask = hm
      /\ x.lookupMask = lm
  BY <1>1
<1>3. IsTable(x) /\ Used(x) /\ Listed(h, c, N, S, L) /\ N \in HashSizes /\ S \in Nat
  BY <1>2 DEF Holds, HoldsUsed, IsTable
<1>4. N \in Nat \ {0}
  BY <1>3, SizesArePositive
<1>5. h \in [0 .. N - 1 -> -1 .. S - 1] /\ c \in [0 .. S - 1 -> -1 .. S - 1] /\ lm = -1 /\ hm = N - 1
  BY <1>2, <1>3 DEF Used
<1>6. Shape(x, N, h, S, c)
  BY <1>1, <1>5 DEF Shape
<1>7. ArraysIn(h, c, N, S)
  BY <1>3, <1>4, <1>5 DEF ArraysIn
<1> QED
  BY <1>3, <1>6, <1>7

LEMMA ShapeHolds ==
  ASSUME NEW x, NEW L, NEW N, NEW h, NEW S, NEW c, Shape(x, N, h, S, c), ArraysIn(h, c, N, S), Listed(h, c, N, S, L)
  PROVE  Holds(x, L) /\ IsAllocated(x) /\ x.hashSize = N
<1>1. x.hashSize = N /\ x.hash = h /\ x.indexSize = S /\ x.indexChain = c /\ x.hashMask = N - 1
      /\ x.lookupMask = -1
  BY DEF Shape
<1>2. IsTable(x)
  BY <1>1 DEF IsTable, Shape, ArraysIn
<1>3. Used(x)
  BY <1>1 DEF Used, ArraysIn
<1> QED
  BY <1>1, <1>2, <1>3, UsedIsAllocated DEF Holds, HoldsUsed

Names(h, c, N, S, index) == {h[b] : b \in 0 .. N - 1} \cup {c[i] : i \in 0 .. S - 1} \cup {index}

\* Where a listed item is named, and its number.
IsNamed(h, c, L, N, S, index, by) ==
  \A b \in 0 .. N - 1 : \A n \in 1 .. Len(L[b]) :
    /\ L[b][n] \in 0 .. S - 1 /\ c[L[b][n]] \in -1 .. S - 1
    /\ Where(S, index, by)[L[b][n]] = IF L[b][n] >= index THEN L[b][n] + by ELSE L[b][n]
    /\ \/ \E a \in 0 .. N - 1 : L[b][n] = h[a]
       \/ \E i \in 0 .. S - 1 : L[b][n] = c[i]

LEMMA ListedIsMoved ==
  ASSUME NEW N, NEW S \in Nat, NEW h, NEW c, NEW L, ArraysIn(h, c, N, S), Listed(h, c, N, S, L),
         NEW index \in Nat, NEW by \in Int
  PROVE  IsNamed(h, c, L, N, S, index, by)
<1> SUFFICES ASSUME NEW b \in 0 .. N - 1, NEW n \in 1 .. Len(L[b])
             PROVE  /\ L[b][n] \in 0 .. S - 1 /\ c[L[b][n]] \in -1 .. S - 1
                    /\ Where(S, index, by)[L[b][n]] = IF L[b][n] >= index THEN L[b][n] + by ELSE L[b][n]
                    /\ \/ \E a \in 0 .. N - 1 : L[b][n] = h[a]
                       \/ \E i \in 0 .. S - 1 : L[b][n] = c[i]
  BY DEF IsNamed
<1>1. PICK i : i = L[b][n]
  OBVIOUS
<1>2. i \in 0 .. S - 1 /\ (i = h[b] \/ \E j \in 0 .. S - 1 : i = c[j])
  <2>1. /\ L[b][n] \in 0 .. S - 1
        /\ L[b][n] = h[b] \/ \E j \in 0 .. S - 1 : L[b][n] = c[j]
    BY ListedIsNamed
  <2> QED
    BY <1>1, <2>1
<1>3. c[i] \in -1 .. S - 1
  BY <1>2 DEF ArraysIn
<1>4. Where(S, index, by)[i] = IF i >= index THEN i + by ELSE i
  BY <1>2 DEF Where
<1> QED
  BY <1>1, <1>2, <1>3, <1>4

\* The arrays under moved numbers.
InNew(h, c, N, S, W, f, e) ==
  f = [b \in 0 .. N - 1 |-> W[h[b]]] /\ e = [i \in 0 .. S - 1 |-> W[c[i]]]

LEMMA MovedShape ==
  ASSUME NEW x, NEW N, NEW h, NEW S, NEW c, Shape(x, N, h, S, c), ArraysIn(h, c, N, S),
         NEW index \in Nat, NEW by \in {1, -1}, NEW W, W = Where(S, index, by)
  PROVE  \E f, e : /\ Shape(MovedFrom(x, index, by), N, f, S, e)
                   /\ InNew(h, c, N, S, W, f, e)
<1>1. x.hash = h /\ x.indexChain = c
  BY DEF Shape
<1>2. DOMAIN h = 0 .. N - 1 /\ DOMAIN c = 0 .. S - 1
  BY DEF ArraysIn
<1>3. \A p \in -1 .. S - 1 : W[p] = IF p >= index THEN p + by ELSE p
  BY DEF Where
<1>4. (\A b \in 0 .. N - 1 : h[b] \in -1 .. S - 1) /\ (\A i \in 0 .. S - 1 : c[i] \in -1 .. S - 1)
  BY DEF ArraysIn
<1>5. [b \in 0 .. N - 1 |-> IF h[b] >= index THEN h[b] + by ELSE h[b]] = [b \in 0 .. N - 1 |-> W[h[b]]]
  BY <1>3, <1>4
<1>6. [i \in 0 .. S - 1 |-> IF c[i] >= index THEN c[i] + by ELSE c[i]] = [i \in 0 .. S - 1 |-> W[c[i]]]
  BY <1>3, <1>4
<1>7. PICK f, d : f = [b \in 0 .. N - 1 |-> W[h[b]]] /\ d = [i \in 0 .. S - 1 |-> W[c[i]]]
  OBVIOUS
<1>8. MovedFrom(x, index, by) =
        [x EXCEPT !.hash = [b \in DOMAIN h |-> IF h[b] >= index THEN h[b] + by ELSE h[b]],
                  !.indexChain = [i \in DOMAIN c |-> IF c[i] >= index THEN c[i] + by ELSE c[i]]]
  BY <1>1 DEF MovedFrom
<1>9. MovedFrom(x, index, by) = [x EXCEPT !.hash = f, !.indexChain = d]
  BY <1>2, <1>5, <1>6, <1>7, <1>8
<1>10. Shape(MovedFrom(x, index, by), N, f, S, d)
  BY <1>9 DEF Shape
<1> QED
  BY <1>7, <1>10 DEF InNew

\* Arrays whose numbers have a bound.
Bounded(f, e, N, S, B) ==
  /\ f = [b \in 0 .. N - 1 |-> f[b]] /\ e = [i \in 0 .. S - 1 |-> e[i]]
  /\ \A b \in 0 .. N - 1 : f[b] \in -1 .. B
  /\ \A i \in 0 .. S - 1 : e[i] \in -1 .. B

\* What is named, and the greatest of it.
LEMMA GreatestNamed ==
  ASSUME NEW y, NEW N, NEW f, NEW S, NEW e, Shape(y, N, f, S, e), NEW B \in Int, Bounded(f, e, N, S, B),
         NEW index \in Nat, index <= B, NEW max, max = Max(Named(y) \cup {index})
  PROVE  max \in index .. B /\ Bounded(f, e, N, S, max)
<1>1. /\ DOMAIN f = 0 .. N - 1 /\ DOMAIN e = 0 .. S - 1
      /\ \A b \in 0 .. N - 1 : f[b] \in -1 .. B
      /\ \A i \in 0 .. S - 1 : e[i] \in -1 .. B
  BY DEF Bounded
<1>2. PICK A : A = Named(y) \cup {index}
  OBVIOUS
<1>3. y.hash = f /\ y.indexChain = e
  BY DEF Shape
<1>4. A = {f[b] : b \in 0 .. N - 1} \cup {e[i] : i \in 0 .. S - 1} \cup {index}
  BY <1>1, <1>2, <1>3 DEF Named
<1>5. A \in SUBSET Int /\ A # {} /\ \A a \in A : a <= B
  BY <1>1, <1>4
<1>6. max \in A /\ max <= B /\ \A a \in A : a <= max
  BY <1>2, <1>5, GreatestOfInts
<1>7. \A b \in 0 .. N - 1 : f[b] <= max
  BY <1>4, <1>6
<1>8. \A i \in 0 .. S - 1 : e[i] <= max
  BY <1>4, <1>6
<1>9. index <= max
  BY <1>4, <1>6
<1>10. max \in Int
  BY <1>5, <1>6
<1>11. max <= B
  BY <1>6
<1>12. max \in index .. B
  BY <1>9, <1>10, <1>11
<1>13. \A b \in 0 .. N - 1 : f[b] \in -1 .. max
  <2> TAKE b \in 0 .. N - 1
  <2>1. f[b] <= max /\ f[b] \in -1 .. B
    BY <1>1, <1>7
  <2> QED
    BY <1>10, <2>1
<1>14. \A i \in 0 .. S - 1 : e[i] \in -1 .. max
  <2> TAKE i \in 0 .. S - 1
  <2>1. e[i] <= max /\ e[i] \in -1 .. B
    BY <1>1, <1>8
  <2> QED
    BY <1>10, <2>1
<1> QED
  BY <1>12, <1>13, <1>14 DEF Bounded

\* More room for the arrays, and what is in it.
RoomFor(S, e, max, R, g) ==
  S <= R /\ max < R /\ g = [i \in 0 .. R - 1 |-> IF i < S THEN e[i] ELSE -1]

LEMMA MoreRoom ==
  ASSUME NEW y, NEW N, NEW f, NEW S \in Nat, NEW e, Shape(y, N, f, S, e), NEW B, Bounded(f, e, N, S, B),
         NEW max \in Nat, NEW z, z = IF max >= y.indexSize THEN ResizeIndex(y, max + 1) ELSE y
  PROVE  \E R, g : R \in Nat /\ Shape(z, N, f, R, g) /\ RoomFor(S, e, max, R, g)
<1>1. e = [i \in 0 .. S - 1 |-> e[i]]
  BY DEF Bounded
<1>2. /\ y.hashSize = N /\ y.hash = f /\ y.indexSize = S /\ y.indexChain = e /\ y.hashMask = N - 1
      /\ y.lookupMask = -1
  BY DEF Shape
<1>3. CASE max >= S
  <2>1. PICK R, g : R = RoundedUp(max + 1) /\ g = [i \in 0 .. R - 1 |-> IF i < S THEN e[i] ELSE -1]
    OBVIOUS
  <2>2. max + 1 \in Nat /\ R \in Nat /\ max + 1 <= R
    BY <2>1, RoomIsMade
  <2>3. S <= R /\ max < R /\ ~(max + 1 <= S)
    BY <1>3, <2>2
  <2>4. z = [y EXCEPT !.indexSize = R, !.indexChain = g]
    BY <1>2, <1>3, <2>1, <2>3 DEF ResizeIndex
  <2>5. Shape(z, N, f, R, g)
    BY <2>4 DEF Shape
  <2> QED
    BY <2>1, <2>2, <2>3, <2>5 DEF RoomFor
<1>4. CASE ~(max >= S)
  <2>1. z = y /\ max < S
    BY <1>2, <1>4
  <2>2. PICK g : g = [i \in 0 .. S - 1 |-> IF i < S THEN e[i] ELSE -1]
    OBVIOUS
  <2>3. \A i \in 0 .. S - 1 : g[i] = e[i]
    BY <2>2
  <2>4. g = e
    BY <1>1, <2>2, <2>3
  <2> QED
    BY <2>1, <2>2, <2>4 DEF RoomFor
<1> QED
  BY <1>3, <1>4

\* The chain moved up along with its indices.
Lifted(R, g, index, max) ==
  [i \in 0 .. R - 1 |-> IF i = index THEN -1 ELSE IF i \in index + 1 .. max THEN g[i - 1] ELSE g[i]]

LEMMA LiftedFollows ==
  ASSUME NEW N, NEW S \in Nat, NEW R \in Nat, NEW h, NEW c, NEW L, ArraysIn(h, c, N, S), Listed(h, c, N, S, L),
         NEW index \in Nat, NEW W, W = Where(S, index, 1),
         NEW f, NEW e, InNew(h, c, N, S, W, f, e),
         NEW max \in Nat, Bounded(f, e, N, S, max), index <= max,
         NEW g, RoomFor(S, e, max, R, g), NEW d, d = Lifted(R, g, index, max)
  PROVE  Renumbered(h, c, L, N, R, W, f, d) /\ OneToOne(L, N, W)
<1>1. f = [b \in 0 .. N - 1 |-> W[h[b]]] /\ e = [i \in 0 .. S - 1 |-> W[c[i]]]
  BY DEF InNew
<1>2. (\A b \in 0 .. N - 1 : f[b] <= max) /\ (\A i \in 0 .. S - 1 : e[i] <= max)
  BY DEF Bounded
<1>3. S <= R /\ max < R /\ g = [i \in 0 .. R - 1 |-> IF i < S THEN e[i] ELSE -1]
  BY DEF RoomFor
<1>4. ASSUME NEW b \in 0 .. N - 1, NEW n \in 1 .. Len(L[b])
      PROVE  /\ L[b][n] \in 0 .. S - 1 /\ c[L[b][n]] \in -1 .. S - 1
             /\ W[L[b][n]] = IF L[b][n] >= index THEN L[b][n] + 1 ELSE L[b][n]
             /\ \/ \E a \in 0 .. N - 1 : L[b][n] = h[a]
                \/ \E j \in 0 .. S - 1 : L[b][n] = c[j]
  <2>1. IsNamed(h, c, L, N, S, index, 1)
    BY ListedIsMoved
  <2> QED
    BY <2>1 DEF IsNamed
<1>5. ASSUME NEW b \in 0 .. N - 1, NEW n \in 1 .. Len(L[b])
      PROVE  /\ L[b][n] \in 0 .. S - 1
             /\ W[L[b][n]] = IF L[b][n] >= index THEN L[b][n] + 1 ELSE L[b][n]
             /\ W[L[b][n]] <= max /\ c[L[b][n]] \in -1 .. S - 1
  <2>1. PICK i : i = L[b][n]
    OBVIOUS
  <2>2. /\ i \in 0 .. S - 1 /\ c[i] \in -1 .. S - 1
        /\ W[i] = IF i >= index THEN i + 1 ELSE i
        /\ (\E a \in 0 .. N - 1 : i = h[a]) \/ (\E j \in 0 .. S - 1 : i = c[j])
    BY <2>1, <1>4
  <2>3. W[i] <= max
    <3>1. CASE \E a \in 0 .. N - 1 : i = h[a]
      <4>1. PICK a \in 0 .. N - 1 : i = h[a]
        BY <3>1
      <4>2. f[a] = W[i]
        BY <1>1, <4>1
      <4> QED
        BY <1>2, <4>2
    <3>2. CASE \E j \in 0 .. S - 1 : i = c[j]
      <4>1. PICK j \in 0 .. S - 1 : i = c[j]
        BY <3>2
      <4>2. e[j] = W[i]
        BY <1>1, <4>1
      <4> QED
        BY <1>2, <4>2
    <3> QED
      BY <2>2, <3>1, <3>2
  <2> QED
    BY <2>1, <2>2, <2>3
<1>6. W[-1] = -1
  <2>1. -1 \in -1 .. S - 1 /\ ~(-1 >= index)
    OBVIOUS
  <2> QED
    BY <2>1 DEF Where
<1>7. ASSUME NEW i \in 0 .. S - 1, NEW w, w = (IF i >= index THEN i + 1 ELSE i), w <= max, W[i] = w
      PROVE  w \in 0 .. R - 1 /\ d[w] = W[c[i]]
  <2>1. e[i] = W[c[i]]
    BY <1>1
  <2>2. i \in 0 .. R - 1 /\ i < S
    BY <1>3
  <2>3. g[i] = e[i]
    BY <1>3, <2>2
  <2>4. w \in 0 .. R - 1
    BY <1>7, <1>3
  <2>5. d[w] = IF w = index THEN -1 ELSE IF w \in index + 1 .. max THEN g[w - 1] ELSE g[w]
    BY <2>4 DEF Lifted
  <2>6. CASE i >= index
    <3>1. w = i + 1 /\ w # index /\ w \in index + 1 .. max /\ w - 1 = i
      BY <1>7, <2>6
    <3> QED
      BY <2>1, <2>3, <2>4, <2>5, <3>1
  <2>7. CASE ~(i >= index)
    <3>1. w = i /\ w # index /\ w \notin index + 1 .. max
      BY <1>7, <2>7
    <3> QED
      BY <2>1, <2>3, <2>4, <2>5, <3>1
  <2> QED
    BY <2>6, <2>7
<1>8. ASSUME NEW b \in 0 .. N - 1, NEW n \in 1 .. Len(L[b])
      PROVE  W[L[b][n]] \in 0 .. R - 1 /\ d[W[L[b][n]]] = W[c[L[b][n]]]
  <2>1. PICK i, w : i = L[b][n] /\ w = W[i]
    OBVIOUS
  <2>2. i \in 0 .. S - 1 /\ w = (IF i >= index THEN i + 1 ELSE i) /\ w <= max
    BY <1>5, <2>1
  <2>3. W[i] = w
    BY <2>1
  <2>4. w \in 0 .. R - 1 /\ d[w] = W[c[i]]
    BY <1>7, <2>2, <2>3
  <2> QED
    BY <2>1, <2>4
<1>9. OneToOne(L, N, W)
  <2>1. ASSUME NEW a \in 0 .. N - 1, NEW b \in 0 .. N - 1, NEW n \in 1 .. Len(L[a]), NEW m \in 1 .. Len(L[b]),
               W[L[a][n]] = W[L[b][m]]
        PROVE  L[a][n] = L[b][m]
    <3>1. PICK i, j : i = L[a][n] /\ j = L[b][m]
      OBVIOUS
    <3>2. i \in 0 .. S - 1 /\ W[i] = IF i >= index THEN i + 1 ELSE i
      BY <1>5, <3>1
    <3>3. j \in 0 .. S - 1 /\ W[j] = IF j >= index THEN j + 1 ELSE j
      BY <1>5, <3>1
    <3>4. W[i] = W[j]
      BY <2>1, <3>1
    <3>5. i = j
      BY <3>2, <3>3, <3>4
    <3> QED
      BY <3>1, <3>5
  <2> QED
    BY <2>1 DEF OneToOne
<1>10. \A b \in 0 .. N - 1 : f[b] = W[h[b]]
  BY <1>1
<1> QED
  BY <1>6, <1>8, <1>9, <1>10 DEF Renumbered

\* What a number becomes.
LEMMA WhereUp ==
  ASSUME NEW S \in Nat, NEW index \in Nat, NEW W, W = Where(S, index, 1), NEW p \in -1 .. S - 1
  PROVE  W[p] \in -1 .. S + index /\ W[p] # index
<1>1. W[p] = IF p >= index THEN p + 1 ELSE p
  BY DEF Where
<1> QED
  BY <1>1

LEMMA WhereDown ==
  ASSUME NEW S \in Nat, NEW index \in Nat, NEW W, W = Where(S, index, -1), NEW p \in -1 .. S - 1
  PROVE  W[p] \in -1 .. S - 1
<1>1. W[p] = IF p >= index THEN p - 1 ELSE p
  BY DEF Where
<1> QED
  BY <1>1

\* Of InsertIndex: the items behind the new one have their new numbers.
LEMMA ShiftedHolds ==
  ASSUME NEW x, NEW L, Holds(x, L), IsAllocated(x), NEW index \in Nat,
         NEW y, y = Shifted(Raised(x, index), index),
         NEW M, M = UnderNew(L, x.hashSize, Where(x.indexSize, index, 1))
  PROVE  Holds(y, M) /\ y.hashSize = x.hashSize /\ NotIn(M, x.hashSize, index)
<1>1. PICK N, h, S, c : Shape(x, N, h, S, c) /\ ArraysIn(h, c, N, S) /\ Listed(h, c, N, S, L)
  BY AllocatedShape
<1>2. N \in Nat \ {0} /\ S \in Nat
  BY <1>1 DEF ArraysIn
<1>3. N \in HashSizes
  BY <1>1 DEF ArraysIn
<1>4. (\A b \in 0 .. N - 1 : h[b] \in -1 .. S - 1) /\ (\A i \in 0 .. S - 1 : c[i] \in -1 .. S - 1)
  BY <1>1 DEF ArraysIn
<1>5. PICK W : W = Where(S, index, 1)
  OBVIOUS
<1>6. PICK u : u = Raised(x, index)
  OBVIOUS
<1>7. 1 \in {1, -1}
  OBVIOUS
<1>8. u = MovedFrom(x, index, 1)
  BY <1>6 DEF Raised
<1>9. PICK f, e : Shape(u, N, f, S, e) /\ InNew(h, c, N, S, W, f, e)
  BY <1>1, <1>5, <1>7, <1>8, MovedShape
<1>10. PICK B : B = S + index
  OBVIOUS
<1>11. B \in Int /\ index <= B
  BY <1>2, <1>10
<1>12. \A p \in -1 .. S - 1 : W[p] \in -1 .. B /\ W[p] # index
  BY <1>2, <1>5, <1>10, WhereUp
<1>13. Bounded(f, e, N, S, B)
  BY <1>9, <1>4, <1>12 DEF Bounded, InNew
<1>14. PICK max : max = Max(Named(u) \cup {index})
  OBVIOUS
<1>15. max \in index .. B /\ Bounded(f, e, N, S, max)
  BY <1>9, <1>11, <1>13, <1>14, GreatestNamed
<1>16. max \in Nat /\ index <= max
  BY <1>11, <1>15
<1>17. PICK z : z = IF max >= u.indexSize THEN ResizeIndex(u, max + 1) ELSE u
  OBVIOUS
<1>18. PICK R, g : R \in Nat /\ Shape(z, N, f, R, g) /\ RoomFor(S, e, max, R, g)
  BY <1>2, <1>9, <1>15, <1>16, <1>17, MoreRoom
<1>19. R \in Nat /\ S <= R /\ max < R /\ g = [i \in 0 .. R - 1 |-> IF i < S THEN e[i] ELSE -1]
  BY <1>18 DEF RoomFor
<1>20. /\ f = [b \in 0 .. N - 1 |-> f[b]]
       /\ \A b \in 0 .. N - 1 : f[b] \in -1 .. max
       /\ \A i \in 0 .. S - 1 : e[i] \in -1 .. max
  BY <1>15 DEF Bounded
<1>21. PICK d : d = Lifted(R, g, index, max)
  OBVIOUS
<1>22. Shape(y, N, f, R, d)
  <2>1. z.indexChain = g /\ DOMAIN g = 0 .. R - 1
    BY <1>18, <1>19 DEF Shape
  <2>2. y = [z EXCEPT !.indexChain = [i \in DOMAIN g |->
              IF i = index THEN -1 ELSE IF i \in index + 1 .. max THEN g[i - 1] ELSE g[i]]]
    BY <1>6, <1>14, <1>17, <2>1 DEF Shifted
  <2>3. y = [z EXCEPT !.indexChain = d]
    BY <1>21, <2>1, <2>2 DEF Lifted
  <2> QED
    BY <1>18, <2>3 DEF Shape
<1>23. R \in Nat /\ -1 \in -1 .. R - 1
  BY <1>19
<1>24. \A i \in 0 .. R - 1 : g[i] \in -1 .. R - 1
  <2> TAKE i \in 0 .. R - 1
  <2>1. g[i] = IF i < S THEN e[i] ELSE -1
    BY <1>19
  <2>2. CASE i < S
    <3>1. i \in 0 .. S - 1
      BY <1>2, <2>2
    <3>2. e[i] \in -1 .. max
      BY <1>20, <3>1
    <3> QED
      BY <1>16, <1>19, <2>1, <2>2, <3>2
  <2>3. CASE ~(i < S)
    BY <1>23, <2>1, <2>3
  <2> QED
    BY <2>2, <2>3
<1>25. f \in [0 .. N - 1 -> -1 .. R - 1]
  <2>1. \A b \in 0 .. N - 1 : f[b] \in -1 .. R - 1
    <3> TAKE b \in 0 .. N - 1
    <3>1. f[b] \in -1 .. max
      BY <1>20
    <3> QED
      BY <1>16, <1>19, <3>1
  <2> QED
    BY <1>20, <2>1
<1>26. d \in [0 .. R - 1 -> -1 .. R - 1]
  <2>1. \A i \in 0 .. R - 1 : d[i] \in -1 .. R - 1
    <3> TAKE i \in 0 .. R - 1
    <3>1. d[i] = IF i = index THEN -1 ELSE IF i \in index + 1 .. max THEN g[i - 1] ELSE g[i]
      BY <1>21 DEF Lifted
    <3>2. i \in index + 1 .. max => i - 1 \in 0 .. R - 1
      BY <1>16, <1>19
    <3>3. i \in index + 1 .. max => g[i - 1] \in -1 .. R - 1
      BY <1>24, <3>2
    <3>4. g[i] \in -1 .. R - 1 /\ -1 \in -1 .. R - 1
      BY <1>24, <1>23
    <3> QED
      BY <3>1, <3>3, <3>4
  <2> QED
    BY <1>21, <2>1 DEF Lifted
<1>27. ArraysIn(f, d, N, R)
  BY <1>2, <1>3, <1>25, <1>26, <1>19 DEF ArraysIn
<1>28. Renumbered(h, c, L, N, R, W, f, d) /\ OneToOne(L, N, W)
  BY <1>1, <1>2, <1>5, <1>9, <1>15, <1>16, <1>18, <1>21, LiftedFollows
<1>29. M = UnderNew(L, N, W)
  <2>1. x.hashSize = N /\ x.indexSize = S
    BY <1>1 DEF Shape
  <2> QED
    BY <1>5, <2>1
<1>30. Listed(f, d, N, R, M)
  BY <1>1, <1>2, <1>28, <1>29, <1>19, NewNumbers
<1>31. Holds(y, M) /\ y.hashSize = N
  BY <1>22, <1>27, <1>30, ShapeHolds
<1>32. NotIn(M, N, index)
  <2>1. ASSUME NEW b \in 0 .. N - 1, NEW n \in 1 .. Len(M[b])
        PROVE  M[b][n] # index
    <3>1. PICK s, l : s = L[b] /\ l = Len(s)
      OBVIOUS
    <3>2. s \in Seq(0 .. S - 1) /\ l \in Nat
      <4>1. s \in Seq(0 .. S - 1)
        BY <1>1, <3>1 DEF Listed
      <4> QED
        BY <3>1, <4>1
    <3>3. M[b] = [m \in 1 .. l |-> W[s[m]]]
      <4>1. M = [a \in 0 .. N - 1 |-> [m \in 1 .. Len(L[a]) |-> W[L[a][m]]]]
        BY <1>29 DEF UnderNew
      <4>2. M[b] = [m \in 1 .. Len(L[b]) |-> W[L[b][m]]]
        BY <4>1
      <4> QED
        BY <3>1, <4>2
    <3>4. Len(M[b]) = l
      BY <3>2, <3>3
    <3>5. s[n] \in 0 .. S - 1
      BY <3>1, <3>2, <3>4, ElementOfSeq
    <3>6. s[n] \in -1 .. S - 1
      BY <3>5
    <3>7. W[s[n]] # index
      BY <1>12, <3>6
    <3> QED
      BY <3>3, <3>4, <3>7
  <2> QED
    BY <2>1 DEF NotIn
<1>33. x.hashSize = N
  BY <1>1 DEF Shape
<1> QED
  BY <1>31, <1>32, <1>33

\* The chain moved down along with its indices.
Lowered(S, e, index, max) ==
  [i \in 0 .. S - 1 |-> IF i = max THEN -1 ELSE IF i \in index .. max - 1 THEN e[i + 1] ELSE e[i]]

LEMMA LoweredFollows ==
  ASSUME NEW N, NEW S \in Nat, NEW h, NEW c, NEW L, ArraysIn(h, c, N, S), Listed(h, c, N, S, L),
         NEW index \in 0 .. S - 1, NotIn(L, N, index), NEW W, W = Where(S, index, -1),
         NEW f, NEW e, InNew(h, c, N, S, W, f, e),
         NEW max \in 0 .. S - 1, Bounded(h, c, N, S, max), index <= max,
         NEW d, d = Lowered(S, e, index, max)
  PROVE  Renumbered(h, c, L, N, S, W, f, d) /\ OneToOne(L, N, W)
<1>1. f = [b \in 0 .. N - 1 |-> W[h[b]]] /\ e = [i \in 0 .. S - 1 |-> W[c[i]]]
  BY DEF InNew
<1>2. (\A b \in 0 .. N - 1 : h[b] <= max) /\ (\A i \in 0 .. S - 1 : c[i] <= max)
  BY DEF Bounded
<1>3. ASSUME NEW b \in 0 .. N - 1, NEW n \in 1 .. Len(L[b])
      PROVE  /\ L[b][n] \in 0 .. S - 1 /\ L[b][n] <= max /\ L[b][n] # index
             /\ W[L[b][n]] = IF L[b][n] >= index THEN L[b][n] - 1 ELSE L[b][n]
  <2>1. IsNamed(h, c, L, N, S, index, -1)
    <3>1. index \in Nat /\ -1 \in Int
      OBVIOUS
    <3> QED
      BY <3>1, ListedIsMoved
  <2>2. PICK i : i = L[b][n]
    OBVIOUS
  <2>3. /\ i \in 0 .. S - 1
        /\ W[i] = IF i >= index THEN i + -1 ELSE i
        /\ (\E a \in 0 .. N - 1 : i = h[a]) \/ (\E j \in 0 .. S - 1 : i = c[j])
    BY <2>1, <2>2 DEF IsNamed
  <2>4. i <= max
    BY <1>2, <2>3
  <2>5. i # index
    BY <2>2 DEF NotIn
  <2>6. i + -1 = i - 1
    BY <2>3
  <2> QED
    BY <2>2, <2>3, <2>4, <2>5, <2>6
<1>4. W[-1] = -1
  <2>1. -1 \in -1 .. S - 1 /\ ~(-1 >= index)
    OBVIOUS
  <2> QED
    BY <2>1 DEF Where
<1>5. ASSUME NEW i \in 0 .. S - 1, i <= max, i # index, NEW w, w = (IF i >= index THEN i - 1 ELSE i), W[i] = w
      PROVE  w \in 0 .. S - 1 /\ d[w] = W[c[i]]
  <2>1. e[i] = W[c[i]]
    BY <1>1
  <2>2. w \in 0 .. S - 1
    BY <1>5
  <2>3. d[w] = IF w = max THEN -1 ELSE IF w \in index .. max - 1 THEN e[w + 1] ELSE e[w]
    BY <2>2 DEF Lowered
  <2>4. CASE i >= index
    <3>1. w = i - 1 /\ w # max /\ w \in index .. max - 1 /\ w + 1 = i
      BY <1>5, <2>4
    <3> QED
      BY <2>1, <2>2, <2>3, <3>1
  <2>5. CASE ~(i >= index)
    <3>1. w = i /\ w # max /\ w \notin index .. max - 1
      BY <1>5, <2>5
    <3> QED
      BY <2>1, <2>2, <2>3, <3>1
  <2> QED
    BY <2>4, <2>5
<1>6. ASSUME NEW b \in 0 .. N - 1, NEW n \in 1 .. Len(L[b])
      PROVE  W[L[b][n]] \in 0 .. S - 1 /\ d[W[L[b][n]]] = W[c[L[b][n]]]
  <2>1. PICK i, w : i = L[b][n] /\ w = W[i]
    OBVIOUS
  <2>2. i \in 0 .. S - 1 /\ i <= max /\ i # index /\ w = IF i >= index THEN i - 1 ELSE i
    BY <1>3, <2>1
  <2>3. W[i] = w
    BY <2>1
  <2>4. w \in 0 .. S - 1 /\ d[w] = W[c[i]]
    BY <1>5, <2>2, <2>3
  <2> QED
    BY <2>1, <2>4
<1>7. OneToOne(L, N, W)
  <2>1. ASSUME NEW a \in 0 .. N - 1, NEW b \in 0 .. N - 1, NEW n \in 1 .. Len(L[a]), NEW m \in 1 .. Len(L[b]),
               W[L[a][n]] = W[L[b][m]]
        PROVE  L[a][n] = L[b][m]
    <3>1. PICK i, j : i = L[a][n] /\ j = L[b][m]
      OBVIOUS
    <3>2. i \in 0 .. S - 1 /\ i # index /\ W[i] = IF i >= index THEN i - 1 ELSE i
      BY <1>3, <3>1
    <3>3. j \in 0 .. S - 1 /\ j # index /\ W[j] = IF j >= index THEN j - 1 ELSE j
      BY <1>3, <3>1
    <3>4. W[i] = W[j]
      BY <2>1, <3>1
    <3>5. i = j
      BY <3>2, <3>3, <3>4
    <3> QED
      BY <3>1, <3>5
  <2> QED
    BY <2>1 DEF OneToOne
<1>8. \A b \in 0 .. N - 1 : f[b] = W[h[b]]
  BY <1>1
<1> QED
  BY <1>4, <1>6, <1>7, <1>8 DEF Renumbered

\* Of RemoveIndex: the items behind the old one have their new numbers.
LEMMA TakeOutHolds ==
  ASSUME NEW x, NEW L, Holds(x, L), IsAllocated(x), NEW index \in 0 .. x.indexSize - 1,
         NotIn(L, x.hashSize, index), NEW y, y = TakeOut(x, index),
         NEW M, M = UnderNew(L, x.hashSize, Where(x.indexSize, index, -1))
  PROVE  Holds(y, M) /\ y.hashSize = x.hashSize
<1>1. PICK N, h, S, c : Shape(x, N, h, S, c) /\ ArraysIn(h, c, N, S) /\ Listed(h, c, N, S, L)
  BY AllocatedShape
<1>2. N \in Nat \ {0} /\ S \in Nat
  BY <1>1 DEF ArraysIn
<1>3. x.hashSize = N /\ x.indexSize = S
  BY <1>1 DEF Shape
<1>4. PICK B : B = S - 1
  OBVIOUS
<1>5. B \in Int /\ index <= B /\ index \in Nat /\ index \in 0 .. S - 1
  BY <1>2, <1>3, <1>4
<1>6. Bounded(h, c, N, S, B)
  <2>1. h \in [0 .. N - 1 -> -1 .. B] /\ c \in [0 .. S - 1 -> -1 .. B]
    BY <1>1, <1>4 DEF ArraysIn
  <2> QED
    BY <2>1 DEF Bounded
<1>7. PICK max : max = Max(Named(x) \cup {index})
  OBVIOUS
<1>8. max \in index .. B /\ Bounded(h, c, N, S, max)
  BY <1>1, <1>5, <1>6, <1>7, GreatestNamed
<1>9. max \in 0 .. S - 1 /\ index <= max
  BY <1>4, <1>5, <1>8
<1>10. PICK W : W = Where(S, index, -1)
  OBVIOUS
<1>11. -1 \in {1, -1}
  OBVIOUS
<1>12. PICK u : u = MovedFrom(x, index, -1)
  OBVIOUS
<1>13. PICK f, e : Shape(u, N, f, S, e) /\ InNew(h, c, N, S, W, f, e)
  BY <1>1, <1>5, <1>10, <1>11, <1>12, MovedShape
<1>14. PICK d : d = Lowered(S, e, index, max)
  OBVIOUS
<1>15. Shape(y, N, f, S, d)
  <2>1. u.indexChain = e /\ DOMAIN e = 0 .. S - 1
    BY <1>13 DEF Shape, InNew
  <2>2. y = [u EXCEPT !.indexChain = [i \in DOMAIN e |->
              IF i = max THEN -1 ELSE IF i \in index .. max - 1 THEN e[i + 1] ELSE e[i]]]
    BY <1>7, <1>12, <2>1 DEF TakeOut
  <2>3. y = [u EXCEPT !.indexChain = d]
    BY <1>14, <2>1, <2>2 DEF Lowered
  <2> QED
    BY <1>13, <2>3 DEF Shape
<1>16. \A p \in -1 .. S - 1 : W[p] \in -1 .. S - 1
  BY <1>2, <1>5, <1>10, WhereDown
<1>17. f \in [0 .. N - 1 -> -1 .. S - 1]
  BY <1>1, <1>13, <1>16 DEF ArraysIn, InNew
<1>18. \A i \in 0 .. S - 1 : e[i] \in -1 .. S - 1
  BY <1>1, <1>13, <1>16 DEF ArraysIn, InNew
<1>19. d \in [0 .. S - 1 -> -1 .. S - 1]
  <2>1. \A i \in 0 .. S - 1 : d[i] \in -1 .. S - 1
    <3> TAKE i \in 0 .. S - 1
    <3>1. d[i] = IF i = max THEN -1 ELSE IF i \in index .. max - 1 THEN e[i + 1] ELSE e[i]
      BY <1>14 DEF Lowered
    <3>2. i \in index .. max - 1 => i + 1 \in 0 .. S - 1
      <4> HAVE i \in index .. max - 1
      <4>1. i \in Int /\ i >= 0 /\ i <= max - 1
        OBVIOUS
      <4>2. max \in Int /\ max <= S - 1
        BY <1>2, <1>9
      <4> QED
        BY <1>2, <4>1, <4>2
    <3>3. i \in index .. max - 1 => e[i + 1] \in -1 .. S - 1
      BY <1>18, <3>2
    <3>4. e[i] \in -1 .. S - 1 /\ -1 \in -1 .. S - 1
      BY <1>2, <1>18
    <3> QED
      BY <3>1, <3>3, <3>4
  <2> QED
    BY <1>14, <2>1 DEF Lowered
<1>20. ArraysIn(f, d, N, S)
  <2>1. N \in HashSizes
    BY <1>1 DEF ArraysIn
  <2> QED
    BY <1>2, <1>17, <1>19, <2>1 DEF ArraysIn
<1>21. NotIn(L, N, index)
  BY <1>3
<1>22. Renumbered(h, c, L, N, S, W, f, d) /\ OneToOne(L, N, W)
  BY <1>1, <1>2, <1>5, <1>8, <1>9, <1>10, <1>13, <1>14, <1>21, LoweredFollows
<1>23. M = UnderNew(L, N, W)
  BY <1>3, <1>10
<1>24. Listed(f, d, N, S, M)
  BY <1>1, <1>2, <1>22, <1>23, NewNumbers
<1> QED
  BY <1>3, <1>15, <1>20, <1>24, ShapeHolds

(***************************************************************************)
(* Index hash: what the operations make of the lists.                      *)
(***************************************************************************)

\* What an index is in.
LEMMA UnderIsListed ==
  ASSUME NEW x, NEW L, Holds(x, L), NEW hashKey \in Nat, NEW i, i \in IndicesUnder(x, hashKey)
  PROVE  /\ IsAllocated(x) /\ Mask(hashKey, x.hashMask) \in 0 .. x.hashSize - 1
         /\ \E p \in 1 .. Len(L[Mask(hashKey, x.hashMask)]) : i = L[Mask(hashKey, x.hashMask)][p]
<1>1. PICK s : s = ListUnder(x, hashKey)
  OBVIOUS
<1>2. PICK p \in DOMAIN s : i = s[p]
  BY <1>1 DEF IndicesUnder
<1>3. IsAllocated(x)
  <2>1. ~IsAllocated(x) => s = <<>>
    BY <1>1, ListsAreSeen
  <2>2. s # <<>>
    BY <1>2
  <2> QED
    BY <2>1, <2>2
<1>4. PICK k : k = Mask(hashKey, x.hashMask)
  OBVIOUS
<1>5. k \in 0 .. x.hashSize - 1 /\ s = L[k]
  BY <1>1, <1>3, <1>4, ListsAreSeen
<1>6. DOMAIN s = 1 .. Len(s)
  <2>1. Listed(x.hash, x.indexChain, x.hashSize, x.indexSize, L)
    BY <1>3 DEF Holds, HoldsUsed
  <2>2. s \in Seq(0 .. x.indexSize - 1)
    BY <1>5, <2>1 DEF Listed
  <2> QED
    BY <2>2
<1> QED
  BY <1>2, <1>3, <1>4, <1>5, <1>6

\* All of the lists.
LEMMA ListsAreLists ==
  ASSUME NEW x, NEW L, Holds(x, L)
  PROVE  /\ L = [b \in 0 .. x.hashSize - 1 |-> L[b]] /\ x.hashSize \in Nat \ {0} /\ x.hashSize \in HashSizes
         /\ x.indexSize \in Nat
         /\ \A b \in 0 .. x.hashSize - 1 :
              L[b] = ListUnder(x, b) /\ L[b] \in Seq(0 .. x.indexSize - 1)
<1>1. PICK N, S : N = x.hashSize /\ S = x.indexSize
  OBVIOUS
<1>2. N \in HashSizes /\ N \in Nat \ {0} /\ S \in Nat
  BY <1>1, SizesArePositive DEF Holds, IsTable
<1>3. ListsOf(x) = L
  BY ListsAreSeen
<1>4. L = [b \in 0 .. N - 1 |-> ListUnder(x, b)]
  BY <1>1, <1>3 DEF ListsOf
<1>5. ASSUME NEW b \in 0 .. N - 1
      PROVE  L[b] \in Seq(0 .. S - 1)
  <2>1. CASE ~IsAllocated(x)
    <3>1. L[b] = <<>>
      BY <1>1, <2>1 DEF Holds, Lists!NoLists
    <3> QED
      BY <3>1, EmptySeq
  <2>2. CASE IsAllocated(x)
    BY <1>1, <2>2 DEF Holds, HoldsUsed, Listed
  <2> QED
    BY <2>1, <2>2
<1> QED
  BY <1>1, <1>2, <1>4, <1>5

\* What is not among the indices of a table is in none of its lists.
LEMMA NotAmong ==
  ASSUME NEW t \in Tables, NEW x, x = table[t], NEW L, Holds(x, L), NEW index
  PROVE  /\ index \notin Indices(t) => NotIn(L, x.hashSize, index)
         /\ Cardinality(Indices(t)) \in Nat
<1>1. PICK N, S : N = x.hashSize /\ S = x.indexSize
  OBVIOUS
<1>2. /\ N \in Nat \ {0} /\ S \in Nat
      /\ \A b \in 0 .. N - 1 : L[b] = ListUnder(x, b) /\ L[b] \in Seq(0 .. S - 1)
  BY <1>1, ListsAreLists
<1>3. Indices(t) = UNION {IndicesUnder(x, k) : k \in 0 .. N - 1}
  BY <1>1 DEF Indices
<1>4. ASSUME NEW b \in 0 .. N - 1
      PROVE  IndicesUnder(x, b) = {L[b][n] : n \in 1 .. Len(L[b])} /\ IndicesUnder(x, b) \subseteq 0 .. S - 1
  <2>1. PICK s : s = L[b]
    OBVIOUS
  <2>2. s = ListUnder(x, b) /\ s \in Seq(0 .. S - 1)
    BY <1>2, <2>1
  <2>3. DOMAIN s = 1 .. Len(s) /\ \A n \in 1 .. Len(s) : s[n] \in 0 .. S - 1
    <3>1. DOMAIN s = 1 .. Len(s)
      BY <2>2
    <3>2. \A n \in 1 .. Len(s) : s[n] \in 0 .. S - 1
      BY <2>2, ElementOfSeq
    <3> QED
      BY <3>1, <3>2
  <2>4. IndicesUnder(x, b) = {s[n] : n \in 1 .. Len(s)}
    BY <2>2, <2>3 DEF IndicesUnder
  <2> QED
    BY <2>1, <2>3, <2>4
<1>5. index \notin Indices(t) => NotIn(L, N, index)
  <2> SUFFICES ASSUME index \notin Indices(t), NEW b \in 0 .. N - 1, NEW n \in 1 .. Len(L[b]), L[b][n] = index
               PROVE  FALSE
    BY DEF NotIn
  <2>1. index \in IndicesUnder(x, b)
    BY <1>4
  <2> QED
    BY <1>3, <2>1
<1>6. Cardinality(Indices(t)) \in Nat
  <2>1. Indices(t) \subseteq 0 .. S - 1
    BY <1>3, <1>4
  <2>2. IsFiniteSet(0 .. S - 1)
    BY <1>2, FS_Interval
  <2>3. IsFiniteSet(Indices(t))
    BY <2>1, <2>2, FS_Subset
  <2> QED
    BY <2>3, FS_CardinalityType
<1> QED
  BY <1>1, <1>5, <1>6

\* Add.
LEMMA AddIs ==
  ASSUME NEW x, NEW L, Holds(x, L), NEW hashKey \in Nat, NEW index \in 0 .. MaxIndex, NotIn(L, x.hashSize, index)
  PROVE  \E M : Holds(AddTo(x, hashKey, index), M) /\ Lists!Adds(L, M)
<1>1. index \in Nat
  OBVIOUS
<1>2. PICK N, b : N = x.hashSize /\ b = hashKey % x.hashSize
  OBVIOUS
<1>3. PICK M : M = Lists!WithFirst(L, b, index)
  OBVIOUS
<1>4. b \in 0 .. N - 1 /\ Holds(AddTo(x, hashKey, index), M)
  BY <1>1, <1>2, <1>3, AddToHolds
<1>5. L = [c \in 0 .. N - 1 |-> L[c]] /\ \A c \in 0 .. N - 1 : L[c] \in Seq(0 .. x.indexSize - 1)
  BY <1>2, ListsAreLists
<1>6. \A c \in 0 .. N - 1 : DOMAIN L[c] = 1 .. Len(L[c])
  <2> TAKE c \in 0 .. N - 1
  <2>1. PICK s : s = L[c]
    OBVIOUS
  <2>2. s \in Seq(0 .. x.indexSize - 1)
    BY <1>5, <2>1
  <2> QED
    BY <2>1, <2>2
<1>7. DOMAIN L = 0 .. N - 1
  BY <1>5
<1>8. index \notin Lists!Places(L)
  BY <1>2, <1>6, <1>7 DEF Lists!Places, NotIn
<1>9. Lists!Adds(L, M)
  BY <1>3, <1>4, <1>7, <1>8 DEF Lists!Adds
<1> QED
  BY <1>4, <1>9

\* Remove.
LEMMA RemoveIs ==
  ASSUME NEW x, NEW L, Holds(x, L), NEW hashKey \in Nat, NEW i, i \in IndicesUnder(x, hashKey)
  PROVE  \E M : Holds(RemoveFrom(x, hashKey, i), M) /\ Lists!Removes(L, M)
<1>1. PICK k : k = Mask(hashKey, x.hashMask)
  OBVIOUS
<1>2. /\ IsAllocated(x) /\ k \in 0 .. x.hashSize - 1
      /\ \E p \in 1 .. Len(L[k]) : i = L[k][p]
  BY <1>1, UnderIsListed
<1>3. PICK p \in 1 .. Len(L[k]) : i = L[k][p]
  BY <1>2
<1>4. Holds(RemoveFrom(x, hashKey, i), Lists!Without(L, i))
  BY <1>1, <1>2, <1>3, RemoveFromHolds
<1>5. i \in Lists!Places(L)
  <2>1. PICK s : s = L[k]
    OBVIOUS
  <2>2. s \in Seq(0 .. x.indexSize - 1) /\ k \in DOMAIN L
    BY <1>2, <2>1, ListsAreLists
  <2>3. p \in DOMAIN s
    BY <1>3, <2>1, <2>2
  <2> QED
    BY <1>3, <2>1, <2>2, <2>3 DEF Lists!Places
<1>6. Lists!Removes(L, Lists!Without(L, i))
  BY <1>5 DEF Lists!Removes
<1> QED
  BY <1>4, <1>6

\* RemoveIndex.
LEMMA RemoveIndexIs ==
  ASSUME NEW x, NEW L, Holds(x, L), NEW hashKey \in Nat, NEW i, i \in IndicesUnder(x, hashKey)
  PROVE  \E M : Holds(RemoveIndexFrom(x, hashKey, i), M) /\ Lists!TakesOut(L, M)
<1>1. PICK k : k = Mask(hashKey, x.hashMask)
  OBVIOUS
<1>2. /\ IsAllocated(x) /\ k \in 0 .. x.hashSize - 1
      /\ \E p \in 1 .. Len(L[k]) : i = L[k][p]
  BY <1>1, UnderIsListed
<1>3. PICK p \in 1 .. Len(L[k]) : i = L[k][p]
  BY <1>2
<1>4. PICK y, D : y = RemoveFrom(x, hashKey, i) /\ D = Lists!Without(L, i)
  OBVIOUS
<1>5. /\ Holds(y, D) /\ IsAllocated(y) /\ i \in 0 .. y.indexSize - 1 /\ NotIn(D, y.hashSize, i)
  <2>1. y = RemoveFrom(x, hashKey, i)
    BY <1>4
  <2>2. /\ Holds(y, Lists!Without(L, i)) /\ IsAllocated(y)
        /\ y.hashSize = x.hashSize /\ y.indexSize = x.indexSize /\ i \in 0 .. x.indexSize - 1
        /\ NotIn(Lists!Without(L, i), x.hashSize, i)
    <3>1. IsAllocated(x) /\ k = Mask(hashKey, x.hashMask) /\ i = L[k][p]
      BY <1>1, <1>2, <1>3
    <3> QED
      BY <2>1, <3>1, RemoveFromHolds
  <2>3. i \in 0 .. y.indexSize - 1 /\ NotIn(Lists!Without(L, i), y.hashSize, i)
    BY <2>2
  <2> QED
    BY <1>4, <2>2, <2>3
<1>6. PICK M : M = UnderNew(D, y.hashSize, Where(y.indexSize, i, -1))
  OBVIOUS
<1>7. Holds(TakeOut(y, i), M)
  BY <1>5, <1>6, TakeOutHolds
<1>8. RemoveIndexFrom(x, hashKey, i) = TakeOut(y, i)
  BY <1>4, <1>5 DEF RemoveIndexFrom
<1>9. i \in Lists!Places(L)
  <2>1. PICK s : s = L[k]
    OBVIOUS
  <2>2. s \in Seq(0 .. x.indexSize - 1) /\ k \in DOMAIN L
    BY <1>2, <2>1, ListsAreLists
  <2>3. p \in DOMAIN s
    BY <1>3, <2>1, <2>2
  <2> QED
    BY <1>3, <2>1, <2>2, <2>3 DEF Lists!Places
<1>10. M = MovedDown(D, i)
  <2>1. PICK N, h, S, c : Shape(y, N, h, S, c) /\ ArraysIn(h, c, N, S) /\ Listed(h, c, N, S, D)
    BY <1>5, AllocatedShape
  <2>2. y.hashSize = N /\ y.indexSize = S /\ S \in Nat
    BY <2>1 DEF Shape, ArraysIn
  <2>3. i \in Nat /\ NotIn(D, N, i)
    BY <1>5, <2>2
  <2>4. MovedDown(D, i) = UnderNew(D, N, Where(S, i, -1))
    BY <2>1, <2>2, <2>3, MovedDownIs
  <2> QED
    BY <1>6, <2>2, <2>4
<1>11. Lists!TakesOut(L, M)
  BY <1>4, <1>9, <1>10 DEF Lists!TakesOut, MovedDown
<1> QED
  BY <1>7, <1>8, <1>11

\* InsertIndex.
LEMMA InsertIs ==
  ASSUME NEW x, NEW L, Holds(x, L), NEW hashKey \in Nat, NEW index \in 0 .. MaxIndex
  PROVE  \E M : Holds(InsertInto(x, hashKey, index), M) /\ Lists!Inserts(L, M)
<1>1. PICK N, b : N = x.hashSize /\ b = hashKey % x.hashSize
  OBVIOUS
<1>2. index \in Nat /\ N \in Nat \ {0}
  BY <1>1, ListsAreLists
<1>3. PICK y : y = IF IsAllocated(x) THEN Shifted(Raised(x, index), index) ELSE x
  OBVIOUS
<1>4. \E D : /\ Holds(y, D) /\ NotIn(D, N, index) /\ y.hashSize = N
             /\ D = MovedUp(L, index)
  <2>1. CASE IsAllocated(x)
    <3>1. PICK D : D = UnderNew(L, x.hashSize, Where(x.indexSize, index, 1))
      OBVIOUS
    <3>2. Holds(y, D) /\ y.hashSize = N /\ NotIn(D, N, index)
      BY <1>1, <1>2, <1>3, <2>1, <3>1, ShiftedHolds
    <3>3. D = MovedUp(L, index)
      <4>1. PICK O, h, S, c : Shape(x, O, h, S, c) /\ ArraysIn(h, c, O, S) /\ Listed(h, c, O, S, L)
        BY <2>1, AllocatedShape
      <4>2. x.hashSize = O /\ x.indexSize = S /\ S \in Nat
        BY <4>1 DEF Shape, ArraysIn
      <4> QED
        BY <1>2, <3>1, <4>1, <4>2, MovedIsUnderNew
    <3> QED
      BY <3>2, <3>3
  <2>2. CASE ~IsAllocated(x)
    <3>1. L = [c \in 0 .. N - 1 |-> <<>>]
      BY <1>1, <2>2 DEF Holds, Lists!NoLists
    <3>2. MovedUp(L, index) = L
      BY <3>1 DEF Lists!Moved, MovedUp
    <3>3. NotIn(L, N, index)
      <4>1. \A c \in 0 .. N - 1 : L[c] = <<>> /\ Len(L[c]) = 0
        BY <3>1, EmptySeq
      <4> QED
        BY <4>1 DEF NotIn
    <3>4. y = x
      BY <1>3, <2>2
    <3> QED
      BY <1>1, <3>2, <3>3, <3>4
  <2> QED
    BY <2>1, <2>2
<1>5. PICK D : /\ Holds(y, D) /\ NotIn(D, N, index) /\ y.hashSize = N
               /\ D = MovedUp(L, index)
  BY <1>4
<1>6. PICK M : M = Lists!WithFirst(D, b, index)
  OBVIOUS
<1>7. b \in 0 .. N - 1 /\ Holds(AddTo(y, hashKey, index), M)
  BY <1>1, <1>2, <1>5, <1>6, AddToHolds
<1>8. InsertInto(x, hashKey, index) = AddTo(y, hashKey, index)
  BY <1>3 DEF InsertInto
<1>9. b \in DOMAIN L
  BY <1>1, <1>7, ListsAreLists
<1>10. Lists!Inserts(L, M)
  BY <1>5, <1>6, <1>9 DEF Lists!Inserts, MovedUp
<1> QED
  BY <1>7, <1>8, <1>10

\* A table with nothing in it.
LEMMA NothingIsHeld ==
  ASSUME NEW sizes \in Sizes, NEW mask, NEW y, y = Unallocated(sizes, mask)
  PROVE  Holds(y, Lists!NoLists(sizes[1])) /\ y.hashSize = sizes[1]
<1>1. sizes \in (Nat \ {0}) \X Nat
  BY SizesAssumption
<1>2. PICK N, S : N = sizes[1] /\ S = sizes[2]
  OBVIOUS
<1>3. N \in HashSizes /\ S \in Nat
  BY <1>1, <1>2 DEF HashSizes
<1>4. y = [hashSize |-> N, hash |-> INVALID_INDEX, indexSize |-> S, indexChain |-> INVALID_INDEX,
           hashMask |-> mask, lookupMask |-> 0]
  BY <1>2 DEF Unallocated
<1>5. IsTable(y) /\ ~IsAllocated(y) /\ y.lookupMask = 0 /\ y.hashSize = N
  BY <1>3, <1>4 DEF IsTable, IsAllocated
<1> QED
  BY <1>2, <1>5 DEF Holds

\* Clear, and Clear with sizes.
LEMMA ClearIs ==
  ASSUME NEW x, NEW L, Holds(x, L), IsAllocated(x), NEW y, y = [x EXCEPT !.hash = Cells(x.hashSize)]
  PROVE  \E M : Holds(y, M) /\ Lists!Clears(M)
<1>1. PICK N, h, S, c : Shape(x, N, h, S, c) /\ ArraysIn(h, c, N, S) /\ Listed(h, c, N, S, L)
  BY AllocatedShape
<1>2. PICK f : f = Cells(N)
  OBVIOUS
<1>3. Shape(y, N, f, S, c)
  BY <1>1, <1>2 DEF Shape
<1>4. ArraysIn(f, c, N, S) /\ f = [b \in 0 .. N - 1 |-> -1]
  BY <1>1, <1>2 DEF ArraysIn, Cells
<1>5. PICK M : M = Lists!NoLists(N)
  OBVIOUS
<1>6. M = [b \in 0 .. N - 1 |-> <<>>]
  BY <1>5 DEF Lists!NoLists
<1>7. Listed(f, c, N, S, M)
  <2>1. <<>> \in Seq(0 .. S - 1) /\ Len(<<>>) = 0 /\ \A n \in 1 .. 0 : FALSE
    BY EmptySeq
  <2>2. Item(<<>>, 1) = -1 /\ Follows(c, <<>>)
    BY <2>1 DEF Item, Follows
  <2>3. \A b \in 0 .. N - 1 : M[b] = <<>> /\ f[b] = -1
    BY <1>4, <1>6
  <2> QED
    BY <1>6, <2>1, <2>2, <2>3 DEF Listed, Apart
<1>8. Holds(y, M)
  BY <1>3, <1>4, <1>7, ShapeHolds
<1>9. N \in {s[1] : s \in Sizes}
  BY <1>1 DEF ArraysIn, HashSizes
<1>10. Lists!Clears(M)
  BY <1>5, <1>9 DEF Lists!Clears
<1> QED
  BY <1>8, <1>10

LEMMA ClearAndResizeIs ==
  ASSUME NEW sizes \in NewSizes, NEW mask
  PROVE  \E M : Holds(Unallocated(sizes, mask), M) /\ Lists!Clears(M)
<1>1. sizes \in Sizes
  BY DEF Sizes
<1>2. Holds(Unallocated(sizes, mask), Lists!NoLists(sizes[1]))
  BY <1>1, NothingIsHeld
<1>3. sizes[1] \in {s[1] : s \in Sizes}
  BY <1>1
<1>4. Lists!Clears(Lists!NoLists(sizes[1]))
  BY <1>3 DEF Lists!Clears
<1> QED
  BY <1>2, <1>4

(***************************************************************************)
(* Index hash: the steps.                                                  *)
(***************************************************************************)

\* Every table holds the lists that callers see.
IndexInv ==
  /\ table = [t \in Tables |-> table[t]]
  /\ \A t \in Tables : Holds(table[t], ListsOf(table[t]))

\* The lists of all tables.
AllLists == [t \in Tables |-> ListsOf(table[t])]

\* The tables that are made hold nothing.
LEMMA IndexStarts ==
  ASSUME IndexInit
  PROVE  IndexInv /\ Lists!ListsInit
<1>1. StartSizes \in Sizes
  BY DEF Sizes
<1>2. PICK x : x = Unallocated(StartSizes, StartSizes[1] - 1)
  OBVIOUS
<1>3. Holds(x, Lists!NoLists(StartSizes[1]))
  BY <1>1, <1>2, NothingIsHeld
<1>4. ListsOf(x) = Lists!NoLists(StartSizes[1])
  BY <1>3, ListsAreSeen
<1>5. table = [t \in Tables |-> x]
  BY <1>2 DEF IndexInit
<1>6. IndexInv
  BY <1>3, <1>4, <1>5 DEF IndexInv
<1>7. [t \in Tables |-> ListsOf(table[t])] = [t \in Tables |-> Lists!NoLists(StartSizes[1])]
  BY <1>4, <1>5
<1>8. StartSizes[1] \in {s[1] : s \in Sizes}
  BY <1>1
<1> QED
  BY <1>6, <1>7, <1>8 DEF Lists!ListsInit

\* What one table becomes.
ListStep(L, M) ==
  \/ Lists!Clears(M) \/ Lists!Copies(M)
  \/ Lists!Adds(L, M) \/ Lists!Removes(L, M) \/ Lists!Inserts(L, M) \/ Lists!TakesOut(L, M)

LEMMA OneBecomes ==
  ASSUME IndexInv, NEW t \in Tables, NEW x, Becomes(t, x),
         NEW M, Holds(x, M), ListStep(ListsOf(table[t]), M)
  PROVE  IndexInv' /\ [Lists!ListsNext]_AllLists
<1>1. table' = [table EXCEPT ![t] = x] /\ table = [w \in Tables |-> table[w]]
  BY DEF Becomes, IndexInv
<1>2. table' = [w \in Tables |-> table'[w]] /\ table'[t] = x /\ \A w \in Tables \ {t} : table'[w] = table[w]
  BY <1>1
<1>3. ListsOf(x) = M
  BY ListsAreSeen
<1>4. IndexInv'
  <2>1. ASSUME NEW w \in Tables
        PROVE  Holds(table'[w], ListsOf(table'[w]))
    BY <1>2, <1>3 DEF IndexInv
  <2> QED
    BY <1>2, <2>1 DEF IndexInv
<1>5. AllLists' = [w \in Tables |-> ListsOf(table'[w])]
  BY DEF AllLists
<1>6. CASE M = ListsOf(table[t])
  <2>1. \A w \in Tables : ListsOf(table'[w]) = ListsOf(table[w])
    BY <1>2, <1>3, <1>6
  <2>2. AllLists' = AllLists
    BY <1>5, <2>1 DEF AllLists
  <2> QED
    BY <1>4, <2>2
<1>7. CASE M # ListsOf(table[t])
  <2>1. AllLists[t] = ListsOf(table[t]) /\ AllLists'[t] = M
    BY <1>2, <1>3, <1>5 DEF AllLists
  <2>2. \A w \in Tables \ {t} : AllLists'[w] = AllLists[w]
    BY <1>2, <1>5 DEF AllLists
  <2>3. Lists!ListsNext
    BY <1>7, <2>1, <2>2 DEF Lists!ListsNext, ListStep, AllLists
  <2> QED
    BY <1>4, <2>3
<1> QED
  BY <1>6, <1>7

\* Every operation is a step of the lists.
LEMMA AddSteps ==
  ASSUME IndexInv, NEW t \in Tables, NEW hashKey \in IndexKeys, NEW index \in 0 .. MaxIndex, Add(t, hashKey, index)
  PROVE  IndexInv' /\ [Lists!ListsNext]_AllLists
<1>1. PICK x, L : x = table[t] /\ L = ListsOf(table[t])
  OBVIOUS
<1>2. Holds(x, L) /\ hashKey \in Nat
  BY <1>1, CallsAssumption DEF IndexInv
<1>3. NotIn(L, x.hashSize, index)
  BY <1>1, <1>2, NotAmong DEF Add
<1>4. PICK M : Holds(AddTo(x, hashKey, index), M) /\ Lists!Adds(L, M)
  BY <1>2, <1>3, AddIs
<1>5. Becomes(t, AddTo(x, hashKey, index))
  BY <1>1 DEF Add
<1>6. ListStep(ListsOf(table[t]), M)
  BY <1>1, <1>4 DEF ListStep
<1> QED
  BY <1>4, <1>5, <1>6, OneBecomes

LEMMA RemoveSteps ==
  ASSUME IndexInv, NEW t \in Tables, NEW hashKey \in IndexKeys, NEW index,
         Remove(t, hashKey, index) \/ RemoveIndex(t, hashKey, index)
  PROVE  IndexInv' /\ [Lists!ListsNext]_AllLists
<1>1. PICK x, L : x = table[t] /\ L = ListsOf(table[t])
  OBVIOUS
<1>2. Holds(x, L) /\ hashKey \in Nat
  BY <1>1, CallsAssumption DEF IndexInv
<1>3. index \in IndicesUnder(x, hashKey)
  BY <1>1 DEF Remove, RemoveIndex
<1>4. CASE Remove(t, hashKey, index)
  <2>1. PICK M : Holds(RemoveFrom(x, hashKey, index), M) /\ Lists!Removes(L, M)
    BY <1>2, <1>3, RemoveIs
  <2>2. Becomes(t, RemoveFrom(x, hashKey, index))
    BY <1>1, <1>4 DEF Remove
  <2>3. ListStep(ListsOf(table[t]), M)
    BY <1>1, <2>1 DEF ListStep
  <2> QED
    BY <2>1, <2>2, <2>3, OneBecomes
<1>5. CASE RemoveIndex(t, hashKey, index)
  <2>1. PICK M : Holds(RemoveIndexFrom(x, hashKey, index), M) /\ Lists!TakesOut(L, M)
    BY <1>2, <1>3, RemoveIndexIs
  <2>2. Becomes(t, RemoveIndexFrom(x, hashKey, index))
    BY <1>1, <1>5 DEF RemoveIndex
  <2>3. ListStep(ListsOf(table[t]), M)
    BY <1>1, <2>1 DEF ListStep
  <2> QED
    BY <2>1, <2>2, <2>3, OneBecomes
<1> QED
  BY <1>4, <1>5

LEMMA InsertSteps ==
  ASSUME IndexInv, NEW t \in Tables, NEW hashKey \in IndexKeys, NEW index \in 0 .. MaxIndex, InsertIndex(t, hashKey, index)
  PROVE  IndexInv' /\ [Lists!ListsNext]_AllLists
<1>1. PICK x, L : x = table[t] /\ L = ListsOf(table[t])
  OBVIOUS
<1>2. Holds(x, L) /\ hashKey \in Nat
  BY <1>1, CallsAssumption DEF IndexInv
<1>3. PICK M : Holds(InsertInto(x, hashKey, index), M) /\ Lists!Inserts(L, M)
  BY <1>2, InsertIs
<1>4. Becomes(t, InsertInto(x, hashKey, index))
  BY <1>1 DEF InsertIndex
<1>5. ListStep(ListsOf(table[t]), M)
  BY <1>1, <1>3 DEF ListStep
<1> QED
  BY <1>3, <1>4, <1>5, OneBecomes

LEMMA ClearSteps ==
  ASSUME IndexInv, NEW t \in Tables,
         \/ Clear(t)
         \/ \E sizes \in NewSizes : ClearAndResize(t, sizes)
         \/ \E other \in Tables : CopyFrom(t, other)
  PROVE  IndexInv' /\ [Lists!ListsNext]_AllLists
<1>1. PICK x, L : x = table[t] /\ L = ListsOf(table[t])
  OBVIOUS
<1>2. Holds(x, L)
  BY <1>1 DEF IndexInv
<1>3. CASE Clear(t)
  <2>1. PICK y : y = [x EXCEPT !.hash = Cells(x.hashSize)]
    OBVIOUS
  <2>2. Becomes(t, y) /\ IsAllocated(x)
    BY <1>1, <1>3, <2>1 DEF Clear
  <2>3. PICK M : Holds(y, M) /\ Lists!Clears(M)
    BY <1>2, <2>1, <2>2, ClearIs
  <2>4. ListStep(ListsOf(table[t]), M)
    BY <2>3 DEF ListStep
  <2> QED
    BY <2>2, <2>3, <2>4, OneBecomes
<1>4. CASE \E sizes \in NewSizes : ClearAndResize(t, sizes)
  <2>1. PICK sizes \in NewSizes : Becomes(t, Unallocated(sizes, x.hashMask))
    BY <1>1, <1>4 DEF ClearAndResize
  <2>2. PICK M : Holds(Unallocated(sizes, x.hashMask), M) /\ Lists!Clears(M)
    BY ClearAndResizeIs
  <2>3. ListStep(ListsOf(table[t]), M)
    BY <2>2 DEF ListStep
  <2> QED
    BY <2>1, <2>2, <2>3, OneBecomes
<1>5. CASE \E other \in Tables : CopyFrom(t, other)
  <2>1. PICK other \in Tables : Becomes(t, table[other])
    BY <1>5 DEF CopyFrom
  <2>2. PICK M : M = ListsOf(table[other])
    OBVIOUS
  <2>3. Holds(table[other], M)
    BY <2>2 DEF IndexInv
  <2>4. Lists!Copies(M)
    BY <2>2 DEF Lists!Copies
  <2>5. ListStep(ListsOf(table[t]), M)
    BY <2>4 DEF ListStep
  <2> QED
    BY <2>1, <2>3, <2>5, OneBecomes
<1> QED
  BY <1>3, <1>4, <1>5

LEMMA IndexSteps ==
  ASSUME IndexInv, [IndexNext]_indexVars
  PROVE  IndexInv' /\ [Lists!ListsNext]_AllLists
<1>1. CASE UNCHANGED indexVars
  <2>1. table' = table
    BY <1>1 DEF indexVars
  <2> QED
    BY <2>1 DEF IndexInv, AllLists
<1>2. CASE \E t \in Others, hashKey \in IndexKeys : FillOther(t, hashKey)
  <2>1. PICK t \in Others, hashKey \in IndexKeys : FillOther(t, hashKey)
    BY <1>2
  <2>2. PICK index : index = Cardinality(Indices(t))
    OBVIOUS
  <2>3. t \in Tables /\ MaxIndex \in Nat
    BY CallsAssumption
  <2>4. Holds(table[t], ListsOf(table[t]))
    BY <2>3 DEF IndexInv
  <2>5. index \in Nat
    BY <2>2, <2>3, <2>4, NotAmong
  <2>6. index < MaxIndex /\ Add(t, hashKey, index)
    BY <2>1, <2>2 DEF FillOther
  <2>7. index \in 0 .. MaxIndex
    BY <2>3, <2>5, <2>6
  <2> QED
    BY <2>3, <2>6, <2>7, AddSteps
<1>3. ASSUME NEW t \in Tables \ Others, NEW hashKey \in IndexKeys, NEW index \in 0 .. MaxIndex,
             \/ Add(t, hashKey, index)
             \/ Remove(t, hashKey, index)
             \/ InsertIndex(t, hashKey, index)
             \/ RemoveIndex(t, hashKey, index)
      PROVE  IndexInv' /\ [Lists!ListsNext]_AllLists
  <2>1. t \in Tables
    OBVIOUS
  <2> QED
    BY <1>3, <2>1, AddSteps, RemoveSteps, InsertSteps
<1>4. ASSUME NEW t \in Tables \ Others,
             \/ Clear(t)
             \/ \E sizes \in NewSizes : ClearAndResize(t, sizes)
             \/ \E other \in Tables : CopyFrom(t, other)
      PROVE  IndexInv' /\ [Lists!ListsNext]_AllLists
  <2>1. t \in Tables
    OBVIOUS
  <2> QED
    BY <1>4, <2>1, ClearSteps
<1> QED
  BY <1>1, <1>2, <1>3, <1>4 DEF IndexNext

\* Whatever is added, removed, inserted, taken out, cleared and copied (Add, Remove,
\* InsertIndex, RemoveIndex, Clear and operator= of idHashIndex), under any keys, in an array
\* of any length: each call makes of the lists that callers walk through with First and Next
\* what KeyedLists says of it, so that no index is lost, doubled or in a wrong bucket.
THEOREM IndexIsLists == IndexInit /\ [][IndexNext]_indexVars => ImplementsLists
<1>1. IndexInit => IndexInv /\ Lists!ListsInit
  BY IndexStarts
<1>2. IndexInv /\ [IndexNext]_indexVars => IndexInv' /\ [Lists!ListsNext]_AllLists
  BY IndexSteps
<1> QED
  BY <1>1, <1>2, PTL DEF ImplementsLists, Lists!ListsSpec, AllLists
==============================================================================
