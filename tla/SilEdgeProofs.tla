---------------------------- MODULE SilEdgeProofs ----------------------------
(***************************************************************************)
(* Theorems about the silhouette edges of a surface (tr_trisurf.cpp): what *)
(* the loop of R_IdentifySilEdges makes of any number of triangles,        *)
(* followed edge by edge.                                                  *)
(***************************************************************************)
EXTENDS ShadowVolume, FiniteSetTheorems, SequenceTheorems, WellFoundedInduction,
        NaturalsInduction, TLAPS

------------------------------------------------------------------------------
\* A set of places has a least one, and Min finds it.
LEMMA LeastPlace ==
  ASSUME NEW S \in SUBSET Nat, S # {}
  PROVE  Min(S) \in S /\ \A x \in S : Min(S) <= x
<1>1. PICK R : R = OpToRel(<, Nat) /\ IsWellFoundedOn(R, Nat)
  BY NatLessThanWellFounded
<1>2. \A a, b \in Nat : a < b => <<a, b>> \in R
  BY <1>1 DEF OpToRel
<1>3. PICK x \in S : \A y \in S : ~(<<y, x>> \in R)
  BY <1>1, WFMin
<1>4. \A y \in S : x <= y
  <2>1. TAKE y \in S
  <2>2. x \in Nat /\ y \in Nat /\ ~(y < x)
    BY <1>2, <1>3
  <2> QED
    BY <2>2
<1> QED
  BY <1>3, <1>4 DEF Min

\* What holds at 0 and goes on from one number to the next holds up to N.
LEMMA UpTo ==
  ASSUME NEW N \in Nat, NEW T,
         0 \in T, \A n \in 0 .. N : n \in T /\ n < N => n + 1 \in T
  PROVE  \A n \in 0 .. N : n \in T
<1> SUFFICES ASSUME (0 .. N) \ T # {} PROVE FALSE
  OBVIOUS
<1>1. PICK n : n = Min((0 .. N) \ T)
  OBVIOUS
<1>2. n \in (0 .. N) \ T /\ \A m \in (0 .. N) \ T : n <= m
  BY LeastPlace, <1>1
<1>3. n # 0 /\ n - 1 \in 0 .. N /\ n - 1 < N
  BY <1>2
<1>4. n - 1 \in T
  BY <1>2, <1>3
<1>5. (n - 1) + 1 \in T
  BY <1>3, <1>4
<1> QED
  BY <1>2, <1>3, <1>5

\* The recursive function of Entered.
LEMMA EnteredIsMade ==
  ASSUME NEW tris, Len(EdgesOf(tris)) \in Nat
  PROVE  \E g : /\ g = [n \in 0 .. Len(EdgesOf(tris)) |-> IF n = 0 THEN <<>>
                         ELSE DefineEdge(g[n - 1], EdgesOf(tris)[n], NoPlane(tris))]
                /\ Entered(tris) = g[Len(EdgesOf(tris))]
<1> DEFINE es == EdgesOf(tris)
           N == Len(es)
           Is(h, m) == h = [n \in 0 .. m |-> IF n = 0 THEN <<>>
                              ELSE DefineEdge(h[n - 1], es[n], NoPlane(tris))]
           T == {m \in 0 .. N : \E h : Is(h, m)}
<1>1. 0 \in T
  <2>1. PICK h : h = [n \in 0 .. 0 |-> <<>>]
    OBVIOUS
  <2>2. Is(h, 0)
    BY <2>1
  <2> QED
    BY <2>2
<1>2. ASSUME NEW m \in 0 .. N, m \in T, m < N
      PROVE  m + 1 \in T
  <2>1. PICK h : Is(h, m)
    BY <1>2
  <2>2. PICK k : k = [n \in 0 .. m + 1 |-> IF n \in 0 .. m THEN h[n]
                        ELSE DefineEdge(h[n - 1], es[n], NoPlane(tris))]
    OBVIOUS
  <2>3. \A n \in 0 .. m : k[n] = h[n]
    BY <2>2
  <2>4. \A n \in 0 .. m + 1 :
          k[n] = IF n = 0 THEN <<>> ELSE DefineEdge(k[n - 1], es[n], NoPlane(tris))
    <3> TAKE n \in 0 .. m + 1
    <3>1. CASE n \in 0 .. m
      <4>1. n = 0 \/ n - 1 \in 0 .. m
        BY <3>1
      <4> QED
        BY <2>1, <2>3, <3>1, <4>1
    <3>2. CASE n = m + 1
      <4>1. n # 0 /\ n - 1 \in 0 .. m /\ n \notin 0 .. m
        BY <3>2
      <4> QED
        BY <2>2, <2>3, <4>1
    <3> QED
      BY <3>1, <3>2
  <2>5. Is(k, m + 1)
    BY <2>2, <2>4
  <2>6. m + 1 \in 0 .. N
    BY <1>2
  <2> QED
    BY <2>5, <2>6
<1>3. N \in T
  <2>1. N \in Nat
    OBVIOUS
  <2> HIDE DEF T, N
  <2>2. \A n \in 0 .. N : n \in T
    BY <1>1, <1>2, <2>1, UpTo
  <2> QED
    BY <2>1, <2>2
<1>4. \E h : Is(h, N)
  BY <1>3
<1> QED
  BY <1>4 DEF Entered

------------------------------------------------------------------------------
(* Counting.                                                               *)

HowMany(S, n) == Cardinality(S \cap (1 .. n))
Bit(P) == IF P THEN 1 ELSE 0

\* There are none to begin with, and the next number is in the set or not.
LEMMA HowManyType ==
  ASSUME NEW S, NEW n \in Nat
  PROVE  IsFiniteSet(S \cap (1 .. n)) /\ HowMany(S, n) \in Nat
<1>1. IsFiniteSet(1 .. n)
  BY FS_Interval
<1>2. IsFiniteSet(S \cap (1 .. n))
  BY <1>1, FS_Intersection
<1> QED
  BY <1>2, FS_CardinalityType DEF HowMany

LEMMA HowManyNone ==
  ASSUME NEW S
  PROVE  HowMany(S, 0) = 0
<1>1. S \cap (1 .. 0) = {}
  OBVIOUS
<1> QED
  BY <1>1, FS_EmptySet DEF HowMany

LEMMA HowManyNext ==
  ASSUME NEW S, NEW n \in Nat
  PROVE  HowMany(S, n + 1) = HowMany(S, n) + Bit(n + 1 \in S)
<1>1. IsFiniteSet(S \cap (1 .. n)) /\ n + 1 \notin S \cap (1 .. n)
  BY HowManyType
<1>2. CASE n + 1 \in S
  <2>1. S \cap (1 .. n + 1) = (S \cap (1 .. n)) \cup {n + 1}
    BY <1>2
  <2> QED
    BY <1>1, <1>2, <2>1, FS_AddElement DEF HowMany, Bit
<1>3. CASE n + 1 \notin S
  <2>1. S \cap (1 .. n + 1) = S \cap (1 .. n)
    BY <1>3
  <2>2. HowMany(S, n) \in Nat
    BY HowManyType
  <2> QED
    BY <1>3, <2>1, <2>2 DEF HowMany, Bit
<1> QED
  BY <1>2, <1>3

\* Sets that agree so far have as many.
LEMMA HowManySame ==
  ASSUME NEW S, NEW R, NEW n \in Nat, \A k \in 1 .. n : k \in S <=> k \in R
  PROVE  HowMany(S, n) = HowMany(R, n)
<1>1. S \cap (1 .. n) = R \cap (1 .. n)
  OBVIOUS
<1> QED
  BY <1>1 DEF HowMany

\* One place more or less in a set.
LEMMA HowManyJoined ==
  ASSUME NEW S, NEW R, NEW n \in Nat, NEW m \in 1 .. n,
         \A k \in 1 .. n : k # m => (k \in S <=> k \in R)
  PROVE  HowMany(R, n) - Bit(m \in R) = HowMany(S, n) - Bit(m \in S)
<1> DEFINE Q == (S \cap (1 .. n)) \ {m}
<1>1. Q = (R \cap (1 .. n)) \ {m}
  OBVIOUS
<1>2. IsFiniteSet(S \cap (1 .. n)) /\ IsFiniteSet(R \cap (1 .. n))
  BY HowManyType
<1>3. HowMany(S, n) \in Nat /\ HowMany(R, n) \in Nat
  BY HowManyType
<1>4. Cardinality(Q) = HowMany(S, n) - Bit(m \in S)
  <2>1. Cardinality((S \cap (1 .. n)) \ {m}) =
          IF m \in S \cap (1 .. n) THEN Cardinality(S \cap (1 .. n)) - 1
                                     ELSE Cardinality(S \cap (1 .. n))
    BY <1>2, FS_RemoveElement
  <2>2. m \in S \cap (1 .. n) <=> m \in S
    OBVIOUS
  <2> QED
    BY <1>3, <2>1, <2>2 DEF HowMany, Bit
<1>5. Cardinality(Q) = HowMany(R, n) - Bit(m \in R)
  <2>1. Cardinality((R \cap (1 .. n)) \ {m}) =
          IF m \in R \cap (1 .. n) THEN Cardinality(R \cap (1 .. n)) - 1
                                     ELSE Cardinality(R \cap (1 .. n))
    BY <1>2, FS_RemoveElement
  <2>2. m \in R \cap (1 .. n) <=> m \in R
    OBVIOUS
  <2> QED
    BY <1>1, <1>3, <2>1, <2>2 DEF HowMany, Bit
<1> QED
  BY <1>4, <1>5

\* Three numbers more.
LEMMA HowManyThree ==
  ASSUME NEW S, NEW n \in Nat
  PROVE  HowMany(S, n + 3) = HowMany(S, n) + Bit(n + 1 \in S) + Bit(n + 2 \in S) + Bit(n + 3 \in S)
<1>1. HowMany(S, n) \in Nat
  BY HowManyType
<1>2. HowMany(S, (n + 1) + 1) = HowMany(S, n + 1) + Bit((n + 1) + 1 \in S)
  BY HowManyNext
<1>3. HowMany(S, (n + 2) + 1) = HowMany(S, n + 2) + Bit((n + 2) + 1 \in S)
  BY HowManyNext
<1>4. HowMany(S, n + 1) = HowMany(S, n) + Bit(n + 1 \in S)
  BY HowManyNext
<1>5. (n + 1) + 1 = n + 2 /\ (n + 2) + 1 = n + 3
  OBVIOUS
<1> QED
  BY <1>1, <1>2, <1>3, <1>4, <1>5 DEF Bit

------------------------------------------------------------------------------
(* Entering edges.                                                         *)

SilEdge(V, np) == [v1 : V, v2 : V, p1 : 1 .. np - 1, p2 : 1 .. np]
DirectedEdge(V, np) == [v1 : V, v2 : V, plane : 1 .. np - 1]

\* What R_DefineEdge does with an edge: nothing, as it has no extent or there is no
\* room; it joins it; or it enters it.
Drops(J, e, K) == K = J /\ (e.v1 = e.v2 \/ Len(J) = MaxSilEdges)
JoinsAt(J, e, np, m, K) ==
  /\ m \in DOMAIN J
  /\ e.v1 # e.v2
  /\ J[m].v1 = e.v2 /\ J[m].v2 = e.v1 /\ J[m].p2 = np
  /\ K = [J EXCEPT ![m].p2 = e.plane]
Joins(J, e, np, K) == \E m : JoinsAt(J, e, np, m, K)
Enters(J, e, np, K) ==
  /\ e.v1 # e.v2
  /\ \A i \in DOMAIN J : ~(J[i].v1 = e.v2 /\ J[i].v2 = e.v1 /\ J[i].p2 = np)
  /\ K = Append(J, [v1 |-> e.v1, v2 |-> e.v2, p1 |-> e.plane, p2 |-> np])

\* DefineEdge does one of the three.
LEMMA EdgeIsDefined ==
  ASSUME NEW V, NEW np \in Nat, NEW J \in Seq(SilEdge(V, np)), NEW e \in DirectedEdge(V, np)
  PROVE  LET K == DefineEdge(J, e, np)
         IN  Drops(J, e, K) \/ Joins(J, e, np, K) \/ Enters(J, e, np, K)
<1> DEFINE matching == {i \in DOMAIN J : Reversed(J[i], e) /\ J[i].p2 = np}
<1>1. matching \in SUBSET Nat
  OBVIOUS
<1>2. CASE e.v1 = e.v2
  BY <1>2 DEF DefineEdge, Drops
<1>3. CASE e.v1 # e.v2 /\ matching # {}
  <2>1. PICK m : m = Min(matching)
    OBVIOUS
  <2>2. m \in matching
    BY <1>1, <1>3, <2>1, LeastPlace
  <2>3. DefineEdge(J, e, np) = [J EXCEPT ![m].p2 = e.plane]
    BY <1>3, <2>1 DEF DefineEdge
  <2>4. J[m].v1 = e.v2 /\ J[m].v2 = e.v1 /\ J[m].p2 = np /\ m \in DOMAIN J
    BY <2>2 DEF Reversed
  <2> QED
    BY <1>3, <2>3, <2>4 DEF Joins, JoinsAt
<1>4. CASE e.v1 # e.v2 /\ matching = {} /\ Len(J) = MaxSilEdges
  BY <1>4 DEF DefineEdge, Drops
<1>5. CASE e.v1 # e.v2 /\ matching = {} /\ Len(J) # MaxSilEdges
  <2>1. DefineEdge(J, e, np) = Append(J, [v1 |-> e.v1, v2 |-> e.v2, p1 |-> e.plane, p2 |-> np])
    BY <1>5 DEF DefineEdge
  <2> QED
    BY <1>5, <2>1 DEF Enters, Reversed
<1> QED
  BY <1>2, <1>3, <1>4, <1>5

\* What is entered are edges, none without extent.
GoodEdges(V, np, J) ==
  /\ J \in Seq(SilEdge(V, np))
  /\ \A i \in DOMAIN J : J[i].v1 # J[i].v2

LEMMA GoodEdgesStay ==
  ASSUME NEW V, NEW np \in Nat, NEW J, GoodEdges(V, np, J), NEW e \in DirectedEdge(V, np)
  PROVE  GoodEdges(V, np, DefineEdge(J, e, np))
<1> DEFINE K == DefineEdge(J, e, np)
<1>1. J \in Seq(SilEdge(V, np)) /\ np - 1 \in Nat
  <2>1. e.plane \in 1 .. np - 1
    BY DEF DirectedEdge
  <2> QED
    BY <2>1 DEF GoodEdges
<1>2. e.v1 \in V /\ e.v2 \in V /\ e.plane \in 1 .. np - 1 /\ np \in 1 .. np /\ e.plane \in 1 .. np
  BY <1>1 DEF DirectedEdge
<1>3. Drops(J, e, K) \/ Joins(J, e, np, K) \/ Enters(J, e, np, K)
  BY <1>1, EdgeIsDefined
<1> SUFFICES GoodEdges(V, np, K)
  OBVIOUS
<1> HIDE DEF K
<1>4. CASE Drops(J, e, K)
  BY <1>4 DEF Drops, GoodEdges
<1>5. CASE Joins(J, e, np, K)
  <2>1. PICK m \in DOMAIN J : J[m].v1 = e.v2 /\ J[m].v2 = e.v1 /\ J[m].p2 = np
                              /\ K = [J EXCEPT ![m].p2 = e.plane]
    BY <1>5 DEF Joins, JoinsAt
  <2>2. J[m] \in SilEdge(V, np)
    BY <1>1
  <2>3. [J[m] EXCEPT !.p2 = e.plane] \in SilEdge(V, np)
    BY <1>2, <2>2 DEF SilEdge
  <2>4. K = [J EXCEPT ![m] = [J[m] EXCEPT !.p2 = e.plane]]
    BY <2>1
  <2>5. K \in Seq(SilEdge(V, np))
    BY <1>1, <2>3, <2>4
  <2>6. \A i \in DOMAIN K : K[i].v1 = J[i].v1 /\ K[i].v2 = J[i].v2 /\ i \in DOMAIN J
    <3>1. \A i \in DOMAIN J : J[i] \in SilEdge(V, np)
      BY <1>1
    <3> QED
      BY <2>4, <3>1 DEF SilEdge
  <2> QED
    BY <2>5, <2>6 DEF GoodEdges
<1>6. CASE Enters(J, e, np, K)
  <2>1. PICK new : new = [v1 |-> e.v1, v2 |-> e.v2, p1 |-> e.plane, p2 |-> np]
    OBVIOUS
  <2>2. new \in SilEdge(V, np) /\ new.v1 # new.v2
    BY <1>2, <1>6, <2>1 DEF SilEdge, Enters
  <2>3. K = Append(J, new)
    BY <1>6, <2>1 DEF Enters
  <2>4. K \in Seq(SilEdge(V, np))
    BY <1>1, <2>2, <2>3
  <2>5. \A i \in DOMAIN K : (i \in DOMAIN J /\ K[i] = J[i]) \/ K[i] = new
    BY <1>1, <2>2, <2>3
  <2> QED
    BY <2>2, <2>4, <2>5 DEF GoodEdges
<1> QED
  BY <1>3, <1>4, <1>5, <1>6

\* The edges that run from v to w, and those entered ones of which the other side is open.
Running(es, v, w) == {k \in DOMAIN es : es[k].v1 = v /\ es[k].v2 = w}
OpenAt(J, np, v, w) == {i \in DOMAIN J : J[i].v1 = v /\ J[i].v2 = w /\ J[i].p2 = np}
NumOpen(J, np, v, w) == HowMany(OpenAt(J, np, v, w), Len(J))

\* Between two vertices, edges are open one way at most, and as many as run that way
\* more often than back.
OpenOneWay(V, np, J) == \A v, w \in V : OpenAt(J, np, v, w) = {} \/ OpenAt(J, np, w, v) = {}
Balance(np, es, n, J, v, w) ==
  HowMany(Running(es, v, w), n) + NumOpen(J, np, w, v)
    = HowMany(Running(es, w, v), n) + NumOpen(J, np, v, w)
EdgesMatched(V, np, es, n, J) ==
  Len(J) < MaxSilEdges => \A v, w \in V : v # w => Balance(np, es, n, J, v, w)

\* Joining an edge, from its other end.
LEMMA JoinedEdge ==
  ASSUME NEW V, NEW np \in Nat, NEW J, GoodEdges(V, np, J), NEW e \in DirectedEdge(V, np),
         NEW m, NEW K, JoinsAt(J, e, np, m, K)
  PROVE  /\ Len(K) = Len(J) /\ DOMAIN K = DOMAIN J
         /\ K[m].v1 = J[m].v1 /\ K[m].v2 = J[m].v2 /\ K[m].p1 = J[m].p1 /\ K[m].p2 = e.plane
         /\ \A i \in DOMAIN J : i # m => K[i] = J[i]
         /\ e.plane # np /\ e.plane \in 1 .. np - 1
<1>1. J \in Seq(SilEdge(V, np))
  BY DEF GoodEdges
<1>2. J[m] \in SilEdge(V, np) /\ m \in DOMAIN J
  BY <1>1 DEF JoinsAt
<1>3. K = [J EXCEPT ![m] = [J[m] EXCEPT !.p2 = e.plane]]
  BY DEF JoinsAt
<1>4. Len(K) = Len(J) /\ DOMAIN K = DOMAIN J
  BY <1>1, <1>3
<1>5. K[m] = [J[m] EXCEPT !.p2 = e.plane]
  BY <1>2, <1>3
<1>6. K[m].v1 = J[m].v1 /\ K[m].v2 = J[m].v2 /\ K[m].p1 = J[m].p1 /\ K[m].p2 = e.plane
  BY <1>2, <1>5 DEF SilEdge
<1>7. e.plane # np /\ e.plane \in 1 .. np - 1
  BY DEF DirectedEdge
<1> QED
  BY <1>3, <1>4, <1>6, <1>7

\* Entering an edge.
LEMMA EnteredEdge ==
  ASSUME NEW V, NEW np \in Nat, NEW J, GoodEdges(V, np, J), NEW e \in DirectedEdge(V, np),
         NEW K, Enters(J, e, np, K)
  PROVE  /\ Len(J) \in Nat /\ Len(K) = Len(J) + 1
         /\ DOMAIN J = 1 .. Len(J) /\ DOMAIN K = 1 .. Len(J) + 1
         /\ \A i \in 1 .. Len(J) : K[i] = J[i]
         /\ K[Len(J) + 1] = [v1 |-> e.v1, v2 |-> e.v2, p1 |-> e.plane, p2 |-> np]
         /\ e.plane # np /\ e.plane \in 1 .. np - 1
<1>1. J \in Seq(SilEdge(V, np))
  BY DEF GoodEdges
<1>2. PICK new : new = [v1 |-> e.v1, v2 |-> e.v2, p1 |-> e.plane, p2 |-> np]
  OBVIOUS
<1>3. K = Append(J, new)
  BY <1>2 DEF Enters
<1>4. e.plane # np /\ e.plane \in 1 .. np - 1
  BY DEF DirectedEdge
<1> QED
  BY <1>1, <1>2, <1>3, <1>4

\* How the two counts change with one more edge, with an edge joined, and with one entered.
LEMMA OneMoreRuns ==
  ASSUME NEW V, NEW np \in Nat, NEW es \in Seq(DirectedEdge(V, np)),
         NEW n \in Nat, n < Len(es), NEW v, NEW w
  PROVE  HowMany(Running(es, v, w), n + 1)
           = HowMany(Running(es, v, w), n) + Bit(es[n + 1].v1 = v /\ es[n + 1].v2 = w)
<1>1. HowMany(Running(es, v, w), n + 1)
        = HowMany(Running(es, v, w), n) + Bit(n + 1 \in Running(es, v, w))
  BY HowManyNext
<1>2. n + 1 \in DOMAIN es
  OBVIOUS
<1>3. n + 1 \in Running(es, v, w) <=> es[n + 1].v1 = v /\ es[n + 1].v2 = w
  BY <1>2 DEF Running
<1> QED
  BY <1>1, <1>3 DEF Bit

LEMMA OneLessOpen ==
  ASSUME NEW V, NEW np \in Nat, NEW J, GoodEdges(V, np, J), NEW e \in DirectedEdge(V, np),
         NEW m, NEW K, JoinsAt(J, e, np, m, K), NEW v, NEW w
  PROVE  /\ OpenAt(K, np, v, w) \subseteq OpenAt(J, np, v, w)
         /\ NumOpen(K, np, v, w) = NumOpen(J, np, v, w) - Bit(e.v1 = w /\ e.v2 = v)
<1>1. /\ Len(K) = Len(J) /\ DOMAIN K = DOMAIN J
      /\ K[m].v1 = J[m].v1 /\ K[m].v2 = J[m].v2 /\ K[m].p2 = e.plane
      /\ \A i \in DOMAIN J : i # m => K[i] = J[i]
      /\ e.plane # np
  BY JoinedEdge
<1>2. Len(J) \in Nat /\ DOMAIN J = 1 .. Len(J) /\ m \in DOMAIN J
  BY DEF GoodEdges, JoinsAt
<1>3. \A i \in 1 .. Len(J) : i # m => (i \in OpenAt(J, np, v, w) <=> i \in OpenAt(K, np, v, w))
  BY <1>1, <1>2 DEF OpenAt
<1>4. m \notin OpenAt(K, np, v, w)
  BY <1>1 DEF OpenAt
<1>5. m \in OpenAt(J, np, v, w) <=> e.v1 = w /\ e.v2 = v
  BY DEF OpenAt, JoinsAt
<1>6. HowMany(OpenAt(K, np, v, w), Len(J)) - Bit(m \in OpenAt(K, np, v, w))
        = HowMany(OpenAt(J, np, v, w), Len(J)) - Bit(m \in OpenAt(J, np, v, w))
  <2>1. PICK S, R, N : S = OpenAt(J, np, v, w) /\ R = OpenAt(K, np, v, w) /\ N = Len(J)
    OBVIOUS
  <2>2. N \in Nat /\ m \in 1 .. N /\ \A i \in 1 .. N : i # m => (i \in S <=> i \in R)
    BY <1>2, <1>3, <2>1
  <2>3. HowMany(R, N) - Bit(m \in R) = HowMany(S, N) - Bit(m \in S)
    BY <2>2, HowManyJoined
  <2> QED
    BY <2>1, <2>3
<1>7. HowMany(OpenAt(J, np, v, w), Len(J)) \in Nat /\ HowMany(OpenAt(K, np, v, w), Len(J)) \in Nat
  BY <1>2, HowManyType
<1>8. NumOpen(K, np, v, w) = NumOpen(J, np, v, w) - Bit(e.v1 = w /\ e.v2 = v)
  BY <1>1, <1>4, <1>5, <1>6, <1>7 DEF NumOpen, Bit
<1>9. OpenAt(K, np, v, w) \subseteq DOMAIN J
  BY <1>1 DEF OpenAt
<1> QED
  BY <1>2, <1>3, <1>4, <1>8, <1>9

LEMMA OneMoreOpen ==
  ASSUME NEW V, NEW np \in Nat, NEW J, GoodEdges(V, np, J), NEW e \in DirectedEdge(V, np),
         NEW K, Enters(J, e, np, K), NEW v, NEW w
  PROVE  /\ OpenAt(K, np, v, w) =
              OpenAt(J, np, v, w) \cup (IF e.v1 = v /\ e.v2 = w THEN {Len(J) + 1} ELSE {})
         /\ NumOpen(K, np, v, w) = NumOpen(J, np, v, w) + Bit(e.v1 = v /\ e.v2 = w)
<1>1. /\ Len(J) \in Nat /\ Len(K) = Len(J) + 1
      /\ DOMAIN J = 1 .. Len(J) /\ DOMAIN K = 1 .. Len(J) + 1
      /\ \A i \in 1 .. Len(J) : K[i] = J[i]
      /\ K[Len(J) + 1] = [v1 |-> e.v1, v2 |-> e.v2, p1 |-> e.plane, p2 |-> np]
  BY EnteredEdge
<1>2. \A i \in 1 .. Len(J) : i \in OpenAt(K, np, v, w) <=> i \in OpenAt(J, np, v, w)
  BY <1>1 DEF OpenAt
<1>3. Len(J) + 1 \in OpenAt(K, np, v, w) <=> e.v1 = v /\ e.v2 = w
  BY <1>1 DEF OpenAt
<1>4. OpenAt(J, np, v, w) \subseteq 1 .. Len(J) /\ OpenAt(K, np, v, w) \subseteq 1 .. Len(J) + 1
  BY <1>1 DEF OpenAt
<1>5. OpenAt(K, np, v, w) =
        OpenAt(J, np, v, w) \cup (IF e.v1 = v /\ e.v2 = w THEN {Len(J) + 1} ELSE {})
  <2>1. \A i \in 1 .. Len(J) + 1 : i \in 1 .. Len(J) \/ i = Len(J) + 1
    BY <1>1
  <2> QED
    BY <1>1, <1>2, <1>3, <1>4, <2>1
<1>6. HowMany(OpenAt(K, np, v, w), Len(J) + 1)
        = HowMany(OpenAt(K, np, v, w), Len(J)) + Bit(Len(J) + 1 \in OpenAt(K, np, v, w))
  BY <1>1, HowManyNext
<1>7. HowMany(OpenAt(K, np, v, w), Len(J)) = HowMany(OpenAt(J, np, v, w), Len(J))
  BY <1>1, <1>2, HowManySame
<1> QED
  BY <1>1, <1>3, <1>5, <1>6, <1>7 DEF NumOpen, Bit

\* Whatever becomes of an edge, the entered ones stay matched, as long as there is room.
LEMMA MatchingGoesOn ==
  ASSUME NEW V, NEW np \in Nat, NEW es \in Seq(DirectedEdge(V, np)),
         NEW n \in Nat, n < Len(es),
         NEW J, GoodEdges(V, np, J), OpenOneWay(V, np, J), EdgesMatched(V, np, es, n, J),
         NEW K, K = DefineEdge(J, es[n + 1], np)
  PROVE  OpenOneWay(V, np, K) /\ EdgesMatched(V, np, es, n + 1, K)
<1>1. PICK e : e = es[n + 1]
  OBVIOUS
<1>2. e \in DirectedEdge(V, np)
  BY <1>1
<1>3. J \in Seq(SilEdge(V, np)) /\ Len(J) \in Nat
  BY DEF GoodEdges
<1>4. Drops(J, e, K) \/ Joins(J, e, np, K) \/ Enters(J, e, np, K)
  BY <1>1, <1>2, <1>3, EdgeIsDefined
<1>5. ASSUME NEW v, NEW w
      PROVE  /\ HowMany(Running(es, v, w), n + 1)
                  = HowMany(Running(es, v, w), n) + Bit(e.v1 = v /\ e.v2 = w)
             /\ HowMany(Running(es, v, w), n) \in Nat
  <2>1. HowMany(Running(es, v, w), n + 1)
          = HowMany(Running(es, v, w), n) + Bit(es[n + 1].v1 = v /\ es[n + 1].v2 = w)
    BY OneMoreRuns
  <2> QED
    BY <1>1, <2>1, HowManyType
<1>6. \A v, w : NumOpen(J, np, v, w) \in Nat
  BY <1>3, HowManyType DEF NumOpen
<1>7. CASE Drops(J, e, K)
  <2>1. K = J
    BY <1>7 DEF Drops
  <2>2. ASSUME Len(K) < MaxSilEdges, NEW v \in V, NEW w \in V, v # w
        PROVE  Balance(np, es, n + 1, K, v, w)
    <3>1. e.v1 = e.v2
      BY <1>3, <1>7, <2>1, <2>2 DEF Drops
    <3>2. Balance(np, es, n, J, v, w)
      BY <2>1, <2>2 DEF EdgesMatched
    <3>3. HowMany(Running(es, v, w), n + 1) = HowMany(Running(es, v, w), n)
      BY <1>5, <2>2, <3>1 DEF Bit
    <3>4. HowMany(Running(es, w, v), n + 1) = HowMany(Running(es, w, v), n)
      BY <1>5, <2>2, <3>1 DEF Bit
    <3> QED
      BY <2>1, <3>2, <3>3, <3>4 DEF Balance
  <2> QED
    BY <2>1, <2>2 DEF EdgesMatched
<1>8. CASE Joins(J, e, np, K)
  <2>1. PICK m : JoinsAt(J, e, np, m, K)
    BY <1>8 DEF Joins
  <2>2. ASSUME NEW v, NEW w
        PROVE  /\ OpenAt(K, np, v, w) \subseteq OpenAt(J, np, v, w)
               /\ NumOpen(K, np, v, w) = NumOpen(J, np, v, w) - Bit(e.v1 = w /\ e.v2 = v)
    BY <1>2, <2>1, OneLessOpen
  <2>3. Len(K) = Len(J)
    BY <1>2, <2>1, JoinedEdge
  <2>4. ASSUME Len(K) < MaxSilEdges, NEW v \in V, NEW w \in V, v # w
        PROVE  Balance(np, es, n + 1, K, v, w)
    <3>1. Balance(np, es, n, J, v, w)
      BY <2>3, <2>4 DEF EdgesMatched
    <3>2. /\ HowMany(Running(es, v, w), n + 1)
               = HowMany(Running(es, v, w), n) + Bit(e.v1 = v /\ e.v2 = w)
          /\ HowMany(Running(es, v, w), n) \in Nat
      BY <1>5
    <3>3. /\ HowMany(Running(es, w, v), n + 1)
               = HowMany(Running(es, w, v), n) + Bit(e.v1 = w /\ e.v2 = v)
          /\ HowMany(Running(es, w, v), n) \in Nat
      BY <1>5
    <3>4. NumOpen(K, np, v, w) = NumOpen(J, np, v, w) - Bit(e.v1 = w /\ e.v2 = v)
      BY <2>2
    <3>5. NumOpen(K, np, w, v) = NumOpen(J, np, w, v) - Bit(e.v1 = v /\ e.v2 = w)
      BY <2>2
    <3> QED
      BY <1>6, <3>1, <3>2, <3>3, <3>4, <3>5 DEF Balance, Bit
  <2>5. OpenOneWay(V, np, K)
    BY <2>2 DEF OpenOneWay
  <2> QED
    BY <2>4, <2>5 DEF EdgesMatched
<1>9. CASE Enters(J, e, np, K)
  <2>1. \A v, w :
          /\ OpenAt(K, np, v, w) =
               OpenAt(J, np, v, w) \cup (IF e.v1 = v /\ e.v2 = w THEN {Len(J) + 1} ELSE {})
          /\ NumOpen(K, np, v, w) = NumOpen(J, np, v, w) + Bit(e.v1 = v /\ e.v2 = w)
    BY <1>2, <1>9, OneMoreOpen
  <2>2. Len(K) = Len(J) + 1
    <3>1. /\ Len(J) \in Nat /\ Len(K) = Len(J) + 1
          /\ DOMAIN J = 1 .. Len(J) /\ DOMAIN K = 1 .. Len(J) + 1
          /\ \A i \in 1 .. Len(J) : K[i] = J[i]
          /\ K[Len(J) + 1] = [v1 |-> e.v1, v2 |-> e.v2, p1 |-> e.plane, p2 |-> np]
          /\ e.plane # np /\ e.plane \in 1 .. np - 1
      BY <1>2, <1>9, EnteredEdge
    <3> QED
      BY <3>1
  <2>3. ASSUME Len(K) < MaxSilEdges, NEW v \in V, NEW w \in V, v # w
        PROVE  Balance(np, es, n + 1, K, v, w)
    <3>1. Len(J) < MaxSilEdges
      BY <1>3, <2>2, <2>3, MaxSilEdgesAssumption
    <3>2. Balance(np, es, n, J, v, w)
      BY <2>3, <3>1 DEF EdgesMatched
    <3>3. /\ HowMany(Running(es, v, w), n + 1)
               = HowMany(Running(es, v, w), n) + Bit(e.v1 = v /\ e.v2 = w)
          /\ HowMany(Running(es, v, w), n) \in Nat
      BY <1>5
    <3>4. /\ HowMany(Running(es, w, v), n + 1)
               = HowMany(Running(es, w, v), n) + Bit(e.v1 = w /\ e.v2 = v)
          /\ HowMany(Running(es, w, v), n) \in Nat
      BY <1>5
    <3>5. NumOpen(K, np, v, w) = NumOpen(J, np, v, w) + Bit(e.v1 = v /\ e.v2 = w)
      BY <2>1
    <3>6. NumOpen(K, np, w, v) = NumOpen(J, np, w, v) + Bit(e.v1 = w /\ e.v2 = v)
      BY <2>1
    <3> QED
      BY <1>6, <3>2, <3>3, <3>4, <3>5, <3>6 DEF Balance, Bit
  <2>4. e.v1 # e.v2 /\ OpenAt(J, np, e.v2, e.v1) = {}
    BY <1>9 DEF Enters, OpenAt
  <2>5. ASSUME NEW v \in V, NEW w \in V
        PROVE  OpenAt(K, np, v, w) = {} \/ OpenAt(K, np, w, v) = {}
    <3>1. OpenAt(J, np, v, w) = {} \/ OpenAt(J, np, w, v) = {}
      BY DEF OpenOneWay
    <3> QED
      BY <2>1, <2>4, <3>1
  <2> QED
    BY <2>3, <2>5 DEF EdgesMatched, OpenOneWay
<1> QED
  BY <1>4, <1>7, <1>8, <1>9

\* For a way every triangle may face, and some pairs of vertices: the entered edges
\* between these that have differing sides, and the edges between these of triangles that
\* do not face.  Of both together there is an even number.
SilAt(J, f, E) == {i \in DOMAIN J : {J[i].v1, J[i].v2} \in E /\ f[J[i].p1] # f[J[i].p2]}
LitAt(es, f, E) == {k \in DOMAIN es : {es[k].v1, es[k].v2} \in E /\ ~f[es[k].plane]}
FacingOf(np, f) == f \in [1 .. np -> BOOLEAN] /\ f[np] = TRUE
EvenTogether(es, f, E, n, J) ==
  Len(J) < MaxSilEdges =>
    (HowMany(SilAt(J, f, E), Len(J)) + HowMany(LitAt(es, f, E), n)) % 2 = 0

\* Whatever becomes of an edge, the number stays even, as long as there is room.
LEMMA EvenGoesOn ==
  ASSUME NEW V, NEW np \in Nat, NEW es \in Seq(DirectedEdge(V, np)),
         NEW n \in Nat, n < Len(es),
         NEW f, FacingOf(np, f), NEW E, \A v : {v} \notin E,
         NEW J, GoodEdges(V, np, J), EvenTogether(es, f, E, n, J),
         NEW K, K = DefineEdge(J, es[n + 1], np)
  PROVE  EvenTogether(es, f, E, n + 1, K)
<1>1. PICK e : e = es[n + 1]
  OBVIOUS
<1>2. e \in DirectedEdge(V, np) /\ n + 1 \in DOMAIN es
  BY <1>1
<1>3. J \in Seq(SilEdge(V, np)) /\ Len(J) \in Nat /\ DOMAIN J = 1 .. Len(J)
  BY DEF GoodEdges
<1>4. Drops(J, e, K) \/ Joins(J, e, np, K) \/ Enters(J, e, np, K)
  BY <1>1, <1>2, <1>3, EdgeIsDefined
<1>5. e.plane \in 1 .. np /\ np \in 1 .. np
  BY <1>2 DEF DirectedEdge
<1>6. f[e.plane] \in BOOLEAN /\ f[np] = TRUE
  BY <1>5 DEF FacingOf
<1>7. HowMany(LitAt(es, f, E), n + 1)
        = HowMany(LitAt(es, f, E), n) + Bit({e.v1, e.v2} \in E /\ ~f[e.plane])
  <2>1. HowMany(LitAt(es, f, E), n + 1)
          = HowMany(LitAt(es, f, E), n) + Bit(n + 1 \in LitAt(es, f, E))
    BY HowManyNext
  <2>2. n + 1 \in LitAt(es, f, E) <=> {e.v1, e.v2} \in E /\ ~f[e.plane]
    BY <1>1, <1>2 DEF LitAt
  <2> QED
    BY <2>1, <2>2 DEF Bit
<1>8. HowMany(LitAt(es, f, E), n) \in Nat /\ HowMany(SilAt(J, f, E), Len(J)) \in Nat
  BY <1>3, HowManyType
<1>9. CASE Drops(J, e, K)
  <2>1. K = J
    BY <1>9 DEF Drops
  <2>2. Len(K) < MaxSilEdges => {e.v1, e.v2} \notin E
    <3>1. SUFFICES ASSUME Len(K) < MaxSilEdges PROVE {e.v1, e.v2} \notin E
      OBVIOUS
    <3>2. e.v1 = e.v2
      BY <1>3, <1>9, <2>1, <3>1 DEF Drops
    <3>3. {e.v1, e.v2} = {e.v1}
      BY <3>2
    <3> QED
      BY <3>3
  <2> QED
    BY <1>7, <1>8, <2>1, <2>2 DEF EvenTogether, Bit
<1>10. CASE Joins(J, e, np, K)
  <2>1. PICK m : JoinsAt(J, e, np, m, K)
    BY <1>10 DEF Joins
  <2>2. /\ Len(K) = Len(J) /\ DOMAIN K = DOMAIN J
        /\ K[m].v1 = J[m].v1 /\ K[m].v2 = J[m].v2 /\ K[m].p1 = J[m].p1 /\ K[m].p2 = e.plane
        /\ \A i \in DOMAIN J : i # m => K[i] = J[i]
    BY <1>2, <2>1, JoinedEdge
  <2>3. m \in 1 .. Len(J) /\ J[m] \in SilEdge(V, np) /\ {J[m].v1, J[m].v2} = {e.v1, e.v2}
        /\ J[m].p2 = np
    BY <1>3, <2>1 DEF JoinsAt
  <2>4. J[m].p1 \in 1 .. np
    BY <2>3 DEF SilEdge
  <2>5. f[J[m].p1] \in BOOLEAN
    BY <2>4 DEF FacingOf
  <2>6. \A i \in 1 .. Len(J) : i # m => (i \in SilAt(J, f, E) <=> i \in SilAt(K, f, E))
    BY <1>3, <2>2 DEF SilAt
  <2>7. m \in SilAt(J, f, E) <=> {e.v1, e.v2} \in E /\ f[J[m].p1] # TRUE
    BY <1>3, <1>6, <2>3 DEF SilAt
  <2>8. m \in SilAt(K, f, E) <=> {e.v1, e.v2} \in E /\ f[J[m].p1] # f[e.plane]
    BY <1>3, <2>2, <2>3 DEF SilAt
  <2>9. HowMany(SilAt(K, f, E), Len(J)) - Bit(m \in SilAt(K, f, E))
          = HowMany(SilAt(J, f, E), Len(J)) - Bit(m \in SilAt(J, f, E))
    <3>1. PICK S, R, N : S = SilAt(J, f, E) /\ R = SilAt(K, f, E) /\ N = Len(J)
      OBVIOUS
    <3>2. N \in Nat /\ m \in 1 .. N /\ \A i \in 1 .. N : i # m => (i \in S <=> i \in R)
      BY <1>3, <2>3, <2>6, <3>1
    <3>3. HowMany(R, N) - Bit(m \in R) = HowMany(S, N) - Bit(m \in S)
      BY <3>2, HowManyJoined
    <3> QED
      BY <3>1, <3>3
  <2>10. HowMany(SilAt(K, f, E), Len(J)) \in Nat
    BY <1>3, HowManyType
  <2>11. PICK a, b, c, d : /\ a = HowMany(SilAt(K, f, E), Len(J))
                           /\ b = HowMany(SilAt(J, f, E), Len(J))
                           /\ c = HowMany(LitAt(es, f, E), n)
                           /\ d = HowMany(LitAt(es, f, E), n + 1)
    OBVIOUS
  <2>12. a - Bit(m \in SilAt(K, f, E)) = b - Bit(m \in SilAt(J, f, E))
    BY <2>9, <2>11
  <2>13. d = c + Bit({e.v1, e.v2} \in E /\ ~f[e.plane])
    BY <1>7, <2>11
  <2>14. a \in Nat /\ b \in Nat /\ c \in Nat
    BY <1>8, <2>10, <2>11
  <2>15. \/ a + d = b + c \/ a + d = b + c + 2
    <3>1. CASE {e.v1, e.v2} \notin E
      <4>1. m \notin SilAt(J, f, E)
        BY <2>5, <2>7, <3>1
      <4>2. m \notin SilAt(K, f, E)
        BY <2>5, <2>8, <3>1
      <4>3. Bit({e.v1, e.v2} \in E /\ ~f[e.plane]) = 0
        BY <3>1 DEF Bit
      <4>4. Bit(m \in SilAt(J, f, E)) = 0 /\ Bit(m \in SilAt(K, f, E)) = 0
        BY <4>1, <4>2 DEF Bit
      <4> QED
        BY <2>12, <2>13, <2>14, <4>3, <4>4
    <3>2. CASE {e.v1, e.v2} \in E /\ f[e.plane] = TRUE /\ f[J[m].p1] = TRUE
      <4>1. m \notin SilAt(J, f, E)
        BY <2>5, <2>7, <3>2
      <4>2. m \notin SilAt(K, f, E)
        BY <2>5, <2>8, <3>2
      <4>3. Bit({e.v1, e.v2} \in E /\ ~f[e.plane]) = 0
        BY <3>2 DEF Bit
      <4>4. Bit(m \in SilAt(J, f, E)) = 0 /\ Bit(m \in SilAt(K, f, E)) = 0
        BY <4>1, <4>2 DEF Bit
      <4> QED
        BY <2>12, <2>13, <2>14, <4>3, <4>4
    <3>3. CASE {e.v1, e.v2} \in E /\ f[e.plane] = TRUE /\ f[J[m].p1] = FALSE
      <4>1. m \in SilAt(J, f, E)
        BY <2>5, <2>7, <3>3
      <4>2. m \in SilAt(K, f, E)
        BY <2>5, <2>8, <3>3
      <4>3. Bit({e.v1, e.v2} \in E /\ ~f[e.plane]) = 0
        BY <3>3 DEF Bit
      <4>4. Bit(m \in SilAt(J, f, E)) = 1 /\ Bit(m \in SilAt(K, f, E)) = 1
        BY <4>1, <4>2 DEF Bit
      <4> QED
        BY <2>12, <2>13, <2>14, <4>3, <4>4
    <3>4. CASE {e.v1, e.v2} \in E /\ f[e.plane] = FALSE /\ f[J[m].p1] = TRUE
      <4>1. m \notin SilAt(J, f, E)
        BY <2>5, <2>7, <3>4
      <4>2. m \in SilAt(K, f, E)
        BY <2>5, <2>8, <3>4
      <4>3. Bit({e.v1, e.v2} \in E /\ ~f[e.plane]) = 1
        BY <3>4 DEF Bit
      <4>4. Bit(m \in SilAt(J, f, E)) = 0 /\ Bit(m \in SilAt(K, f, E)) = 1
        BY <4>1, <4>2 DEF Bit
      <4>5. a - 1 = b - 0
        BY <2>12, <4>4
      <4>6. d = c + 1
        BY <2>13, <4>3
      <4> QED
        BY <2>14, <4>5, <4>6
    <3>5. CASE {e.v1, e.v2} \in E /\ f[e.plane] = FALSE /\ f[J[m].p1] = FALSE
      <4>1. m \in SilAt(J, f, E)
        BY <2>5, <2>7, <3>5
      <4>2. m \notin SilAt(K, f, E)
        BY <2>5, <2>8, <3>5
      <4>3. Bit({e.v1, e.v2} \in E /\ ~f[e.plane]) = 1
        BY <3>5 DEF Bit
      <4>4. Bit(m \in SilAt(J, f, E)) = 1 /\ Bit(m \in SilAt(K, f, E)) = 0
        BY <4>1, <4>2 DEF Bit
      <4> QED
        BY <2>12, <2>13, <2>14, <4>3, <4>4
    <3>6. \/ {e.v1, e.v2} \notin E
          \/ f[e.plane] = TRUE /\ f[J[m].p1] = TRUE
          \/ f[e.plane] = TRUE /\ f[J[m].p1] = FALSE
          \/ f[e.plane] = FALSE /\ f[J[m].p1] = TRUE
          \/ f[e.plane] = FALSE /\ f[J[m].p1] = FALSE
      BY <1>6, <2>5
    <3> QED
      BY <3>1, <3>2, <3>3, <3>4, <3>5, <3>6
  <2>16. (b + c) % 2 = 0 => (a + d) % 2 = 0
    BY <2>14, <2>15
  <2> QED
    BY <2>2, <2>11, <2>16 DEF EvenTogether
<1>11. CASE Enters(J, e, np, K)
  <2>1. /\ Len(K) = Len(J) + 1 /\ DOMAIN K = 1 .. Len(J) + 1
        /\ \A i \in 1 .. Len(J) : K[i] = J[i]
        /\ K[Len(J) + 1] = [v1 |-> e.v1, v2 |-> e.v2, p1 |-> e.plane, p2 |-> np]
    BY <1>2, <1>11, EnteredEdge
  <2>2. ASSUME NEW i \in 1 .. Len(J)
        PROVE  i \in SilAt(K, f, E) <=> i \in SilAt(J, f, E)
    <3>1. i \in DOMAIN J /\ i \in DOMAIN K /\ K[i] = J[i]
      BY <1>3, <2>1
    <3> QED
      BY <3>1 DEF SilAt
  <2>3. Len(J) + 1 \in SilAt(K, f, E) <=> {e.v1, e.v2} \in E /\ ~f[e.plane]
    <3>1. PICK k : k = Len(J) + 1
      OBVIOUS
    <3>2. k \in DOMAIN K
      BY <1>3, <2>1, <3>1
    <3>3. K[k].v1 = e.v1 /\ K[k].v2 = e.v2 /\ K[k].p1 = e.plane /\ K[k].p2 = np
      BY <2>1, <3>1
    <3>4. k \in SilAt(K, f, E) <=> {e.v1, e.v2} \in E /\ f[e.plane] # f[np]
      BY <3>2, <3>3 DEF SilAt
    <3>5. f[e.plane] # f[np] <=> ~f[e.plane]
      BY <1>6
    <3> QED
      BY <3>1, <3>4, <3>5
  <2>4. HowMany(SilAt(K, f, E), Len(J) + 1)
          = HowMany(SilAt(K, f, E), Len(J)) + Bit(Len(J) + 1 \in SilAt(K, f, E))
    BY <1>3, HowManyNext
  <2>5. HowMany(SilAt(K, f, E), Len(J)) = HowMany(SilAt(J, f, E), Len(J))
    BY <1>3, <2>2, HowManySame
  <2>6. Len(K) < MaxSilEdges => Len(J) < MaxSilEdges
    BY <1>3, <2>1, MaxSilEdgesAssumption
  <2> QED
    BY <1>7, <1>8, <2>1, <2>3, <2>4, <2>5, <2>6 DEF EvenTogether, Bit
<1> QED
  BY <1>4, <1>9, <1>10, <1>11

\* Every entered edge is one of the triangles on its sides.
CornersOf(tris, t) == {tris[t][1], tris[t][2], tris[t][3]}
OnTriangles(tris, np, J) ==
  \A i \in DOMAIN J :
    /\ {J[i].v1, J[i].v2} \subseteq CornersOf(tris, J[i].p1)
    /\ J[i].p2 # np => {J[i].v1, J[i].v2} \subseteq CornersOf(tris, J[i].p2)

\* So it is when one more edge of a triangle comes.
LEMMA OnTrianglesStay ==
  ASSUME NEW V, NEW np \in Nat, NEW tris, NEW e \in DirectedEdge(V, np),
         {e.v1, e.v2} \subseteq CornersOf(tris, e.plane),
         NEW J, GoodEdges(V, np, J), OnTriangles(tris, np, J),
         NEW K, K = DefineEdge(J, e, np)
  PROVE  OnTriangles(tris, np, K)
<1>1. J \in Seq(SilEdge(V, np)) /\ Len(J) \in Nat /\ DOMAIN J = 1 .. Len(J)
  BY DEF GoodEdges
<1>2. Drops(J, e, K) \/ Joins(J, e, np, K) \/ Enters(J, e, np, K)
  BY <1>1, EdgeIsDefined
<1>3. CASE Drops(J, e, K)
  BY <1>3 DEF Drops
<1>4. CASE Joins(J, e, np, K)
  <2>1. PICK m : JoinsAt(J, e, np, m, K)
    BY <1>4 DEF Joins
  <2>2. /\ Len(K) = Len(J) /\ DOMAIN K = DOMAIN J
        /\ K[m].v1 = J[m].v1 /\ K[m].v2 = J[m].v2 /\ K[m].p1 = J[m].p1 /\ K[m].p2 = e.plane
        /\ \A i \in DOMAIN J : i # m => K[i] = J[i]
    BY <2>1, JoinedEdge
  <2>3. J[m].v1 = e.v2 /\ J[m].v2 = e.v1 /\ m \in DOMAIN J
    BY <2>1 DEF JoinsAt
  <2>4. {K[m].v1, K[m].v2} \subseteq CornersOf(tris, K[m].p1)
    BY <2>2, <2>3 DEF OnTriangles
  <2>5. {K[m].v1, K[m].v2} \subseteq CornersOf(tris, K[m].p2)
    BY <2>2, <2>3
  <2> QED
    BY <2>2, <2>4, <2>5 DEF OnTriangles
<1>5. CASE Enters(J, e, np, K)
  <2>1. /\ Len(K) = Len(J) + 1 /\ DOMAIN K = 1 .. Len(J) + 1
        /\ \A i \in 1 .. Len(J) : K[i] = J[i]
        /\ K[Len(J) + 1] = [v1 |-> e.v1, v2 |-> e.v2, p1 |-> e.plane, p2 |-> np]
    BY <1>5, EnteredEdge
  <2>2. \A i \in DOMAIN K : i \in DOMAIN J \/ i = Len(J) + 1
    BY <1>1, <2>1
  <2>3. PICK k : k = Len(J) + 1
    OBVIOUS
  <2>4. K[k].v1 = e.v1 /\ K[k].v2 = e.v2 /\ K[k].p1 = e.plane /\ K[k].p2 = np
    BY <2>1, <2>3
  <2>5. \A i \in DOMAIN J : K[i] = J[i]
    BY <1>1, <2>1
  <2> QED
    BY <2>2, <2>3, <2>4, <2>5 DEF OnTriangles
<1> QED
  BY <1>2, <1>3, <1>4, <1>5

\* The edges of a surface, triangle by triangle.
LEMMA EdgesOfTriangles ==
  ASSUME NEW V, NEW tris \in Seq([1 .. 3 -> V])
  PROVE  /\ Len(tris) \in Nat /\ NoPlane(tris) = Len(tris) + 1
         /\ EdgesOf(tris) \in Seq(DirectedEdge(V, NoPlane(tris)))
         /\ Len(EdgesOf(tris)) = 3 * Len(tris)
         /\ \A n \in 1 .. 3 * Len(tris) :
              {EdgesOf(tris)[n].v1, EdgesOf(tris)[n].v2}
                \subseteq CornersOf(tris, EdgesOf(tris)[n].plane)
         /\ \A t \in 0 .. Len(tris) - 1 : \A c \in 1 .. 3 :
              EdgesOf(tris)[3 * t + c] = [v1 |-> tris[t + 1][c], v2 |-> tris[t + 1][Corner(c)],
                                          plane |-> t + 1]
<1>1. Len(tris) \in Nat /\ NoPlane(tris) = Len(tris) + 1 /\ DOMAIN tris = 1 .. Len(tris)
  BY DEF NoPlane
<1>2. PICK L : L = Len(tris)
  OBVIOUS
<1>3. L \in Nat /\ NoPlane(tris) - 1 = L /\ DOMAIN tris = 1 .. L
  BY <1>1, <1>2
<1> DEFINE t(n) == (n + 2) \div 3
           c(n) == ((n - 1) % 3) + 1
           e(n) == [v1 |-> tris[t(n)][c(n)], v2 |-> tris[t(n)][Corner(c(n))], plane |-> t(n)]
<1>4. EdgesOf(tris) = [n \in 1 .. 3 * L |-> e(n)]
  BY <1>2 DEF EdgesOf
<1>5. ASSUME NEW n \in 1 .. 3 * L
      PROVE  t(n) \in 1 .. L /\ c(n) \in 1 .. 3
  BY <1>3
<1>6. \A k \in 1 .. 3 : Corner(k) \in 1 .. 3
  BY DEF Corner
<1>7. \A k \in 1 .. L : tris[k] \in [1 .. 3 -> V]
  BY <1>3
<1>8. ASSUME NEW n \in 1 .. 3 * L
      PROVE  /\ e(n) \in DirectedEdge(V, NoPlane(tris))
             /\ {e(n).v1, e(n).v2} \subseteq CornersOf(tris, e(n).plane)
  <2>1. t(n) \in 1 .. L /\ c(n) \in 1 .. 3 /\ Corner(c(n)) \in 1 .. 3
    BY <1>5, <1>6
  <2>2. tris[t(n)] \in [1 .. 3 -> V]
    BY <1>7, <2>1
  <2> HIDE DEF t, c
  <2>3. tris[t(n)][c(n)] \in V /\ tris[t(n)][Corner(c(n))] \in V
    BY <2>1, <2>2
  <2>4. e(n) \in DirectedEdge(V, NoPlane(tris))
    BY <1>3, <2>1, <2>3 DEF DirectedEdge
  <2>5. \A k \in 1 .. 3 : tris[t(n)][k] \in CornersOf(tris, t(n))
    BY DEF CornersOf
  <2> QED
    BY <2>1, <2>4, <2>5
<1>9. 3 * L \in Nat
  BY <1>3
<1>10. EdgesOf(tris) \in Seq(DirectedEdge(V, NoPlane(tris))) /\ Len(EdgesOf(tris)) = 3 * L
  <2> HIDE DEF e
  <2> QED
    BY <1>4, <1>8, <1>9
<1>11. ASSUME NEW k \in 0 .. L - 1, NEW d \in 1 .. 3
       PROVE  EdgesOf(tris)[3 * k + d] = [v1 |-> tris[k + 1][d], v2 |-> tris[k + 1][Corner(d)],
                                          plane |-> k + 1]
  <2>1. 3 * k + d \in 1 .. 3 * L
    BY <1>3
  <2>2. t(3 * k + d) = k + 1 /\ c(3 * k + d) = d
    BY <1>3
  <2> QED
    BY <1>4, <2>1, <2>2
<1>12. \A n \in 1 .. 3 * L : EdgesOf(tris)[n] = e(n)
  BY <1>4
<1>13. \A n \in 1 .. 3 * L : {EdgesOf(tris)[n].v1, EdgesOf(tris)[n].v2}
                \subseteq CornersOf(tris, EdgesOf(tris)[n].plane)
  <2> HIDE DEF e
  <2> QED
    BY <1>8, <1>12
<1> QED
  BY <1>1, <1>2, <1>10, <1>11, <1>13

\* What the loop of R_IdentifySilEdges comes to.
LEMMA EnteredEdges ==
  ASSUME NEW V, NEW tris \in Seq([1 .. 3 -> V]), NEW np, np = NoPlane(tris),
         NEW es, es = EdgesOf(tris), NEW J, J = Entered(tris)
  PROVE  /\ GoodEdges(V, np, J) /\ OnTriangles(tris, np, J)
         /\ OpenOneWay(V, np, J) /\ EdgesMatched(V, np, es, Len(es), J)
         /\ \A f, E : FacingOf(np, f) /\ (\A v : {v} \notin E) => EvenTogether(es, f, E, Len(es), J)
<1>1. /\ np \in Nat /\ es \in Seq(DirectedEdge(V, np)) /\ Len(es) \in Nat
      /\ \A n \in 1 .. Len(es) : {es[n].v1, es[n].v2} \subseteq CornersOf(tris, es[n].plane)
  <2>1. /\ Len(tris) \in Nat /\ NoPlane(tris) = Len(tris) + 1
        /\ EdgesOf(tris) \in Seq(DirectedEdge(V, NoPlane(tris)))
        /\ Len(EdgesOf(tris)) = 3 * Len(tris)
        /\ \A n \in 1 .. 3 * Len(tris) :
             {EdgesOf(tris)[n].v1, EdgesOf(tris)[n].v2}
               \subseteq CornersOf(tris, EdgesOf(tris)[n].plane)
    BY EdgesOfTriangles
  <2> QED
    BY <2>1
<1>2. PICK g : /\ g = [n \in 0 .. Len(es) |-> IF n = 0 THEN <<>>
                         ELSE DefineEdge(g[n - 1], es[n], np)]
               /\ J = g[Len(es)]
  BY <1>1, EnteredIsMade
<1> DEFINE Holds(n) ==
      /\ GoodEdges(V, np, g[n]) /\ OnTriangles(tris, np, g[n])
      /\ OpenOneWay(V, np, g[n]) /\ EdgesMatched(V, np, es, n, g[n])
      /\ \A f, E : FacingOf(np, f) /\ (\A v : {v} \notin E) => EvenTogether(es, f, E, n, g[n])
<1>3. Holds(0)
  <2>1. g[0] = <<>>
    BY <1>1, <1>2
  <2>2. GoodEdges(V, np, <<>>) /\ OnTriangles(tris, np, <<>>)
    BY DEF GoodEdges, OnTriangles
  <2>3. \A v, w : OpenAt(<<>>, np, v, w) = {}
    BY DEF OpenAt
  <2>4. OpenOneWay(V, np, <<>>)
    BY <2>3 DEF OpenOneWay
  <2>5. Len(<<>>) = 0 /\ \A S : HowMany(S, 0) = 0
    BY HowManyNone
  <2>6. EdgesMatched(V, np, es, 0, <<>>)
    BY <2>5 DEF EdgesMatched, Balance, NumOpen
  <2>7. \A f, E : EvenTogether(es, f, E, 0, <<>>)
    BY <2>5 DEF EvenTogether
  <2> QED
    BY <2>1, <2>2, <2>4, <2>6, <2>7
<1>4. ASSUME NEW n \in 0 .. Len(es), Holds(n), n < Len(es)
      PROVE  Holds(n + 1)
  <2>1. n \in Nat /\ n + 1 \in 1 .. Len(es) /\ (n + 1) - 1 = n /\ n + 1 # 0
    BY <1>1, <1>4
  <2>2. g[n + 1] = DefineEdge(g[n], es[n + 1], np)
    BY <1>1, <1>2, <2>1
  <2>3. PICK L, K : L = g[n] /\ K = g[n + 1]
    OBVIOUS
  <2>4. es[n + 1] \in DirectedEdge(V, np)
    BY <1>1, <2>1
  <2>5. GoodEdges(V, np, L) /\ OnTriangles(tris, np, L)
        /\ OpenOneWay(V, np, L) /\ EdgesMatched(V, np, es, n, L)
    BY <1>4, <2>3
  <2>6. K = DefineEdge(L, es[n + 1], np)
    BY <2>2, <2>3
  <2>7. GoodEdges(V, np, K)
    BY <1>1, <2>4, <2>5, <2>6, GoodEdgesStay
  <2>8. OnTriangles(tris, np, K)
    BY <1>1, <2>1, <2>4, <2>5, <2>6, OnTrianglesStay
  <2>9. OpenOneWay(V, np, K) /\ EdgesMatched(V, np, es, n + 1, K)
    BY <1>1, <1>4, <2>1, <2>5, <2>6, MatchingGoesOn
  <2>10. ASSUME NEW f, NEW E, FacingOf(np, f), \A v : {v} \notin E
         PROVE  EvenTogether(es, f, E, n + 1, K)
    <3>1. EvenTogether(es, f, E, n, L)
      BY <1>4, <2>3, <2>10
    <3> QED
      BY <1>1, <1>4, <2>1, <2>5, <2>6, <2>10, <3>1, EvenGoesOn
  <2> QED
    BY <2>3, <2>7, <2>8, <2>9, <2>10
<1>5. PICK T : T = {n \in 0 .. Len(es) : Holds(n)}
  OBVIOUS
<1>6. 0 \in T
  <2>1. 0 \in 0 .. Len(es)
    BY <1>1
  <2> HIDE DEF Holds
  <2> QED
    BY <1>3, <1>5, <2>1
<1>7. \A n \in 0 .. Len(es) : n \in T /\ n < Len(es) => n + 1 \in T
  <2> HIDE DEF Holds
  <2>1. ASSUME NEW n \in 0 .. Len(es), n \in T, n < Len(es)
        PROVE  n + 1 \in T
    <3>1. Holds(n)
      BY <1>5, <2>1
    <3>2. Holds(n + 1)
      BY <1>4, <2>1, <3>1
    <3>3. n + 1 \in 0 .. Len(es)
      BY <1>1, <2>1
    <3> QED
      BY <1>5, <3>2, <3>3
  <2> QED
    BY <2>1
<1>8. Len(es) \in T
  <2>1. PICK N : N = Len(es)
    OBVIOUS
  <2>2. \A n \in 0 .. N : n \in T
    BY <1>1, <1>6, <1>7, <2>1, UpTo
  <2> QED
    BY <1>1, <2>1, <2>2
<1>9. Holds(Len(es))
  <2> HIDE DEF Holds
  <2> QED
    BY <1>5, <1>8
<1> QED
  BY <1>2, <1>9

------------------------------------------------------------------------------
(* Sorting them.                                                           *)

\* Sorted takes every edge to a place of its own.
Reordered(J, K, pi) ==
  /\ pi \in Bijection(1 .. Len(J), 1 .. Len(J))
  /\ Len(K) = Len(J)
  /\ \A k \in 1 .. Len(J) : K[k] = J[pi[k]]

LEMMA SortedReorders ==
  ASSUME NEW V, NEW np \in Nat, NEW J \in Seq(SilEdge(V, np))
  PROVE  /\ Sorted(J) \in Seq(SilEdge(V, np))
         /\ \E pi : Reordered(J, Sorted(J), pi)
<1>1. PICK N : N = Len(J)
  OBVIOUS
<1>2. N \in Nat /\ DOMAIN J = 1 .. N
  BY <1>1
<1>3. \A i \in 1 .. N : J[i].p1 \in Int /\ J[i].p2 \in Int
  <2>1. \A i \in 1 .. N : J[i] \in SilEdge(V, np)
    BY <1>2
  <2> QED
    BY <2>1 DEF SilEdge
<1> DEFINE before(i, j) == \/ SilEdgeSort(J[i], J[j])
                           \/ ~SilEdgeSort(J[j], J[i]) /\ i < j
           first(i) == {j \in 1 .. N : before(j, i)}
<1>4. \A i, j, k \in 1 .. N : before(i, j) /\ before(j, k) => before(i, k)
  <2>1. TAKE i, j, k \in 1 .. N
  <2>2. PICK a1 \in Int, a2 \in Int : a1 = J[i].p1 /\ a2 = J[i].p2
    BY <1>3
  <2>3. PICK b1 \in Int, b2 \in Int : b1 = J[j].p1 /\ b2 = J[j].p2
    BY <1>3
  <2>4. PICK c1 \in Int, c2 \in Int : c1 = J[k].p1 /\ c2 = J[k].p2
    BY <1>3
  <2>5. i \in Int /\ j \in Int /\ k \in Int
    OBVIOUS
  <2>6. before(i, j) <=> (a1 < b1 \/ (a1 = b1 /\ a2 < b2)) \/ (~(b1 < a1 \/ (b1 = a1 /\ b2 < a2)) /\ i < j)
    BY <2>2, <2>3 DEF SilEdgeSort
  <2>7. before(j, k) <=> (b1 < c1 \/ (b1 = c1 /\ b2 < c2)) \/ (~(c1 < b1 \/ (c1 = b1 /\ c2 < b2)) /\ j < k)
    BY <2>3, <2>4 DEF SilEdgeSort
  <2>8. before(i, k) <=> (a1 < c1 \/ (a1 = c1 /\ a2 < c2)) \/ (~(c1 < a1 \/ (c1 = a1 /\ c2 < a2)) /\ i < k)
    BY <2>2, <2>4 DEF SilEdgeSort
  <2> HIDE DEF before
  <2> QED
    BY <2>5, <2>6, <2>7, <2>8
<1>5. \A i \in 1 .. N : ~before(i, i)
  BY <1>3 DEF SilEdgeSort
<1>6. \A i, j \in 1 .. N : i # j => before(i, j) \/ before(j, i)
  BY <1>3 DEF SilEdgeSort
<1>7. PICK place : place = [i \in 1 .. N |-> Cardinality(first(i)) + 1]
  OBVIOUS
<1>8. Sorted(J) = [k \in 1 .. N |-> J[CHOOSE i \in 1 .. N : place[i] = k]]
  BY <1>2, <1>7 DEF Sorted
<1> HIDE DEF before
<1>9. IsFiniteSet(1 .. N) /\ Cardinality(1 .. N) = N
  BY <1>2, FS_Interval
<1>10. ASSUME NEW i \in 1 .. N
       PROVE  IsFiniteSet(first(i)) /\ Cardinality(first(i)) \in Nat /\ place[i] \in 1 .. N
  <2>1. first(i) \subseteq (1 .. N) \ {i}
    BY <1>5
  <2>2. IsFiniteSet((1 .. N) \ {i}) /\ Cardinality((1 .. N) \ {i}) = N - 1
    BY <1>9, FS_RemoveElement
  <2>3. IsFiniteSet(first(i)) /\ Cardinality(first(i)) <= N - 1
    BY <2>1, <2>2, FS_Subset
  <2>4. Cardinality(first(i)) \in Nat
    BY <2>3, FS_CardinalityType
  <2> QED
    BY <1>2, <1>7, <2>3, <2>4
<1>11. ASSUME NEW i \in 1 .. N, NEW j \in 1 .. N, before(i, j)
       PROVE  place[i] # place[j]
  <2>1. i \notin first(i) /\ i \in first(j)
    BY <1>5, <1>11
  <2>2. first(i) \cup {i} \subseteq first(j)
    BY <1>4, <1>11
  <2>3. Cardinality(first(i) \cup {i}) = Cardinality(first(i)) + 1
    BY <1>10, <2>1, FS_AddElement
  <2>4. Cardinality(first(i)) + 1 <= Cardinality(first(j))
    <3>1. IsFiniteSet(first(j))
      BY <1>10
    <3> QED
      BY <2>2, <2>3, <3>1, FS_Subset
  <2>5. Cardinality(first(i)) \in Nat /\ Cardinality(first(j)) \in Nat
    BY <1>10
  <2>6. place[i] = Cardinality(first(i)) + 1 /\ place[j] = Cardinality(first(j)) + 1
    BY <1>7
  <2> QED
    BY <2>4, <2>5, <2>6
<1>12. place \in Injection(1 .. N, 1 .. N)
  <2>1. place \in [1 .. N -> 1 .. N]
    BY <1>7, <1>10
  <2>2. ASSUME NEW i \in 1 .. N, NEW j \in 1 .. N, place[i] = place[j]
        PROVE  i = j
    BY <1>6, <1>11, <2>2
  <2> QED
    BY <2>1, <2>2 DEF Injection, IsInjective
<1>13. place \in Surjection(1 .. N, 1 .. N)
  BY <1>9, <1>12, FS_Injection
<1>14. PICK pi : pi = [k \in 1 .. N |-> CHOOSE i \in 1 .. N : place[i] = k]
  OBVIOUS
<1>15. \A k \in 1 .. N : pi[k] \in 1 .. N /\ place[pi[k]] = k
  BY <1>13, <1>14 DEF Surjection
<1>16. \A i \in 1 .. N : place[i] \in 1 .. N /\ pi[place[i]] = i
  BY <1>12, <1>15 DEF Injection, IsInjective
<1>17. pi \in Bijection(1 .. N, 1 .. N)
  <2>1. pi \in [1 .. N -> 1 .. N]
    BY <1>14, <1>15
  <2>2. \A k, l \in 1 .. N : pi[k] = pi[l] => k = l
    BY <1>15
  <2>3. \A i \in 1 .. N : \E k \in 1 .. N : pi[k] = i
    BY <1>16
  <2> QED
    BY <2>1, <2>2, <2>3 DEF Bijection, Injection, Surjection, IsInjective
<1>18. \A k \in 1 .. N : Sorted(J)[k] = J[pi[k]]
  BY <1>8, <1>14
<1>19. Sorted(J) \in Seq(SilEdge(V, np)) /\ Len(Sorted(J)) = N
  <2>1. \A k \in 1 .. N : J[CHOOSE i \in 1 .. N : place[i] = k] \in SilEdge(V, np)
    BY <1>2, <1>14, <1>15
  <2> QED
    BY <1>2, <1>8, <2>1
<1> QED
  BY <1>1, <1>17, <1>18, <1>19 DEF Reordered

\* Sorting leaves as many edges of a kind as there were.
LEMMA SortedHasAsMany ==
  ASSUME NEW V, NEW np \in Nat, NEW J \in Seq(SilEdge(V, np)), NEW f, NEW E
  PROVE  HowMany(SilAt(Sorted(J), f, E), Len(J)) = HowMany(SilAt(J, f, E), Len(J))
<1>1. PICK K, N : K = Sorted(J) /\ N = Len(J)
  OBVIOUS
<1>2. PICK pi : Reordered(J, K, pi)
  BY <1>1, SortedReorders
<1>3. N \in Nat /\ DOMAIN J = 1 .. N /\ DOMAIN K = 1 .. N
  <2>1. K \in Seq(SilEdge(V, np)) /\ Len(K) = N
    BY <1>1, <1>2, SortedReorders DEF Reordered
  <2> QED
    BY <1>1, <2>1
<1>4. pi \in Bijection(1 .. N, 1 .. N) /\ \A k \in 1 .. N : K[k] = J[pi[k]]
  BY <1>1, <1>2 DEF Reordered
<1>5. PICK A, B : A = SilAt(K, f, E) \cap (1 .. N) /\ B = SilAt(J, f, E) \cap (1 .. N)
  OBVIOUS
<1>6. \A k \in 1 .. N : pi[k] \in 1 .. N
  BY <1>4 DEF Bijection, Injection
<1>7. \A k \in 1 .. N : k \in A <=> pi[k] \in B
  BY <1>3, <1>4, <1>5, <1>6 DEF SilAt
<1>8. PICK rho : rho = [k \in A |-> pi[k]]
  OBVIOUS
<1>9. rho \in Bijection(A, B)
  <2>1. A \subseteq 1 .. N /\ B \subseteq 1 .. N
    BY <1>5
  <2>2. rho \in [A -> B]
    BY <1>7, <1>8, <2>1
  <2>3. \A i, j \in A : rho[i] = rho[j] => i = j
    BY <1>4, <1>8, <2>1 DEF Bijection, Injection, IsInjective
  <2>4. \A b \in B : \E k \in A : rho[k] = b
    <3> TAKE b \in B
    <3>1. PICK k \in 1 .. N : pi[k] = b
      BY <1>4, <2>1 DEF Bijection, Surjection
    <3> QED
      BY <1>7, <1>8, <3>1
  <2> QED
    BY <2>2, <2>3, <2>4 DEF Bijection, Injection, Surjection, IsInjective
<1>10. IsFiniteSet(A)
  BY <1>3, <1>5, HowManyType
<1>11. Cardinality(B) = Cardinality(A)
  BY <1>9, <1>10, FS_Bijection DEF ExistsBijection
<1> QED
  BY <1>1, <1>5, <1>11 DEF HowMany

------------------------------------------------------------------------------
(* Perfect hulls.                                                          *)

Vertices == DOMAIN PosOf

\* R_CreateSilIndice leads to vertices again.
LEMMA FirstVertices ==
  ASSUME NEW tris \in Seq([1 .. 3 -> Vertices])
  PROVE  /\ SilIndices(tris, PosOf) \in Seq([1 .. 3 -> Vertices])
         /\ Len(SilIndices(tris, PosOf)) = Len(tris)
<1> DEFINE first(v) == Min({w \in DOMAIN PosOf : PosOf[w] = PosOf[v]})
<1>1. Vertices \subseteq Nat
  BY PosOfAssumption DEF Vertices
<1>2. ASSUME NEW v \in Vertices
      PROVE  first(v) \in Vertices
  <2>1. PICK S : S = {w \in DOMAIN PosOf : PosOf[w] = PosOf[v]}
    OBVIOUS
  <2>2. v \in S /\ S \subseteq Nat /\ S \subseteq Vertices
    BY <1>1, <2>1 DEF Vertices
  <2>3. Min(S) \in S
    BY <2>2, LeastPlace
  <2> QED
    BY <2>1, <2>2, <2>3
<1>3. SilIndices(tris, PosOf) = [t \in DOMAIN tris |-> [c \in 1 .. 3 |-> first(tris[t][c])]]
  BY DEF SilIndices
<1>4. Len(tris) \in Nat /\ DOMAIN tris = 1 .. Len(tris)
  OBVIOUS
<1> HIDE DEF first
<1>5. ASSUME NEW t \in 1 .. Len(tris)
      PROVE  [c \in 1 .. 3 |-> first(tris[t][c])] \in [1 .. 3 -> Vertices]
  <2>1. \A c \in 1 .. 3 : tris[t][c] \in Vertices
    BY <1>4
  <2> QED
    BY <1>2, <2>1
<1> QED
  BY <1>3, <1>4, <1>5

\* The hull test finds an edge left open, wherever sorting took it.
LEMMA OpenIffNotPerfect ==
  ASSUME NEW tris \in Seq([1 .. 3 -> Vertices]), NEW J, J = Entered(tris)
  PROVE  PerfectHull(tris, SilEdgesOf(tris))
           <=> \A v, w \in Vertices : OpenAt(J, NoPlane(tris), v, w) = {}
<1>1. PICK np, K : np = NoPlane(tris) /\ K = Sorted(J)
  OBVIOUS
<1>2. np \in Nat
  <2>1. Len(tris) \in Nat /\ NoPlane(tris) = Len(tris) + 1
    BY DEF NoPlane
  <2> QED
    BY <1>1, <2>1
<1>3. J \in Seq(SilEdge(Vertices, np))
  BY <1>1, EnteredEdges DEF GoodEdges
<1>4. PICK pi : Reordered(J, K, pi)
  BY <1>1, <1>2, <1>3, SortedReorders
<1>5. K \in Seq(SilEdge(Vertices, np))
  BY <1>1, <1>2, <1>3, SortedReorders
<1>6. PICK N : N = Len(J)
  OBVIOUS
<1>7. N \in Nat /\ DOMAIN J = 1 .. N /\ DOMAIN K = 1 .. N
  BY <1>3, <1>4, <1>5, <1>6 DEF Reordered
<1>8. /\ \A k \in 1 .. N : pi[k] \in 1 .. N /\ K[k] = J[pi[k]]
      /\ \A i \in 1 .. N : \E k \in 1 .. N : pi[k] = i
  BY <1>4, <1>6 DEF Reordered, Bijection, Injection, Surjection
<1>9. PerfectHull(tris, K) <=> \A i \in 1 .. N : J[i].p2 # np
  <2>1. PerfectHull(tris, K) <=> \A k \in 1 .. N : K[k].p2 # np
    BY <1>1, <1>7 DEF PerfectHull
  <2>2. ASSUME \A k \in 1 .. N : K[k].p2 # np, NEW i \in 1 .. N
        PROVE  J[i].p2 # np
    <3>1. PICK k \in 1 .. N : pi[k] = i
      BY <1>8
    <3>2. K[k] = J[i]
      BY <1>8, <3>1
    <3> QED
      BY <2>2, <3>2
  <2>3. ASSUME \A i \in 1 .. N : J[i].p2 # np, NEW k \in 1 .. N
        PROVE  K[k].p2 # np
    <3>1. pi[k] \in 1 .. N /\ K[k] = J[pi[k]]
      BY <1>8
    <3>2. J[pi[k]].p2 # np
      BY <2>3, <3>1
    <3> QED
      BY <3>1, <3>2
  <2> QED
    BY <2>1, <2>2, <2>3
<1>10. \A i \in 1 .. N : J[i].v1 \in Vertices /\ J[i].v2 \in Vertices
  <2>1. \A i \in 1 .. N : J[i] \in SilEdge(Vertices, np)
    BY <1>3, <1>7
  <2> QED
    BY <2>1 DEF SilEdge
<1>11. (\A i \in 1 .. N : J[i].p2 # np)
         <=> \A v, w \in Vertices : OpenAt(J, np, v, w) = {}
  BY <1>7, <1>10 DEF OpenAt
<1> QED
  BY <1>1, <1>9, <1>11 DEF SilEdgesOf

\* The edges of a surface match exactly when no entered edge is left open.
LEMMA PerfectIffMatched ==
  ASSUME NEW tris \in Seq([1 .. 3 -> Vertices]), Len(SilEdgesOf(tris)) < MaxSilEdges
  PROVE  LET edges == EdgesOf(tris)
             count(v, w) == Cardinality({n \in DOMAIN edges : edges[n].v1 = v /\ edges[n].v2 = w})
         IN  PerfectHull(tris, SilEdgesOf(tris))
               <=> \A v, w \in Vertices : count(v, w) = count(w, v)
<1>1. PICK np, es, J : np = NoPlane(tris) /\ es = EdgesOf(tris) /\ J = Entered(tris)
  OBVIOUS
<1>2. np \in Nat /\ es \in Seq(DirectedEdge(Vertices, np)) /\ Len(es) \in Nat
      /\ DOMAIN es = 1 .. Len(es)
  <2>1. /\ Len(tris) \in Nat /\ NoPlane(tris) = Len(tris) + 1
        /\ EdgesOf(tris) \in Seq(DirectedEdge(Vertices, NoPlane(tris)))
    BY EdgesOfTriangles
  <2> QED
    BY <1>1, <2>1
<1>3. GoodEdges(Vertices, np, J) /\ OpenOneWay(Vertices, np, J)
      /\ EdgesMatched(Vertices, np, es, Len(es), J)
  BY <1>1, EnteredEdges
<1>4. J \in Seq(SilEdge(Vertices, np)) /\ Len(J) \in Nat
  BY <1>3 DEF GoodEdges
<1>5. Len(J) < MaxSilEdges
  <2>1. \E pi : Reordered(J, Sorted(J), pi)
    BY <1>2, <1>4, SortedReorders
  <2> QED
    BY <1>1, <2>1 DEF Reordered, SilEdgesOf
<1>6. ASSUME NEW v \in Vertices, NEW w \in Vertices
      PROVE  /\ HowMany(Running(es, v, w), Len(es)) \in Nat
             /\ NumOpen(J, np, v, w) \in Nat
             /\ NumOpen(J, np, v, w) = 0 <=> OpenAt(J, np, v, w) = {}
             /\ HowMany(Running(es, v, w), Len(es))
                  = Cardinality({n \in DOMAIN es : es[n].v1 = v /\ es[n].v2 = w})
  <2>1. HowMany(Running(es, v, w), Len(es)) \in Nat
    BY <1>2, HowManyType
  <2>2. IsFiniteSet(OpenAt(J, np, v, w) \cap (1 .. Len(J))) /\ NumOpen(J, np, v, w) \in Nat
    BY <1>4, HowManyType DEF NumOpen
  <2>3. OpenAt(J, np, v, w) \cap (1 .. Len(J)) = OpenAt(J, np, v, w)
    BY <1>4 DEF OpenAt
  <2>4. NumOpen(J, np, v, w) = 0 <=> OpenAt(J, np, v, w) = {}
    BY <2>2, <2>3, FS_EmptySet DEF NumOpen, HowMany
  <2>5. Running(es, v, w) \cap (1 .. Len(es))
          = {n \in DOMAIN es : es[n].v1 = v /\ es[n].v2 = w}
    BY <1>2 DEF Running
  <2> QED
    BY <2>1, <2>2, <2>4, <2>5 DEF HowMany
<1>7. ASSUME NEW v \in Vertices, NEW w \in Vertices
      PROVE  HowMany(Running(es, v, w), Len(es)) = HowMany(Running(es, w, v), Len(es))
               <=> (v # w => OpenAt(J, np, v, w) = {} /\ OpenAt(J, np, w, v) = {})
  <2>1. CASE v = w
    BY <2>1
  <2>2. CASE v # w
    <3>1. Balance(np, es, Len(es), J, v, w)
      BY <1>3, <1>5, <2>2 DEF EdgesMatched
    <3>2. OpenAt(J, np, v, w) = {} \/ OpenAt(J, np, w, v) = {}
      BY <1>3 DEF OpenOneWay
    <3>3. PICK a, b, c, d : /\ a = HowMany(Running(es, v, w), Len(es))
                            /\ b = HowMany(Running(es, w, v), Len(es))
                            /\ c = NumOpen(J, np, v, w) /\ d = NumOpen(J, np, w, v)
      OBVIOUS
    <3>4. a \in Nat /\ b \in Nat /\ c \in Nat /\ d \in Nat
      BY <1>6, <3>3
    <3>5. a + d = b + c
      BY <3>1, <3>3 DEF Balance
    <3>6. c = 0 <=> OpenAt(J, np, v, w) = {}
      BY <1>6, <3>3
    <3>7. d = 0 <=> OpenAt(J, np, w, v) = {}
      BY <1>6, <3>3
    <3>8. c = 0 \/ d = 0
      BY <3>2, <3>6, <3>7
    <3>9. a = b <=> c = 0 /\ d = 0
      BY <3>4, <3>5, <3>8
    <3> QED
      BY <2>2, <3>3, <3>6, <3>7, <3>9
  <2> QED
    BY <2>1, <2>2
<1>8. \A v \in Vertices : OpenAt(J, np, v, v) = {}
  BY <1>3 DEF GoodEdges, OpenAt
<1>9. (\A v, w \in Vertices : OpenAt(J, np, v, w) = {})
        <=> \A v, w \in Vertices : HowMany(Running(es, v, w), Len(es)) = HowMany(Running(es, w, v), Len(es))
  BY <1>7, <1>8
<1>10. PerfectHull(tris, SilEdgesOf(tris)) <=> \A v, w \in Vertices : OpenAt(J, np, v, w) = {}
  BY <1>1, OpenIffNotPerfect
<1> DEFINE count(v, w) == Cardinality({n \in DOMAIN es : es[n].v1 = v /\ es[n].v2 = w})
<1>11. \A v, w \in Vertices : HowMany(Running(es, v, w), Len(es)) = count(v, w)
  BY <1>6
<1>12. (\A v, w \in Vertices : count(v, w) = count(w, v))
         <=> \A v, w \in Vertices : HowMany(Running(es, v, w), Len(es)) = HowMany(Running(es, w, v), Len(es))
  <2> HIDE DEF count
  <2> QED
    BY <1>11
<1>13. PerfectHull(tris, SilEdgesOf(tris)) <=> \A v, w \in Vertices : count(v, w) = count(w, v)
  <2> HIDE DEF count
  <2> QED
    BY <1>9, <1>10, <1>12
<1> QED
  BY <1>1, <1>13

\* What a surface is told and what is computed of it belong together.
SurfacesAsComputed ==
  /\ indices \in Scenes
  /\ DOMAIN silIndices = Surfaces /\ DOMAIN silEdges = Surfaces /\ DOMAIN perfectHull = Surfaces
  /\ \A s \in Surfaces : silIndices[s] # Nothing =>
       s \in DOMAIN indices /\ silIndices[s] = SilIndices(indices[s], PosOf)
  /\ \A s \in Surfaces : silEdges[s] # Nothing =>
       /\ silIndices[s] # Nothing
       /\ silEdges[s] = SilEdgesOf(silIndices[s])
       /\ perfectHull[s] = PerfectHull(silIndices[s], silEdges[s])

\* It is inductive.
LEMMA SurfacesBegin == Init => SurfacesAsComputed
  BY DEF Init, SurfacesAsComputed

LEMMA SurfacesGoOn == SurfacesAsComputed /\ [Next]_vars => SurfacesAsComputed'
<1> SUFFICES ASSUME SurfacesAsComputed, [Next]_vars
             PROVE  SurfacesAsComputed'
  OBVIOUS
<1>1. DOMAIN indices \subseteq Surfaces
  BY ScenesAssumption DEF SurfacesAsComputed
<1>2. ASSUME NEW s \in DOMAIN indices, R_CreateSilIndice(s)
      PROVE  SurfacesAsComputed'
  <2>1. /\ silIndices' = [silIndices EXCEPT ![s] = SilIndices(indices[s], PosOf)]
        /\ UNCHANGED <<indices, silEdges, perfectHull>>
    BY <1>2 DEF R_CreateSilIndice
  <2>2. silIndices[s] # Nothing => silIndices'[s] = silIndices[s]
    BY <1>1, <2>1 DEF SurfacesAsComputed
  <2>3. \A r \in Surfaces : silIndices[r] # Nothing => silIndices'[r] = silIndices[r]
    BY <2>1, <2>2 DEF SurfacesAsComputed
  <2>4. \A r \in Surfaces : silIndices'[r] # Nothing =>
          r \in DOMAIN indices /\ silIndices'[r] = SilIndices(indices[r], PosOf)
    BY <1>2, <2>1 DEF SurfacesAsComputed
  <2>5. \A r \in Surfaces : silEdges[r] # Nothing =>
          /\ silIndices'[r] # Nothing
          /\ silEdges[r] = SilEdgesOf(silIndices'[r])
          /\ perfectHull[r] = PerfectHull(silIndices'[r], silEdges[r])
    BY <2>3 DEF SurfacesAsComputed
  <2>6. DOMAIN silIndices' = Surfaces
    BY <2>1 DEF SurfacesAsComputed
  <2> QED
    BY <2>1, <2>4, <2>5, <2>6 DEF SurfacesAsComputed
<1>3. ASSUME NEW s \in DOMAIN indices, R_IdentifySilEdges(s)
      PROVE  SurfacesAsComputed'
  <2>1. /\ silIndices[s] # Nothing
        /\ silEdges' = [silEdges EXCEPT ![s] = SilEdgesOf(silIndices[s])]
        /\ perfectHull' = [perfectHull EXCEPT ![s] = PerfectHull(silIndices[s], silEdges'[s])]
        /\ UNCHANGED <<indices, silIndices>>
    BY <1>3 DEF R_IdentifySilEdges
  <2>2. silEdges'[s] = SilEdgesOf(silIndices[s])
        /\ perfectHull'[s] = PerfectHull(silIndices[s], silEdges'[s])
    BY <1>1, <2>1 DEF SurfacesAsComputed
  <2>3. \A r \in Surfaces : r # s => silEdges'[r] = silEdges[r] /\ perfectHull'[r] = perfectHull[r]
    BY <2>1 DEF SurfacesAsComputed
  <2>4. DOMAIN silEdges' = Surfaces /\ DOMAIN perfectHull' = Surfaces
    BY <2>1 DEF SurfacesAsComputed
  <2>5. \A r \in Surfaces : silEdges'[r] # Nothing =>
          /\ silIndices[r] # Nothing
          /\ silEdges'[r] = SilEdgesOf(silIndices[r])
          /\ perfectHull'[r] = PerfectHull(silIndices[r], silEdges'[r])
    BY <2>1, <2>2, <2>3 DEF SurfacesAsComputed
  <2> QED
    BY <2>1, <2>4, <2>5 DEF SurfacesAsComputed
<1>4. ASSUME NEW s \in DOMAIN indices, HasShadow(s)
      PROVE  SurfacesAsComputed'
  BY <1>4 DEF HasShadow, vars, SurfacesAsComputed
<1>5. ASSUME NEW s \in DOMAIN indices, NEW light \in Lights, CapOverflows(s, light)
      PROVE  SurfacesAsComputed'
  BY <1>5 DEF CapOverflows, SurfacesAsComputed
<1>6. ASSUME NEW s \in DOMAIN indices, NEW light \in Lights, NEW i \in Interactions,
             CreateInteraction(i, s, light)
      PROVE  SurfacesAsComputed'
  BY <1>6 DEF CreateInteraction, SurfacesAsComputed
<1>7. CASE UNCHANGED vars
  BY <1>7 DEF vars, SurfacesAsComputed
<1> QED
  BY <1>2, <1>3, <1>4, <1>5, <1>6, <1>7 DEF Next

LEMMA SurfacesAlways == Spec => []SurfacesAsComputed
<1>1. Init => SurfacesAsComputed
  BY SurfacesBegin
<1>2. SurfacesAsComputed /\ [Next]_vars => SurfacesAsComputed'
  BY SurfacesGoOn
<1> QED
  BY <1>1, <1>2, PTL DEF Spec

\* R_IdentifySilEdges finds a surface a perfect hull exactly when its edges match.
LEMMA ComputedHullsMatch == SurfacesAsComputed => HullIffEdgesMatch
<1> SUFFICES ASSUME SurfacesAsComputed, NEW s \in Surfaces,
                    silEdges[s] # Nothing, Len(silEdges[s]) < MaxSilEdges
             PROVE  LET edges == EdgesOf(silIndices[s])
                        count(v, w) == Cardinality({n \in DOMAIN edges : edges[n].v1 = v /\ edges[n].v2 = w})
                    IN  perfectHull[s] <=> \A v, w \in DOMAIN PosOf : count(v, w) = count(w, v)
  BY DEF HullIffEdgesMatch
<1>1. s \in DOMAIN indices /\ silIndices[s] = SilIndices(indices[s], PosOf)
      /\ silEdges[s] = SilEdgesOf(silIndices[s])
      /\ perfectHull[s] = PerfectHull(silIndices[s], silEdges[s])
  BY DEF SurfacesAsComputed
<1>2. indices[s] \in Seq([1 .. 3 -> Vertices])
  BY <1>1, ScenesAssumption DEF SurfacesAsComputed, Vertices
<1>3. PICK tris : tris = silIndices[s]
  OBVIOUS
<1>4. tris \in Seq([1 .. 3 -> Vertices])
  BY <1>1, <1>2, <1>3, FirstVertices
<1>5. Len(SilEdgesOf(tris)) < MaxSilEdges
  BY <1>1, <1>3
<1>6. LET edges == EdgesOf(tris)
          count(v, w) == Cardinality({n \in DOMAIN edges : edges[n].v1 = v /\ edges[n].v2 = w})
      IN  PerfectHull(tris, SilEdgesOf(tris))
            <=> \A v, w \in Vertices : count(v, w) = count(w, v)
  BY <1>4, <1>5, PerfectIffMatched
<1> QED
  BY <1>1, <1>3, <1>6 DEF Vertices

\* For every surface and in every order of the triangles, a surface with room for its edges is
\* a perfect hull for R_IdentifySilEdges exactly when every edge runs as often one way as the
\* other: its greedy joining of edges never leaves two open that could be joined.
THEOREM HullsAreFound == Spec => []HullIffEdgesMatch
  BY SurfacesAlways, ComputedHullsMatch, PTL
==============================================================================
