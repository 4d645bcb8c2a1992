----------------------------- MODULE ShadowProofs ----------------------------
(***************************************************************************)
(* Theorems about the shadow volumes of Interaction.cpp, on top of those   *)
(* about silhouette edges: the cap is followed triangle by triangle, the   *)
(* sides edge by edge.                                                     *)
(***************************************************************************)
EXTENDS SilEdgeProofs

------------------------------------------------------------------------------
(* Triangles and their edges.                                              *)

EndsAt(own, a, b) == {n \in DOMAIN own : Ends(own, n) = {a, b}}

\* The uses of an edge are counted place by place.
LEMMA UsesAreCounted ==
  ASSUME NEW X, NEW own \in Seq(X), NEW a, NEW b
  PROVE  EdgeUses(own, a, b) = HowMany(EndsAt(own, a, b), Len(own)) /\ EdgeUses(own, a, b) \in Nat
<1>1. EndsAt(own, a, b) \cap (1 .. Len(own)) = EndsAt(own, a, b)
  BY DEF EndsAt
<1>2. EdgeUses(own, a, b) = HowMany(EndsAt(own, a, b), Len(own))
  BY <1>1 DEF EdgeUses, HowMany, EndsAt
<1>3. Len(own) \in Nat
  OBVIOUS
<1>4. HowMany(EndsAt(own, a, b), Len(own)) \in Nat
  BY <1>3, HowManyType
<1> QED
  BY <1>2, <1>4

\* The length of two sequences together.
LEMMA LengthOfBoth ==
  ASSUME NEW X, NEW own \in Seq(X), NEW q \in Seq(X)
  PROVE  own \o q \in Seq(X) /\ Len(own \o q) = Len(own) + Len(q) /\ Len(own) \in Nat
  BY ConcatProperties

\* One more triangle.
LEMMA EndsOfOneMore ==
  ASSUME NEW X, NEW own \in Seq(X), NEW q \in Seq(X), Len(own) % 3 = 0, Len(q) = 3
  PROVE  /\ Len(own \o q) = Len(own) + 3
         /\ \A n \in 1 .. Len(own) : Ends(own \o q, n) = Ends(own, n)
         /\ Ends(own \o q, Len(own) + 1) = {q[1], q[2]}
         /\ Ends(own \o q, Len(own) + 2) = {q[2], q[3]}
         /\ Ends(own \o q, Len(own) + 3) = {q[3], q[1]}
<1>1. PICK all, L : all = own \o q /\ L = Len(own)
  OBVIOUS
<1>2. PICK k \in Nat : L = 3 * k
  <2>1. L \in Nat /\ L % 3 = 0
    BY <1>1
  <2>2. L \div 3 \in Nat /\ L = 3 * (L \div 3)
    BY <2>1
  <2> QED
    BY <2>2
<1>3. L \in Nat /\ Len(all) = L + 3
  <2>1. Len(own \o q) = Len(own) + Len(q) /\ Len(own) \in Nat
    BY LengthOfBoth
  <2> QED
    BY <1>1, <2>1
<1>4. \A n \in 1 .. L : all[n] = own[n]
  BY <1>1, ConcatProperties
<1>5. all[L + 1] = q[1] /\ all[L + 2] = q[2] /\ all[L + 3] = q[3]
  <2>1. \A n \in 1 .. Len(own) + Len(q) :
          (own \o q)[n] = IF n <= Len(own) THEN own[n] ELSE q[n - Len(own)]
    BY ConcatProperties
  <2>2. (L + 1) - L = 1 /\ (L + 2) - L = 2 /\ (L + 3) - L = 3
    BY <1>3
  <2> QED
    BY <1>1, <1>3, <2>1, <2>2
<1>6. (L + 1) % 3 = 1 /\ (L + 2) % 3 = 2 /\ (L + 3) % 3 = 0
  BY <1>2
<1>7. ASSUME NEW n \in 1 .. L
      PROVE  Ends(all, n) = Ends(own, n)
  <2>1. (IF n % 3 = 0 THEN n - 2 ELSE n + 1) \in 1 .. L
    <3>1. CASE n % 3 = 0
      <4>1. n \in Nat /\ n >= 3 /\ n <= L
        BY <1>3, <3>1
      <4> QED
        BY <1>3, <3>1, <4>1
    <3>2. CASE n % 3 # 0
      <4>1. n # L
        BY <1>2, <3>2
      <4> QED
        BY <1>3, <3>2, <4>1
    <3> QED
      BY <3>1, <3>2
  <2> QED
    BY <1>4, <2>1 DEF Ends
<1>8. Ends(all, L + 1) = {q[1], q[2]}
  <2>1. (L + 1) + 1 = L + 2 /\ (L + 1) % 3 # 0
    BY <1>3, <1>6
  <2> QED
    BY <1>5, <2>1 DEF Ends
<1>9. Ends(all, L + 2) = {q[2], q[3]}
  <2>1. (L + 2) + 1 = L + 3 /\ (L + 2) % 3 # 0
    BY <1>3, <1>6
  <2> QED
    BY <1>5, <2>1 DEF Ends
<1>10. Ends(all, L + 3) = {q[3], q[1]}
  <2>1. (L + 3) - 2 = L + 1
    BY <1>3
  <2> QED
    BY <1>5, <1>6, <2>1 DEF Ends
<1> QED
  BY <1>1, <1>3, <1>7, <1>8, <1>9, <1>10

\* Indices of whole triangles, and of one.
Triples(X, own) == own \in Seq(X) /\ Len(own) % 3 = 0
Triple(X, q) == q \in Seq(X) /\ Len(q) = 3

\* Whole triangles stay whole triangles with one more.
LEMMA TriplesAndOne ==
  ASSUME NEW X, NEW own, Triples(X, own), NEW q, Triple(X, q)
  PROVE  Triples(X, own \o q)
<1>1. PICK L : L = Len(own)
  OBVIOUS
<1>2. own \o q \in Seq(X) /\ Len(own \o q) = L + 3 /\ L \in Nat
  <2>1. own \in Seq(X) /\ q \in Seq(X) /\ Len(q) = 3
    BY DEF Triples, Triple
  <2> QED
    BY <1>1, <2>1, LengthOfBoth
<1>3. L % 3 = 0
  BY <1>1 DEF Triples
<1>4. (L + 3) % 3 = 0
  BY <1>2, <1>3
<1> QED
  BY <1>2, <1>4 DEF Triples

\* How many edges of a triangle are between a and b, and what it adds to them.
Touches(q, a, b) ==
  Bit({q[1], q[2]} = {a, b}) + Bit({q[2], q[3]} = {a, b}) + Bit({q[3], q[1]} = {a, b})
UsesGrow(own, q, a, b) ==
  /\ EdgeUses(own, a, b) \in Nat /\ Touches(q, a, b) \in Nat
  /\ EdgeUses(own \o q, a, b) = EdgeUses(own, a, b) + Touches(q, a, b)

\* One more triangle adds its own edges and changes no other.
LEMMA UsesOfOneMore ==
  ASSUME NEW X, NEW own, Triples(X, own), NEW q, Triple(X, q), NEW a, NEW b
  PROVE  UsesGrow(own, q, a, b)
<1>1. own \in Seq(X) /\ q \in Seq(X) /\ Len(own) % 3 = 0 /\ Len(q) = 3
  BY DEF Triples, Triple
<1>2. PICK all, L : all = own \o q /\ L = Len(own)
  OBVIOUS
<1>3. all \in Seq(X) /\ L \in Nat /\ Len(all) = L + 3 /\ DOMAIN own = 1 .. L /\ DOMAIN all = 1 .. L + 3
  <2>1. own \o q \in Seq(X) /\ Len(own \o q) = Len(own) + Len(q) /\ Len(own) \in Nat
    BY <1>1, LengthOfBoth
  <2>2. all \in Seq(X) /\ L \in Nat /\ Len(all) = L + 3
    BY <1>1, <1>2, <2>1
  <2> QED
    BY <1>1, <1>2, <2>2
<1>4. /\ \A n \in 1 .. L : Ends(all, n) = Ends(own, n)
      /\ Ends(all, L + 1) = {q[1], q[2]}
      /\ Ends(all, L + 2) = {q[2], q[3]}
      /\ Ends(all, L + 3) = {q[3], q[1]}
  <2>1. /\ \A n \in 1 .. Len(own) : Ends(own \o q, n) = Ends(own, n)
        /\ Ends(own \o q, Len(own) + 1) = {q[1], q[2]}
        /\ Ends(own \o q, Len(own) + 2) = {q[2], q[3]}
        /\ Ends(own \o q, Len(own) + 3) = {q[3], q[1]}
    BY <1>1, EndsOfOneMore
  <2> QED
    BY <1>2, <2>1
<1>5. PICK S, R : S = EndsAt(own, a, b) /\ R = EndsAt(all, a, b)
  OBVIOUS
<1>6. \A n \in 1 .. L : n \in R <=> n \in S
  <2>1. \A n \in 1 .. L : n \in DOMAIN own /\ n \in DOMAIN all
    BY <1>3
  <2> QED
    BY <1>4, <1>5, <2>1 DEF EndsAt
<1>7. HowMany(R, L) = HowMany(S, L)
  BY <1>3, <1>6, HowManySame
<1>8. L + 1 \in DOMAIN all /\ L + 2 \in DOMAIN all /\ L + 3 \in DOMAIN all
  BY <1>3
<1>9. /\ L + 1 \in R <=> {q[1], q[2]} = {a, b}
      /\ L + 2 \in R <=> {q[2], q[3]} = {a, b}
      /\ L + 3 \in R <=> {q[3], q[1]} = {a, b}
  BY <1>4, <1>5, <1>8 DEF EndsAt
<1>10. HowMany(R, L + 3) = HowMany(R, L) + Bit(L + 1 \in R) + Bit(L + 2 \in R) + Bit(L + 3 \in R)
  BY <1>3, HowManyThree
<1>11. EdgeUses(all, a, b) = HowMany(R, L + 3)
  BY <1>3, <1>5, UsesAreCounted
<1>12. EdgeUses(own, a, b) = HowMany(S, L)
  BY <1>1, <1>2, <1>5, UsesAreCounted
<1>13. /\ Bit(L + 1 \in R) = Bit({q[1], q[2]} = {a, b})
       /\ Bit(L + 2 \in R) = Bit({q[2], q[3]} = {a, b})
       /\ Bit(L + 3 \in R) = Bit({q[3], q[1]} = {a, b})
  BY <1>9 DEF Bit
<1>14. EdgeUses(own, a, b) \in Nat
  BY <1>1, UsesAreCounted
<1>15. Touches(q, a, b) \in Nat
  BY DEF Touches, Bit
<1>16. EdgeUses(all, a, b) = EdgeUses(own, a, b) + Touches(q, a, b)
  <2>1. PICK k, b1, b2, b3 : /\ k = HowMany(R, L)
                             /\ b1 = Bit({q[1], q[2]} = {a, b})
                             /\ b2 = Bit({q[2], q[3]} = {a, b})
                             /\ b3 = Bit({q[3], q[1]} = {a, b})
    OBVIOUS
  <2>2. b1 \in Nat /\ b2 \in Nat /\ b3 \in Nat
    BY <2>1 DEF Bit
  <2>3. k \in Nat
    BY <1>3, <2>1, HowManyType
  <2>4. EdgeUses(all, a, b) = k + b1 + b2 + b3
    BY <1>10, <1>11, <1>13, <2>1
  <2>5. EdgeUses(own, a, b) = k
    BY <1>7, <1>12, <2>1
  <2>6. Touches(q, a, b) = b1 + b2 + b3
    BY <2>1 DEF Touches
  <2> QED
    BY <2>2, <2>3, <2>4, <2>5, <2>6
<1> QED
  BY <1>2, <1>14, <1>15, <1>16 DEF UsesGrow

\* Two even numbers have an even sum.
LEMMA EvenSum ==
  ASSUME NEW k \in Nat, NEW l \in Nat, k % 2 = 0, l % 2 = 0
  PROVE  (k + l) % 2 = 0
  OBVIOUS

\* Three sums that are even leave one term even.
LEMMA EvenRest ==
  ASSUME NEW u \in Nat, NEW k \in Nat, NEW l \in Nat, NEW m \in Nat,
         (u + k + l) % 2 = 0, (k + m) % 2 = 0, (l + m) % 2 = 0
  PROVE  u % 2 = 0
<1>1. \A n \in Nat : n % 2 = 0 => n = 2 * (n \div 2) /\ n \div 2 \in Nat
  OBVIOUS
<1> PICK x, y, z : x = (u + k + l) \div 2 /\ y = (k + m) \div 2 /\ z = (l + m) \div 2
  OBVIOUS
<1>2. x \in Nat /\ y \in Nat /\ z \in Nat /\ u + k + l = 2 * x /\ k + m = 2 * y /\ l + m = 2 * z
  BY <1>1
<1>3. u = 2 * (((x - y) - z) + m)
  BY <1>2
<1>4. ((x - y) - z) + m \in Int
  BY <1>2
<1> QED
  BY <1>3, <1>4

\* A sequence over a set is one over a larger set.
LEMMA SeqInLarger ==
  ASSUME NEW S, NEW T, S \subseteq T, NEW s \in Seq(S)
  PROVE  s \in Seq(T)
  OBVIOUS

\* Joining three sequences in either order.
LEMMA JoinedThree ==
  ASSUME NEW a \in Seq(Nat), NEW b \in Seq(Nat), NEW c \in Seq(Nat)
  PROVE  (a \o b) \o c = a \o (b \o c)
  BY ConcatAssociative

------------------------------------------------------------------------------
(* Collecting vertices.                                                    *)

Distinct(vs) == \A i, j \in DOMAIN vs : vs[i] = vs[j] => i = j
Begins(vs, ws) == Len(vs) <= Len(ws) /\ \A k \in 1 .. Len(vs) : ws[k] = vs[k]

VertexList(V, vs) == vs \in Seq(V) /\ Distinct(vs)

\* With adds one vertex, once.
LEMMA WithOne ==
  ASSUME NEW V, NEW vs, VertexList(V, vs), NEW v \in V, NEW ws, ws = With(vs, v)
  PROVE  VertexList(V, ws) /\ Begins(vs, ws) /\ ToSet(ws) = ToSet(vs) \cup {v}
<1>1. vs \in Seq(V) /\ Distinct(vs)
  BY DEF VertexList
<1>2. CASE v \in ToSet(vs)
  BY <1>1, <1>2 DEF With, Begins, VertexList
<1>3. CASE v \notin ToSet(vs)
  <2>1. ws = Append(vs, v)
    BY <1>3 DEF With
  <2>2. /\ ws \in Seq(V) /\ Len(ws) = Len(vs) + 1
        /\ DOMAIN vs = 1 .. Len(vs) /\ DOMAIN ws = 1 .. Len(vs) + 1
        /\ \A k \in 1 .. Len(vs) : ws[k] = vs[k]
        /\ ws[Len(vs) + 1] = v /\ Len(vs) \in Nat
    BY <1>1, <2>1
  <2>3. \A k \in 1 .. Len(vs) + 1 : k \in 1 .. Len(vs) \/ k = Len(vs) + 1
    BY <2>2
  <2>4. \A k \in 1 .. Len(vs) : vs[k] # v
    BY <1>3, <2>2 DEF ToSet
  <2>5. Distinct(ws)
    BY <1>1, <2>2, <2>3, <2>4 DEF Distinct
  <2>6. ToSet(ws) = ToSet(vs) \cup {v}
    BY <2>2, <2>3 DEF ToSet
  <2>7. Begins(vs, ws)
    BY <2>2 DEF Begins
  <2> QED
    BY <2>2, <2>5, <2>6, <2>7 DEF VertexList
<1> QED
  BY <1>2, <1>3

\* Collect adds the corners of a triangle.
LEMMA WithCorners ==
  ASSUME NEW V, NEW vs, VertexList(V, vs), NEW tri \in [1 .. 3 -> V],
         NEW ws, ws = Collect(vs, tri)
  PROVE  VertexList(V, ws) /\ Begins(vs, ws)
         /\ ToSet(ws) = ToSet(vs) \cup {tri[1], tri[2], tri[3]}
<1>1. PICK a, b, c : a = tri[1] /\ b = tri[2] /\ c = tri[3]
  OBVIOUS
<1>2. a \in V /\ b \in V /\ c \in V
  BY <1>1
<1>3. PICK ws1, ws2 : ws1 = With(vs, a) /\ ws2 = With(ws1, b)
  OBVIOUS
<1>4. ws = With(ws2, c)
  BY <1>1, <1>3 DEF Collect
<1>5. VertexList(V, ws1) /\ Begins(vs, ws1) /\ ToSet(ws1) = ToSet(vs) \cup {a}
  BY <1>2, <1>3, WithOne
<1>6. VertexList(V, ws2) /\ Begins(ws1, ws2) /\ ToSet(ws2) = ToSet(ws1) \cup {b}
  BY <1>2, <1>3, <1>5, WithOne
<1>7. VertexList(V, ws) /\ Begins(ws2, ws) /\ ToSet(ws) = ToSet(ws2) \cup {c}
  BY <1>2, <1>4, <1>6, WithOne
<1>8. Begins(vs, ws)
  <2>1. Len(vs) \in Nat /\ Len(ws1) \in Nat /\ Len(ws2) \in Nat /\ Len(ws) \in Nat
    BY <1>5, <1>6, <1>7 DEF VertexList
  <2> QED
    BY <1>5, <1>6, <1>7, <2>1 DEF Begins
<1> QED
  BY <1>1, <1>5, <1>6, <1>7, <1>8

\* The index of a vertex stands for its place.
VertAt(verts, x) == verts[(x \div 2) + 1]
NearOnes(verts) == {2 * (k - 1) : k \in DOMAIN verts}

\* Remap finds the place of a vertex collected.
LEMMA IndexOfVertex ==
  ASSUME NEW V, NEW verts \in Seq(V), NEW v \in ToSet(verts)
  PROVE  /\ Remap(verts, v) \in NearOnes(verts)
         /\ VertAt(verts, Remap(verts, v)) = v
<1>1. PICK k : k = CHOOSE j \in DOMAIN verts : verts[j] = v
  OBVIOUS
<1>2. \E j \in DOMAIN verts : verts[j] = v
  BY DEF ToSet
<1>3. k \in DOMAIN verts /\ verts[k] = v
  BY <1>1, <1>2
<1>4. Remap(verts, v) = 2 * (k - 1)
  BY <1>1 DEF Remap
<1>5. k \in Nat /\ ((2 * (k - 1)) \div 2) + 1 = k
  BY <1>3
<1> QED
  BY <1>3, <1>4, <1>5 DEF NearOnes, VertAt

\* The near indices are the even ones.
LEMMA NearIndices ==
  ASSUME NEW V, NEW verts \in Seq(V), NEW x \in NearOnes(verts)
  PROVE  /\ x \in Nat /\ x % 2 = 0 /\ x + 1 < 2 * Len(verts)
         /\ (x \div 2) + 1 \in DOMAIN verts /\ x = 2 * (((x \div 2) + 1) - 1)
         /\ ((x + 1) \div 2) + 1 = (x \div 2) + 1 /\ (x + 1) % 2 = 1
<1>1. PICK k \in DOMAIN verts : x = 2 * (k - 1)
  BY DEF NearOnes
<1>2. k \in 1 .. Len(verts) /\ Len(verts) \in Nat
  BY <1>1
<1>3. PICK j \in Nat : j = k - 1
  BY <1>2
<1>4. x = 2 * j /\ k = j + 1
  BY <1>1, <1>2, <1>3
<1>5. x \div 2 = j /\ x % 2 = 0
  BY <1>4
<1>6. (x + 1) \div 2 = j /\ (x + 1) % 2 = 1
  <2>1. (2 * j + 1) \div 2 = j /\ (2 * j + 1) % 2 = 1
    OBVIOUS
  <2> QED
    BY <1>4, <2>1
<1>7. x \in Nat /\ x + 1 < 2 * Len(verts)
  BY <1>2, <1>4
<1> QED
  BY <1>1, <1>2, <1>4, <1>5, <1>6, <1>7

------------------------------------------------------------------------------
(* The cap.                                                                *)

\* The recursive function of Cap.
LEMMA CapIsMade ==
  ASSUME NEW tris, Len(tris) \in Nat, NEW f
  PROVE  \E g : /\ g = [t \in 0 .. Len(tris) |->
                          IF t = 0 THEN [verts |-> <<>>, indices |-> shadowIndices, stop |-> FALSE]
                          ELSE CapStep(g[t - 1], tris[t], f[t])]
                /\ Cap(tris, f) = g[Len(tris)]
<1> DEFINE start == [verts |-> <<>>, indices |-> shadowIndices, stop |-> FALSE]
           Is(h, m) == h = [t \in 0 .. m |-> IF t = 0 THEN start
                              ELSE CapStep(h[t - 1], tris[t], f[t])]
<1>1. PICK N : N = Len(tris)
  OBVIOUS
<1>2. N \in Nat
  BY <1>1
<1> HIDE DEF start
<1>3. PICK T : T = {m \in 0 .. N : \E h : Is(h, m)}
  OBVIOUS
<1>4. 0 \in T
  <2>1. PICK h : h = [t \in 0 .. 0 |-> start]
    OBVIOUS
  <2>2. Is(h, 0)
    BY <2>1
  <2> QED
    BY <1>2, <1>3, <2>2
<1>5. ASSUME NEW m \in 0 .. N, m \in T, m < N
      PROVE  m + 1 \in T
  <2>1. PICK h : Is(h, m)
    BY <1>3, <1>5
  <2>2. PICK k : k = [t \in 0 .. m + 1 |-> IF t \in 0 .. m THEN h[t]
                        ELSE CapStep(h[t - 1], tris[t], f[t])]
    OBVIOUS
  <2>3. \A t \in 0 .. m : k[t] = h[t]
    BY <1>2, <2>2
  <2>4. \A t \in 0 .. m + 1 :
          k[t] = IF t = 0 THEN start ELSE CapStep(k[t - 1], tris[t], f[t])
    <3> TAKE t \in 0 .. m + 1
    <3>1. CASE t \in 0 .. m
      <4>1. t = 0 \/ t - 1 \in 0 .. m
        BY <3>1
      <4> QED
        BY <2>1, <2>3, <3>1, <4>1
    <3>2. CASE t = m + 1
      <4>1. t # 0 /\ t - 1 \in 0 .. m /\ t \notin 0 .. m
        BY <3>2
      <4> QED
        BY <2>2, <2>3, <4>1
    <3> QED
      BY <3>1, <3>2
  <2>5. Is(k, m + 1)
    BY <2>2, <2>4
  <2>6. m + 1 \in 0 .. N
    BY <1>2, <1>5
  <2> QED
    BY <1>3, <2>5, <2>6
<1>6. \A m \in 0 .. N : m \in T
  BY <1>2, <1>4, <1>5, UpTo
<1>7. \E h : Is(h, N)
  BY <1>2, <1>3, <1>6
<1> QED
  BY <1>1, <1>7 DEF Cap, start

\* The vertices that some indices stand for.
Named(verts, own) == [n \in DOMAIN own |-> VertAt(verts, own[n])]

\* What is true of the cap after the t-th triangle, own being what it has added to the
\* indices: it has the vertices of the triangles turned to the light, and between two
\* vertices as many edges as these.
CapShows(tris, f, es, t, sh, acc, own) ==
  /\ VertexList(Vertices, acc.verts)
  /\ \A u \in 1 .. t : ~f[u] => CornersOf(tris, u) \subseteq ToSet(acc.verts)
  /\ acc.indices = sh \o own
  /\ Triples(NearOnes(acc.verts), own)
  /\ \A v, w \in Vertices : v # w =>
       EdgeUses(Named(acc.verts, own), v, w) = HowMany(LitAt(es, f, {{v, w}}), 3 * t)

\* What a lit or unlit triangle adds to the edges of lit triangles.
NextTriangle(tris, es, t, tri) ==
  /\ tris \in Seq([1 .. 3 -> Vertices]) /\ es = EdgesOf(tris)
  /\ t \in 0 .. Len(tris) - 1 /\ tri = tris[t + 1]
LitGrows(es, f, E, t, tri) ==
  /\ HowMany(LitAt(es, f, E), 3 * t) \in Nat
  /\ HowMany(LitAt(es, f, E), 3 * (t + 1)) =
       HowMany(LitAt(es, f, E), 3 * t)
         + Bit({tri[1], tri[2]} \in E /\ ~f[t + 1]) + Bit({tri[2], tri[3]} \in E /\ ~f[t + 1])
         + Bit({tri[3], tri[1]} \in E /\ ~f[t + 1])

\* The edges of one more triangle count when it is turned to the light.
LEMMA LitByOneMore ==
  ASSUME NEW tris, NEW es, NEW f, NEW E, NEW t, NEW tri, NextTriangle(tris, es, t, tri)
  PROVE  LitGrows(es, f, E, t, tri)
<1>1. /\ tris \in Seq([1 .. 3 -> Vertices]) /\ es = EdgesOf(tris)
      /\ t \in 0 .. Len(tris) - 1 /\ tri = tris[t + 1]
  BY DEF NextTriangle
<1>2. PICK n, S : n = 3 * t /\ S = LitAt(es, f, E)
  OBVIOUS
<1>3. /\ Len(tris) \in Nat /\ es \in Seq(DirectedEdge(Vertices, NoPlane(tris)))
      /\ Len(es) = 3 * Len(tris)
      /\ \A c \in 1 .. 3 :
           es[n + c] = [v1 |-> tri[c], v2 |-> tri[Corner(c)], plane |-> t + 1]
  <2>1. /\ Len(tris) \in Nat /\ EdgesOf(tris) \in Seq(DirectedEdge(Vertices, NoPlane(tris)))
        /\ Len(EdgesOf(tris)) = 3 * Len(tris)
        /\ \A k \in 0 .. Len(tris) - 1 : \A c \in 1 .. 3 :
             EdgesOf(tris)[3 * k + c] = [v1 |-> tris[k + 1][c], v2 |-> tris[k + 1][Corner(c)],
                                         plane |-> k + 1]
    BY <1>1, EdgesOfTriangles
  <2> QED
    BY <1>1, <1>2, <2>1
<1>4. n \in Nat /\ n + 3 <= Len(es) /\ 3 * (t + 1) = n + 3
  BY <1>1, <1>2, <1>3
<1>5. n + 1 \in DOMAIN es /\ n + 2 \in DOMAIN es /\ n + 3 \in DOMAIN es
  BY <1>3, <1>4
<1>6. Corner(1) = 2 /\ Corner(2) = 3 /\ Corner(3) = 1
  BY DEF Corner
<1>7. /\ es[n + 1].v1 = tri[1] /\ es[n + 1].v2 = tri[2] /\ es[n + 1].plane = t + 1
      /\ es[n + 2].v1 = tri[2] /\ es[n + 2].v2 = tri[3] /\ es[n + 2].plane = t + 1
      /\ es[n + 3].v1 = tri[3] /\ es[n + 3].v2 = tri[1] /\ es[n + 3].plane = t + 1
  <2>1. es[n + 1] = [v1 |-> tri[1], v2 |-> tri[2], plane |-> t + 1]
    BY <1>3, <1>6
  <2>2. es[n + 2] = [v1 |-> tri[2], v2 |-> tri[3], plane |-> t + 1]
    BY <1>3, <1>6
  <2>3. es[n + 3] = [v1 |-> tri[3], v2 |-> tri[1], plane |-> t + 1]
    BY <1>3, <1>6
  <2> QED
    BY <2>1, <2>2, <2>3
<1>8. /\ n + 1 \in S <=> {tri[1], tri[2]} \in E /\ ~f[t + 1]
      /\ n + 2 \in S <=> {tri[2], tri[3]} \in E /\ ~f[t + 1]
      /\ n + 3 \in S <=> {tri[3], tri[1]} \in E /\ ~f[t + 1]
  BY <1>2, <1>5, <1>7 DEF LitAt
<1>9. HowMany(S, n + 3) = HowMany(S, n) + Bit(n + 1 \in S) + Bit(n + 2 \in S) + Bit(n + 3 \in S)
  BY <1>4, HowManyThree
<1>10. HowMany(S, n) \in Nat
  BY <1>4, HowManyType
<1>11. /\ Bit(n + 1 \in S) = Bit({tri[1], tri[2]} \in E /\ ~f[t + 1])
       /\ Bit(n + 2 \in S) = Bit({tri[2], tri[3]} \in E /\ ~f[t + 1])
       /\ Bit(n + 3 \in S) = Bit({tri[3], tri[1]} \in E /\ ~f[t + 1])
  BY <1>8 DEF Bit
<1> QED
  BY <1>2, <1>4, <1>9, <1>10, <1>11 DEF LitGrows

\* The block of indices that a triangle adds.
Block(ws, tri) == [c \in 1 .. 3 |-> Remap(ws, tri[4 - c])]

\* The vertices named by the indices, with one more triangle.
LEMMA NamedWithOneMore ==
  ASSUME NEW vs, VertexList(Vertices, vs), NEW own, Triples(NearOnes(vs), own),
         NEW tri \in [1 .. 3 -> Vertices], NEW ws, ws = Collect(vs, tri), NEW q, q = Block(ws, tri)
  PROVE  /\ Triple(NearOnes(ws), q) /\ Triples(NearOnes(ws), own \o q)
         /\ Triples(Vertices, Named(vs, own))
         /\ Named(ws, own \o q) = Named(vs, own) \o <<tri[3], tri[2], tri[1]>>
<1>1. own \in Seq(NearOnes(vs)) /\ Len(own) % 3 = 0
      /\ q = [c \in 1 .. 3 |-> Remap(ws, tri[4 - c])]
  BY DEF Triples, Block
<1>2. /\ VertexList(Vertices, ws) /\ Begins(vs, ws)
      /\ ToSet(ws) = ToSet(vs) \cup {tri[1], tri[2], tri[3]}
  BY WithCorners
<1>3. vs \in Seq(Vertices) /\ ws \in Seq(Vertices)
  BY <1>2 DEF VertexList
<1>4. \A c \in 1 .. 3 : tri[4 - c] \in ToSet(ws)
  BY <1>2
<1>5. \A c \in 1 .. 3 : q[c] \in NearOnes(ws) /\ VertAt(ws, q[c]) = tri[4 - c]
  <2> TAKE c \in 1 .. 3
  <2>1. PICK v \in ToSet(ws) : v = tri[4 - c]
    BY <1>4
  <2>2. Remap(ws, v) \in NearOnes(ws) /\ VertAt(ws, Remap(ws, v)) = v
    BY <1>3, <2>1, IndexOfVertex
  <2> QED
    BY <1>1, <2>1, <2>2
<1>6. q \in Seq(NearOnes(ws)) /\ Len(q) = 3
  BY <1>1, <1>5
<1>7. NearOnes(vs) \subseteq NearOnes(ws)
  <2>1. DOMAIN vs \subseteq DOMAIN ws
    BY <1>2, <1>3 DEF Begins
  <2> QED
    BY <2>1 DEF NearOnes
<1>8. own \in Seq(NearOnes(ws))
  BY <1>1, <1>7
<1>9. own \o q \in Seq(NearOnes(ws)) /\ Len(own \o q) = Len(own) + 3 /\ Len(own) \in Nat
  <2>1. own \o q \in Seq(NearOnes(ws)) /\ Len(own \o q) = Len(own) + Len(q) /\ Len(own) \in Nat
    BY <1>6, <1>8, LengthOfBoth
  <2> QED
    BY <1>6, <2>1
<1>10. Len(own \o q) % 3 = 0
  BY <1>1, <1>9
<1>11. \A n \in DOMAIN own : VertAt(vs, own[n]) \in Vertices /\ VertAt(ws, own[n]) = VertAt(vs, own[n])
  <2> TAKE n \in DOMAIN own
  <2>1. PICK x \in NearOnes(vs) : x = own[n]
    BY <1>1
  <2>2. (x \div 2) + 1 \in DOMAIN vs
    BY <1>3, NearIndices
  <2> QED
    BY <1>2, <1>3, <2>1, <2>2 DEF VertAt, Begins
<1>12. Named(vs, own) \in Seq(Vertices) /\ Len(Named(vs, own)) = Len(own)
       /\ \A n \in 1 .. Len(own) : Named(vs, own)[n] = VertAt(ws, own[n])
  <2>1. DOMAIN own = 1 .. Len(own)
    BY <1>1
  <2> QED
    BY <1>9, <1>11, <2>1 DEF Named
<1>13. Named(ws, own \o q) = Named(vs, own) \o <<tri[3], tri[2], tri[1]>>
  <2>1. PICK L, left, right : L = Len(own) /\ left = Named(ws, own \o q)
                              /\ right = Named(vs, own) \o <<tri[3], tri[2], tri[1]>>
    OBVIOUS
  <2>2. DOMAIN (own \o q) = 1 .. L + 3 /\ L \in Nat
    BY <1>9, <2>1
  <2>3. left = [n \in 1 .. L + 3 |-> VertAt(ws, (own \o q)[n])]
    BY <2>1, <2>2 DEF Named
  <2>4. /\ \A n \in 1 .. L : (own \o q)[n] = own[n]
        /\ (own \o q)[L + 1] = q[1] /\ (own \o q)[L + 2] = q[2] /\ (own \o q)[L + 3] = q[3]
    <3>1. \A n \in 1 .. Len(own) + Len(q) :
            (own \o q)[n] = IF n <= Len(own) THEN own[n] ELSE q[n - Len(own)]
      BY <1>6, <1>8, ConcatProperties
    <3>2. (L + 1) - L = 1 /\ (L + 2) - L = 2 /\ (L + 3) - L = 3
      BY <2>2
    <3> QED
      BY <1>6, <2>1, <2>2, <3>1, <3>2
  <2>5. <<tri[3], tri[2], tri[1]>> \in Seq(Vertices) /\ Len(<<tri[3], tri[2], tri[1]>>) = 3
    OBVIOUS
  <2>6. right \in Seq(Vertices) /\ Len(right) = L + 3
    <3>1. right \in Seq(Vertices)
          /\ Len(right) = Len(Named(vs, own)) + Len(<<tri[3], tri[2], tri[1]>>)
      BY <1>12, <2>1, <2>5, LengthOfBoth
    <3> QED
      BY <1>12, <2>1, <2>5, <3>1
  <2>7. /\ \A n \in 1 .. L : right[n] = Named(vs, own)[n]
        /\ right[L + 1] = tri[3] /\ right[L + 2] = tri[2] /\ right[L + 3] = tri[1]
    <3>1. PICK a, b : a = Named(vs, own) /\ b = <<tri[3], tri[2], tri[1]>>
      OBVIOUS
    <3>2. a \in Seq(Vertices) /\ b \in Seq(Vertices) /\ Len(a) = L /\ Len(b) = 3
      BY <1>12, <2>1, <2>5, <3>1
    <3>3. \A n \in 1 .. Len(a) + Len(b) :
            (a \o b)[n] = IF n <= Len(a) THEN a[n] ELSE b[n - Len(a)]
      BY <3>2, ConcatProperties
    <3>4. (L + 1) - L = 1 /\ (L + 2) - L = 2 /\ (L + 3) - L = 3
      BY <2>2
    <3>5. b[1] = tri[3] /\ b[2] = tri[2] /\ b[3] = tri[1]
      BY <3>1
    <3> QED
      BY <2>1, <2>2, <3>1, <3>2, <3>3, <3>4, <3>5
  <2>8. VertAt(ws, q[1]) = tri[3] /\ VertAt(ws, q[2]) = tri[2] /\ VertAt(ws, q[3]) = tri[1]
    BY <1>5
  <2>9. \A n \in 1 .. L + 3 : left[n] = right[n]
    <3>1. \A n \in 1 .. L + 3 : n \in 1 .. L \/ n = L + 1 \/ n = L + 2 \/ n = L + 3
      BY <2>2
    <3>2. ASSUME NEW n \in 1 .. L
          PROVE  left[n] = right[n]
      <4>1. n \in 1 .. L + 3
        BY <2>2
      <4>2. left[n] = VertAt(ws, own[n])
        BY <2>3, <2>4, <4>1
      <4> QED
        BY <1>12, <2>1, <2>7, <4>2
    <3>3. L + 1 \in 1 .. L + 3 /\ L + 2 \in 1 .. L + 3 /\ L + 3 \in 1 .. L + 3
      BY <2>2
    <3>4. left[L + 1] = VertAt(ws, q[1]) /\ left[L + 2] = VertAt(ws, q[2]) /\ left[L + 3] = VertAt(ws, q[3])
      BY <2>3, <2>4, <3>3
    <3>5. left[L + 1] = right[L + 1] /\ left[L + 2] = right[L + 2] /\ left[L + 3] = right[L + 3]
      BY <2>7, <2>8, <3>4
    <3> QED
      BY <3>1, <3>2, <3>5
  <2>10. right = [n \in 1 .. L + 3 |-> right[n]]
    BY <2>2, <2>6
  <2> QED
    BY <2>1, <2>3, <2>9, <2>10
<1>14. Len(Named(vs, own)) % 3 = 0
  BY <1>1, <1>12
<1> QED
  BY <1>6, <1>9, <1>10, <1>12, <1>13, <1>14 DEF Triple, Triples

\* What acc is in Cap.
IsCap(acc) ==
  /\ acc = [verts |-> acc.verts, indices |-> acc.indices, stop |-> acc.stop]
  /\ acc.indices \in Seq(Nat)

\* The step of the cap: what it shows after t triangles it shows after t + 1.
LEMMA CapGoesOn ==
  ASSUME NEW tris \in Seq([1 .. 3 -> Vertices]), NEW es, es = EdgesOf(tris),
         NEW f, FacingOf(NoPlane(tris), f), NEW t \in 0 .. Len(tris) - 1,
         NEW sh \in Seq(Nat), NEW acc, NEW own, CapShows(tris, f, es, t, sh, acc, own), ~acc.stop,
         IsCap(acc), NEW next, next = CapStep(acc, tris[t + 1], f[t + 1])
  PROVE  IsCap(next) /\ (next.stop \/ \E more : CapShows(tris, f, es, t + 1, sh, next, more))
<1>1. PICK tri, vs : tri = tris[t + 1] /\ vs = acc.verts
  OBVIOUS
<1>2. Len(tris) \in Nat /\ NoPlane(tris) = Len(tris) + 1 /\ t \in Nat /\ t + 1 \in 1 .. Len(tris)
      /\ DOMAIN tris = 1 .. Len(tris)
  BY DEF NoPlane
<1>3. tri \in [1 .. 3 -> Vertices] /\ f[t + 1] \in BOOLEAN
  <2>1. tris[t + 1] \in [1 .. 3 -> Vertices]
    BY <1>2
  <2>2. t + 1 \in 1 .. NoPlane(tris)
    BY <1>2
  <2>3. f[t + 1] \in BOOLEAN
    BY <2>2 DEF FacingOf
  <2> QED
    BY <1>1, <2>1, <2>3
<1>4. \A E : LitGrows(es, f, E, t, tri)
  <2>1. NextTriangle(tris, es, t, tri)
    BY <1>1 DEF NextTriangle
  <2> QED
    BY <2>1, LitByOneMore
<1>5. \A u \in 1 .. t + 1 : u \in 1 .. t \/ u = t + 1
  BY <1>2
<1>6. /\ VertexList(Vertices, vs)
      /\ \A u \in 1 .. t : ~f[u] => CornersOf(tris, u) \subseteq ToSet(vs)
      /\ acc.indices = sh \o own
      /\ Triples(NearOnes(vs), own)
      /\ \A v, w \in Vertices : v # w =>
           EdgeUses(Named(vs, own), v, w) = HowMany(LitAt(es, f, {{v, w}}), 3 * t)
  BY <1>1 DEF CapShows
<1>7. CASE f[t + 1] = TRUE
  <2>1. next = acc
    BY <1>7 DEF CapStep
  <2>2. ASSUME NEW v \in Vertices, NEW w \in Vertices, v # w
        PROVE  EdgeUses(Named(vs, own), v, w) = HowMany(LitAt(es, f, {{v, w}}), 3 * (t + 1))
    <3>1. HowMany(LitAt(es, f, {{v, w}}), 3 * (t + 1)) = HowMany(LitAt(es, f, {{v, w}}), 3 * t)
      <4>1. LitGrows(es, f, {{v, w}}, t, tri)
        BY <1>4
      <4> QED
        BY <1>7, <4>1 DEF LitGrows, Bit
    <3> QED
      BY <1>6, <2>2, <3>1
  <2>3. CapShows(tris, f, es, t + 1, sh, acc, own)
    BY <1>1, <1>5, <1>6, <1>7, <2>2 DEF CapShows
  <2> QED
    BY <2>1, <2>3
<1>8. CASE f[t + 1] = FALSE
  <2>1. PICK ws, q : ws = Collect(vs, tri) /\ q = Block(ws, tri)
    OBVIOUS
  <2>2. \/ next = [acc EXCEPT !.stop = TRUE]
        \/ next = [acc EXCEPT !.verts = ws, !.stop = TRUE]
        \/ next = [verts |-> ws, stop |-> FALSE, indices |-> acc.indices \o q]
    BY <1>1, <1>8, <2>1 DEF CapStep, Block
  <2>3. acc = [verts |-> acc.verts, indices |-> acc.indices, stop |-> acc.stop] /\ acc.indices \in Seq(Nat)
    BY DEF IsCap
  <2>4. ASSUME next = [acc EXCEPT !.stop = TRUE]
         PROVE  IsCap(next) /\ next.stop
    <3>1. next = [verts |-> acc.verts, indices |-> acc.indices, stop |-> TRUE]
      BY <2>3, <2>4
    <3> QED
      BY <2>3, <3>1 DEF IsCap
  <2>5. ASSUME next = [acc EXCEPT !.verts = ws, !.stop = TRUE]
         PROVE  IsCap(next) /\ next.stop
    <3>1. next = [verts |-> ws, indices |-> acc.indices, stop |-> TRUE]
      BY <2>3, <2>5
    <3> QED
      BY <2>3, <3>1 DEF IsCap
  <2>6. SUFFICES ASSUME next = [verts |-> ws, stop |-> FALSE, indices |-> acc.indices \o q]
                 PROVE  IsCap(next) /\ CapShows(tris, f, es, t + 1, sh, next, own \o q)
    BY <2>2, <2>4, <2>5
  <2>7. VertexList(Vertices, vs) /\ Triples(NearOnes(vs), own) /\ tri \in [1 .. 3 -> Vertices]
    BY <1>3, <1>6
  <2>8. /\ VertexList(Vertices, ws) /\ Begins(vs, ws)
        /\ ToSet(ws) = ToSet(vs) \cup {tri[1], tri[2], tri[3]}
    BY <2>1, <2>7, WithCorners
  <2>9. /\ Triple(NearOnes(ws), q) /\ Triples(NearOnes(ws), own \o q)
        /\ Triples(Vertices, Named(vs, own))
        /\ Named(ws, own \o q) = Named(vs, own) \o <<tri[3], tri[2], tri[1]>>
    BY <2>1, <2>7, NamedWithOneMore
  <2>10. next.verts = ws /\ next.indices = acc.indices \o q
    BY <2>6
  <2>11. NearOnes(vs) \subseteq Nat /\ NearOnes(ws) \subseteq Nat
    <3>1. \A k \in DOMAIN vs : k \in Nat /\ k >= 1
      BY <1>6 DEF VertexList
    <3>2. \A k \in DOMAIN ws : k \in Nat /\ k >= 1
      BY <2>8 DEF VertexList
    <3> QED
      BY <3>1, <3>2 DEF NearOnes
  <2>12. next.indices = sh \o (own \o q)
    <3>1. own \in Seq(Nat)
      <4>1. own \in Seq(NearOnes(vs))
        BY <1>6 DEF Triples
      <4> QED
        BY <2>11, <4>1
    <3>2. q \in Seq(Nat)
      <4>1. q \in Seq(NearOnes(ws))
        BY <2>9 DEF Triple
      <4> QED
        BY <2>11, <4>1
    <3>3. (sh \o own) \o q = sh \o (own \o q)
      BY <3>1, <3>2, JoinedThree
    <3>4. acc.indices = sh \o own
      BY <1>6
    <3> QED
      BY <2>10, <3>3, <3>4
  <2>13. \A u \in 1 .. t + 1 : ~f[u] => CornersOf(tris, u) \subseteq ToSet(ws)
    <3>1. CornersOf(tris, t + 1) \subseteq ToSet(ws)
      BY <1>1, <2>8 DEF CornersOf
    <3> QED
      BY <1>5, <1>6, <2>8, <3>1
  <2>14. ASSUME NEW v \in Vertices, NEW w \in Vertices, v # w
         PROVE  EdgeUses(Named(ws, own \o q), v, w) = HowMany(LitAt(es, f, {{v, w}}), 3 * (t + 1))
    <3>1. PICK a, b : a = Named(vs, own) /\ b = <<tri[3], tri[2], tri[1]>>
      OBVIOUS
    <3>2. tri[1] \in Vertices /\ tri[2] \in Vertices /\ tri[3] \in Vertices
      BY <2>7
    <3>3. Triple(Vertices, b)
      BY <3>1, <3>2 DEF Triple
    <3>4. Triples(Vertices, a)
      BY <2>9, <3>1
    <3>5. UsesGrow(a, b, v, w)
      BY <3>3, <3>4, UsesOfOneMore
    <3>6. PICK b1, b2, b3, h0, h1 : /\ b1 = Bit({b[1], b[2]} = {v, w})
                                    /\ b2 = Bit({b[2], b[3]} = {v, w})
                                    /\ b3 = Bit({b[3], b[1]} = {v, w})
                                    /\ h0 = HowMany(LitAt(es, f, {{v, w}}), 3 * t)
                                    /\ h1 = HowMany(LitAt(es, f, {{v, w}}), 3 * (t + 1))
      OBVIOUS
    <3>7. {b[1], b[2]} = {tri[2], tri[3]} /\ {b[2], b[3]} = {tri[1], tri[2]} /\ {b[3], b[1]} = {tri[3], tri[1]}
      <4>1. b[1] = tri[3] /\ b[2] = tri[2] /\ b[3] = tri[1]
        BY <3>1
      <4> QED
        BY <4>1
    <3>8. /\ b1 = Bit({tri[2], tri[3]} \in {{v, w}} /\ ~f[t + 1])
          /\ b2 = Bit({tri[1], tri[2]} \in {{v, w}} /\ ~f[t + 1])
          /\ b3 = Bit({tri[3], tri[1]} \in {{v, w}} /\ ~f[t + 1])
      <4>1. {tri[2], tri[3]} \in {{v, w}} <=> {b[1], b[2]} = {v, w}
        BY <3>7
      <4>2. {tri[1], tri[2]} \in {{v, w}} <=> {b[2], b[3]} = {v, w}
        BY <3>7
      <4>3. {tri[3], tri[1]} \in {{v, w}} <=> {b[3], b[1]} = {v, w}
        BY <3>7
      <4> QED
        BY <1>8, <3>6, <4>1, <4>2, <4>3 DEF Bit
    <3>9. h0 \in Nat /\ h1 = h0 + b2 + b1 + b3
      <4>1. LitGrows(es, f, {{v, w}}, t, tri)
        BY <1>4
      <4> QED
        BY <3>6, <3>8, <4>1 DEF LitGrows
    <3>10. b1 \in Nat /\ b2 \in Nat /\ b3 \in Nat
      BY <3>6 DEF Bit
    <3>11. EdgeUses(a \o b, v, w) = h0 + (b1 + b2 + b3)
      <4>1. EdgeUses(a, v, w) = h0
        BY <1>6, <2>14, <3>1, <3>6
      <4> QED
        BY <3>5, <3>6, <4>1 DEF UsesGrow, Touches
    <3>12. Named(ws, own \o q) = a \o b
      BY <2>9, <3>1
    <3>13. EdgeUses(a \o b, v, w) = h1
      BY <3>9, <3>10, <3>11
    <3> QED
      BY <3>6, <3>12, <3>13
  <2>15. CapShows(tris, f, es, t + 1, sh, next, own \o q)
    BY <2>8, <2>9, <2>10, <2>12, <2>13, <2>14 DEF CapShows
  <2>16. q \in Seq(Nat)
    <3>1. q \in Seq(NearOnes(ws))
      BY <2>9 DEF Triple
    <3> QED
      BY <2>11, <3>1
  <2>17. IsCap(next)
    <3>1. acc.indices \o q \in Seq(Nat)
      BY <2>3, <2>16, LengthOfBoth
    <3> QED
      BY <2>6, <3>1 DEF IsCap
  <2> QED
    BY <2>15, <2>17
<1> QED
  BY <1>3, <1>7, <1>8

\* The cap, when it did not overflow.
LEMMA CapIsShown ==
  ASSUME NEW tris \in Seq([1 .. 3 -> Vertices]), NEW es, es = EdgesOf(tris),
         NEW f, FacingOf(NoPlane(tris), f), shadowIndices \in Seq(Nat),
         NEW cap, cap = Cap(tris, f)
  PROVE  /\ cap.indices \in Seq(Nat)
         /\ cap.stop \/ \E own : CapShows(tris, f, es, Len(tris), shadowIndices, cap, own)
<1>1. PICK N, sh : N = Len(tris) /\ sh = shadowIndices
  OBVIOUS
<1>2. N \in Nat /\ sh \in Seq(Nat)
  BY <1>1
<1>3. PICK g : /\ g = [t \in 0 .. N |->
                          IF t = 0 THEN [verts |-> <<>>, indices |-> sh, stop |-> FALSE]
                          ELSE CapStep(g[t - 1], tris[t], f[t])]
               /\ cap = g[N]
  BY <1>1, <1>2, CapIsMade
<1> DEFINE Holds(t) ==
      IsCap(g[t]) /\ (g[t].stop \/ \E own : CapShows(tris, f, es, t, sh, g[t], own))
<1>4. Holds(0)
  <2>1. PICK acc : acc = g[0]
    OBVIOUS
  <2>2. acc = [verts |-> <<>>, indices |-> sh, stop |-> FALSE]
    BY <1>2, <1>3, <2>1
  <2>3. acc.verts = <<>> /\ acc.indices = sh \o <<>>
    BY <1>2, <2>2
  <2>4. VertexList(Vertices, <<>>)
    BY DEF VertexList, Distinct
  <2>5. \A E : HowMany(LitAt(es, f, E), 0) = 0
    BY HowManyNone
  <2>6. Named(<<>>, <<>>) = <<>>
    BY DEF Named
  <2>7. \A v, w : EdgeUses(<<>>, v, w) = 0
    <3> TAKE v, w
    <3>1. <<>> \in Seq(Nat) /\ Len(<<>>) = 0
      OBVIOUS
    <3>2. EdgeUses(<<>>, v, w) = HowMany(EndsAt(<<>>, v, w), 0)
      BY <3>1, UsesAreCounted
    <3> QED
      BY <3>2, HowManyNone
  <2>8. Triples(NearOnes(<<>>), <<>>)
    BY DEF Triples
  <2>9. CapShows(tris, f, es, 0, sh, acc, <<>>)
    BY <2>3, <2>4, <2>5, <2>6, <2>7, <2>8 DEF CapShows
  <2>10. IsCap(acc)
    BY <1>2, <2>2 DEF IsCap
  <2> QED
    BY <2>1, <2>9, <2>10
<1>5. ASSUME NEW t \in 0 .. N, Holds(t), t < N
      PROVE  Holds(t + 1)
  <2>1. t \in Nat /\ t + 1 \in 0 .. N /\ t + 1 # 0 /\ (t + 1) - 1 = t /\ t \in 0 .. Len(tris) - 1
    BY <1>1, <1>2, <1>5
  <2>2. PICK acc, next : acc = g[t] /\ next = g[t + 1]
    OBVIOUS
  <2>3. next = CapStep(acc, tris[t + 1], f[t + 1])
    BY <1>3, <2>1, <2>2
  <2>4. CASE acc.stop
    <3>1. next = acc
      BY <2>3, <2>4 DEF CapStep
    <3> QED
      BY <1>5, <2>2, <2>4, <3>1
  <2>5. CASE ~acc.stop
    <3>1. PICK own : CapShows(tris, f, es, t, sh, acc, own)
      BY <1>5, <2>2, <2>5
    <3>2. IsCap(acc)
      BY <1>5, <2>2
    <3>3. IsCap(next) /\ (next.stop \/ \E more : CapShows(tris, f, es, t + 1, sh, next, more))
      BY <1>2, <2>1, <2>3, <2>5, <3>1, <3>2, CapGoesOn
    <3> QED
      BY <2>2, <3>3
  <2> QED
    BY <2>4, <2>5
<1> HIDE DEF Holds
<1>6. PICK T : T = {t \in 0 .. N : Holds(t)}
  OBVIOUS
<1>7. 0 \in T
  BY <1>2, <1>4, <1>6
<1>8. \A t \in 0 .. N : t \in T /\ t < N => t + 1 \in T
  <2>1. ASSUME NEW t \in 0 .. N, t \in T, t < N
        PROVE  t + 1 \in T
    <3>1. Holds(t)
      BY <1>6, <2>1
    <3>2. Holds(t + 1)
      BY <1>5, <2>1, <3>1
    <3>3. t + 1 \in 0 .. N
      BY <1>2, <2>1
    <3> QED
      BY <1>6, <3>2, <3>3
  <2> QED
    BY <2>1
<1>9. N \in T
  <2>1. \A t \in 0 .. N : t \in T
    BY <1>2, <1>7, <1>8, UpTo
  <2> QED
    BY <1>2, <2>1
<1>10. Holds(N)
  BY <1>6, <1>9
<1> QED
  BY <1>1, <1>3, <1>10 DEF Holds, IsCap

------------------------------------------------------------------------------
(* The sides.                                                              *)

\* The recursive function of R_AddSilEdges.
IsAdded(g, edges, cap, f) ==
  /\ g = [n \in 0 .. Len(edges) |->
             IF n = 0 THEN [indices |-> cap.indices, stop |-> FALSE]
             ELSE AddSilEdge(g[n - 1], edges[n], cap.verts, f)]
  /\ R_AddSilEdges(edges, cap, f) = g[Len(edges)]

\* It is defined on all edges.
LEMMA AddedIsMade ==
  ASSUME NEW edges, Len(edges) \in Nat, NEW cap, NEW f
  PROVE  \E g : IsAdded(g, edges, cap, f)
<1> DEFINE start == [indices |-> cap.indices, stop |-> FALSE]
           Is(h, m) == h = [n \in 0 .. m |-> IF n = 0 THEN start
                              ELSE AddSilEdge(h[n - 1], edges[n], cap.verts, f)]
<1>1. PICK N : N = Len(edges)
  OBVIOUS
<1>2. N \in Nat
  BY <1>1
<1> HIDE DEF start
<1>3. PICK T : T = {m \in 0 .. N : \E h : Is(h, m)}
  OBVIOUS
<1>4. 0 \in T
  <2>1. PICK h : h = [n \in 0 .. 0 |-> start]
    OBVIOUS
  <2>2. Is(h, 0)
    BY <2>1
  <2> QED
    BY <1>2, <1>3, <2>2
<1>5. ASSUME NEW m \in 0 .. N, m \in T, m < N
      PROVE  m + 1 \in T
  <2>1. PICK h : Is(h, m)
    BY <1>3, <1>5
  <2>2. PICK k : k = [n \in 0 .. m + 1 |-> IF n \in 0 .. m THEN h[n]
                        ELSE AddSilEdge(h[n - 1], edges[n], cap.verts, f)]
    OBVIOUS
  <2>3. \A n \in 0 .. m : k[n] = h[n]
    BY <1>2, <2>2
  <2>4. \A n \in 0 .. m + 1 :
          k[n] = IF n = 0 THEN start ELSE AddSilEdge(k[n - 1], edges[n], cap.verts, f)
    <3> TAKE n \in 0 .. m + 1
    <3>1. CASE n \in 0 .. m
      <4>1. n = 0 \/ n - 1 \in 0 .. m
        BY <3>1
      <4> QED
        BY <2>1, <2>3, <3>1, <4>1
    <3>2. CASE n = m + 1
      <4>1. n # 0 /\ n - 1 \in 0 .. m /\ n \notin 0 .. m
        BY <3>2
      <4> QED
        BY <2>2, <2>3, <4>1
    <3> QED
      BY <3>1, <3>2
  <2>5. Is(k, m + 1)
    BY <2>2, <2>4
  <2>6. m + 1 \in 0 .. N
    BY <1>2, <1>5
  <2> QED
    BY <1>3, <2>5, <2>6
<1> HIDE DEF Is
<1>6. \A m \in 0 .. N : m \in T
  BY <1>2, <1>4, <1>5, UpTo
<1>7. N \in T
  BY <1>2, <1>6
<1>8. \E h : Is(h, N)
  BY <1>3, <1>7
<1> QED
  BY <1>1, <1>8 DEF R_AddSilEdges, IsAdded, Is, start

\* The diagonal of a quad, from its near vertex to its far one.
DiagonalOf(x, y, ordered) == IF ordered THEN {x + 1, y} ELSE {x, y + 1}

\* How many edges of a quad are between a and b: its four sides, and its diagonal, which both
\* triangles have.
QuadTouches(x, y, ordered, a, b) ==
  Bit({x, y} = {a, b}) + Bit({x + 1, y + 1} = {a, b}) + Bit({x, x + 1} = {a, b})
    + Bit({y, y + 1} = {a, b}) + 2 * Bit(DiagonalOf(x, y, ordered) = {a, b})
QuadEdges(x, y, ordered) ==
  {{x, y}, {x + 1, y + 1}, {x, x + 1}, {y, y + 1}, DiagonalOf(x, y, ordered)}

EdgesIn(q, G) == {q[1], q[2]} \in G /\ {q[2], q[3]} \in G /\ {q[3], q[1]} \in G
TwoTriples(X, x, y, ordered, quad, p, q) ==
  /\ Triple(X, p) /\ Triple(X, q) /\ quad = p \o q
  /\ EdgesIn(p, QuadEdges(x, y, ordered)) /\ EdgesIn(q, QuadEdges(x, y, ordered))
  /\ \A a, b : Touches(p, a, b) + Touches(q, a, b) = QuadTouches(x, y, ordered, a, b)

\* Six indices are two triangles.
LEMMA SixAreTwoThrees ==
  ASSUME NEW X, NEW p, Triple(X, p), NEW q, Triple(X, q)
  PROVE  <<p[1], p[2], p[3], q[1], q[2], q[3]>> = p \o q
<1>1. PICK r : r = p \o q
  OBVIOUS
<1>2. r \in Seq(X) /\ Len(r) = 6 /\ \A n \in 1 .. 6 : r[n] = IF n <= 3 THEN p[n] ELSE q[n - 3]
  <2>1. p \in Seq(X) /\ q \in Seq(X) /\ Len(p) = 3 /\ Len(q) = 3
    BY DEF Triple
  <2>2. /\ r \in Seq(X) /\ Len(r) = Len(p) + Len(q)
        /\ \A n \in 1 .. Len(p) + Len(q) : r[n] = IF n <= Len(p) THEN p[n] ELSE q[n - Len(p)]
    BY <1>1, <2>1, ConcatProperties
  <2> QED
    BY <2>1, <2>2
<1>3. r[1] = p[1] /\ r[2] = p[2] /\ r[3] = p[3] /\ r[4] = q[1] /\ r[5] = q[2] /\ r[6] = q[3]
  BY <1>2
<1>4. r = [n \in 1 .. 6 |-> r[n]]
  BY <1>2
<1>5. r = <<p[1], p[2], p[3], q[1], q[2], q[3]>>
  BY <1>3, <1>4
<1> QED
  BY <1>1, <1>5

\* The two triangles of a quad.
LEMMA QuadIsTwoTriples ==
  ASSUME NEW X, NEW x \in Nat, NEW y \in Nat, {x, x + 1, y, y + 1} \subseteq X,
         NEW outward \in BOOLEAN, NEW ordered \in BOOLEAN
  PROVE  \E p, q : TwoTriples(X, x, y, ordered, Quad(x, y, outward, ordered), p, q)
<1>1. PICK w, z : w = x + 1 /\ z = y + 1
  OBVIOUS
<1>2. x \in X /\ w \in X /\ y \in X /\ z \in X
  BY <1>1
<1>3. PICK D : D = DiagonalOf(x, y, ordered)
  OBVIOUS
<1>4. D = IF ordered THEN {w, y} ELSE {x, z}
  BY <1>1, <1>3 DEF DiagonalOf
<1>5. QuadEdges(x, y, ordered) = {{x, y}, {w, z}, {x, w}, {y, z}, D}
  BY <1>1, <1>3 DEF QuadEdges
<1>6. \A a, b : QuadTouches(x, y, ordered, a, b) =
        Bit({x, y} = {a, b}) + Bit({w, z} = {a, b}) + Bit({x, w} = {a, b})
          + Bit({y, z} = {a, b}) + 2 * Bit(D = {a, b})
  BY <1>1, <1>3 DEF QuadTouches
<1>7. \A P : Bit(P) \in Nat
  BY DEF Bit
<1>8. CASE outward /\ ordered
  <2>1. Quad(x, y, outward, ordered) = <<x, w, y, y, w, z>>
    BY <1>1, <1>8 DEF Quad
  <2>2. PICK p, q : p = <<x, w, y>> /\ q = <<y, w, z>>
    OBVIOUS
  <2>3. Triple(X, p) /\ Triple(X, q) /\ Quad(x, y, outward, ordered) = p \o q
    <3>1. Triple(X, p) /\ Triple(X, q)
      BY <1>2, <2>2 DEF Triple
    <3>2. <<p[1], p[2], p[3], q[1], q[2], q[3]>> = p \o q
      BY <3>1, SixAreTwoThrees
    <3> QED
      BY <2>1, <2>2, <3>1, <3>2
  <2>4. /\ {p[1], p[2]} = {x, w} /\ {p[2], p[3]} = D /\ {p[3], p[1]} = {x, y}
        /\ {q[1], q[2]} = D /\ {q[2], q[3]} = {w, z} /\ {q[3], q[1]} = {y, z}
    BY <1>4, <1>8, <2>2
  <2>5. EdgesIn(p, QuadEdges(x, y, ordered)) /\ EdgesIn(q, QuadEdges(x, y, ordered))
    BY <1>5, <2>4 DEF EdgesIn
  <2>6. ASSUME NEW a, NEW b
        PROVE  Touches(p, a, b) + Touches(q, a, b) = QuadTouches(x, y, ordered, a, b)
    <3>1. PICK h1, h2, h3, h4, h5 :
            /\ h1 = Bit({x, y} = {a, b}) /\ h2 = Bit({w, z} = {a, b}) /\ h3 = Bit({x, w} = {a, b})
            /\ h4 = Bit({y, z} = {a, b}) /\ h5 = Bit(D = {a, b})
      OBVIOUS
    <3>2. Touches(p, a, b) = h3 + h5 + h1
      BY <2>4, <3>1 DEF Touches
    <3>3. Touches(q, a, b) = h5 + h2 + h4
      BY <2>4, <3>1 DEF Touches
    <3>4. QuadTouches(x, y, ordered, a, b) = h1 + h2 + h3 + h4 + 2 * h5
      BY <1>1, <1>3, <3>1 DEF QuadTouches
    <3>5. h1 \in Nat /\ h2 \in Nat /\ h3 \in Nat /\ h4 \in Nat /\ h5 \in Nat
      BY <1>7, <3>1
    <3> QED
      BY <3>2, <3>3, <3>4, <3>5
  <2>7. TwoTriples(X, x, y, ordered, Quad(x, y, outward, ordered), p, q)
    BY <2>3, <2>5, <2>6 DEF TwoTriples
  <2> QED
    BY <2>7
<1>9. CASE outward /\ ~ordered
  <2>1. Quad(x, y, outward, ordered) = <<x, z, y, x, w, z>>
    BY <1>1, <1>9 DEF Quad
  <2>2. PICK p, q : p = <<x, z, y>> /\ q = <<x, w, z>>
    OBVIOUS
  <2>3. Triple(X, p) /\ Triple(X, q) /\ Quad(x, y, outward, ordered) = p \o q
    <3>1. Triple(X, p) /\ Triple(X, q)
      BY <1>2, <2>2 DEF Triple
    <3>2. <<p[1], p[2], p[3], q[1], q[2], q[3]>> = p \o q
      BY <3>1, SixAreTwoThrees
    <3> QED
      BY <2>1, <2>2, <3>1, <3>2
  <2>4. /\ {p[1], p[2]} = D /\ {p[2], p[3]} = {y, z} /\ {p[3], p[1]} = {x, y}
        /\ {q[1], q[2]} = {x, w} /\ {q[2], q[3]} = {w, z} /\ {q[3], q[1]} = D
    BY <1>4, <1>9, <2>2
  <2>5. EdgesIn(p, QuadEdges(x, y, ordered)) /\ EdgesIn(q, QuadEdges(x, y, ordered))
    BY <1>5, <2>4 DEF EdgesIn
  <2>6. ASSUME NEW a, NEW b
        PROVE  Touches(p, a, b) + Touches(q, a, b) = QuadTouches(x, y, ordered, a, b)
    <3>1. PICK h1, h2, h3, h4, h5 :
            /\ h1 = Bit({x, y} = {a, b}) /\ h2 = Bit({w, z} = {a, b}) /\ h3 = Bit({x, w} = {a, b})
            /\ h4 = Bit({y, z} = {a, b}) /\ h5 = Bit(D = {a, b})
      OBVIOUS
    <3>2. Touches(p, a, b) = h5 + h4 + h1
      BY <2>4, <3>1 DEF Touches
    <3>3. Touches(q, a, b) = h3 + h2 + h5
      BY <2>4, <3>1 DEF Touches
    <3>4. QuadTouches(x, y, ordered, a, b) = h1 + h2 + h3 + h4 + 2 * h5
      BY <1>1, <1>3, <3>1 DEF QuadTouches
    <3>5. h1 \in Nat /\ h2 \in Nat /\ h3 \in Nat /\ h4 \in Nat /\ h5 \in Nat
      BY <1>7, <3>1
    <3> QED
      BY <3>2, <3>3, <3>4, <3>5
  <2>7. TwoTriples(X, x, y, ordered, Quad(x, y, outward, ordered), p, q)
    BY <2>3, <2>5, <2>6 DEF TwoTriples
  <2> QED
    BY <2>7
<1>10. CASE ~outward /\ ordered
  <2>1. Quad(x, y, outward, ordered) = <<x, y, w, y, z, w>>
    BY <1>1, <1>10 DEF Quad
  <2>2. PICK p, q : p = <<x, y, w>> /\ q = <<y, z, w>>
    OBVIOUS
  <2>3. Triple(X, p) /\ Triple(X, q) /\ Quad(x, y, outward, ordered) = p \o q
    <3>1. Triple(X, p) /\ Triple(X, q)
      BY <1>2, <2>2 DEF Triple
    <3>2. <<p[1], p[2], p[3], q[1], q[2], q[3]>> = p \o q
      BY <3>1, SixAreTwoThrees
    <3> QED
      BY <2>1, <2>2, <3>1, <3>2
  <2>4. /\ {p[1], p[2]} = {x, y} /\ {p[2], p[3]} = D /\ {p[3], p[1]} = {x, w}
        /\ {q[1], q[2]} = {y, z} /\ {q[2], q[3]} = {w, z} /\ {q[3], q[1]} = D
    BY <1>4, <1>10, <2>2
  <2>5. EdgesIn(p, QuadEdges(x, y, ordered)) /\ EdgesIn(q, QuadEdges(x, y, ordered))
    BY <1>5, <2>4 DEF EdgesIn
  <2>6. ASSUME NEW a, NEW b
        PROVE  Touches(p, a, b) + Touches(q, a, b) = QuadTouches(x, y, ordered, a, b)
    <3>1. PICK h1, h2, h3, h4, h5 :
            /\ h1 = Bit({x, y} = {a, b}) /\ h2 = Bit({w, z} = {a, b}) /\ h3 = Bit({x, w} = {a, b})
            /\ h4 = Bit({y, z} = {a, b}) /\ h5 = Bit(D = {a, b})
      OBVIOUS
    <3>2. Touches(p, a, b) = h1 + h5 + h3
      BY <2>4, <3>1 DEF Touches
    <3>3. Touches(q, a, b) = h4 + h2 + h5
      BY <2>4, <3>1 DEF Touches
    <3>4. QuadTouches(x, y, ordered, a, b) = h1 + h2 + h3 + h4 + 2 * h5
      BY <1>1, <1>3, <3>1 DEF QuadTouches
    <3>5. h1 \in Nat /\ h2 \in Nat /\ h3 \in Nat /\ h4 \in Nat /\ h5 \in Nat
      BY <1>7, <3>1
    <3> QED
      BY <3>2, <3>3, <3>4, <3>5
  <2>7. TwoTriples(X, x, y, ordered, Quad(x, y, outward, ordered), p, q)
    BY <2>3, <2>5, <2>6 DEF TwoTriples
  <2> QED
    BY <2>7
<1>11. CASE ~outward /\ ~ordered
  <2>1. Quad(x, y, outward, ordered) = <<x, y, z, x, z, w>>
    BY <1>1, <1>11 DEF Quad
  <2>2. PICK p, q : p = <<x, y, z>> /\ q = <<x, z, w>>
    OBVIOUS
  <2>3. Triple(X, p) /\ Triple(X, q) /\ Quad(x, y, outward, ordered) = p \o q
    <3>1. Triple(X, p) /\ Triple(X, q)
      BY <1>2, <2>2 DEF Triple
    <3>2. <<p[1], p[2], p[3], q[1], q[2], q[3]>> = p \o q
      BY <3>1, SixAreTwoThrees
    <3> QED
      BY <2>1, <2>2, <3>1, <3>2
  <2>4. /\ {p[1], p[2]} = {x, y} /\ {p[2], p[3]} = {y, z} /\ {p[3], p[1]} = D
        /\ {q[1], q[2]} = D /\ {q[2], q[3]} = {w, z} /\ {q[3], q[1]} = {x, w}
    BY <1>4, <1>11, <2>2
  <2>5. EdgesIn(p, QuadEdges(x, y, ordered)) /\ EdgesIn(q, QuadEdges(x, y, ordered))
    BY <1>5, <2>4 DEF EdgesIn
  <2>6. ASSUME NEW a, NEW b
        PROVE  Touches(p, a, b) + Touches(q, a, b) = QuadTouches(x, y, ordered, a, b)
    <3>1. PICK h1, h2, h3, h4, h5 :
            /\ h1 = Bit({x, y} = {a, b}) /\ h2 = Bit({w, z} = {a, b}) /\ h3 = Bit({x, w} = {a, b})
            /\ h4 = Bit({y, z} = {a, b}) /\ h5 = Bit(D = {a, b})
      OBVIOUS
    <3>2. Touches(p, a, b) = h1 + h4 + h5
      BY <2>4, <3>1 DEF Touches
    <3>3. Touches(q, a, b) = h5 + h2 + h3
      BY <2>4, <3>1 DEF Touches
    <3>4. QuadTouches(x, y, ordered, a, b) = h1 + h2 + h3 + h4 + 2 * h5
      BY <1>1, <1>3, <3>1 DEF QuadTouches
    <3>5. h1 \in Nat /\ h2 \in Nat /\ h3 \in Nat /\ h4 \in Nat /\ h5 \in Nat
      BY <1>7, <3>1
    <3> QED
      BY <3>2, <3>3, <3>4, <3>5
  <2>7. TwoTriples(X, x, y, ordered, Quad(x, y, outward, ordered), p, q)
    BY <2>3, <2>5, <2>6 DEF TwoTriples
  <2> QED
    BY <2>7
<1> QED
  BY <1>8, <1>9, <1>10, <1>11

\* The pairs of vertices whose silhouette edges have an edge between a and b in their quads.
Wanted(verts, a, b) ==
  IF b % 2 = 0 THEN {{VertAt(verts, a), VertAt(verts, b)}}
  ELSE IF b = a + 1 THEN {{VertAt(verts, a), w} : w \in Vertices \ {VertAt(verts, a)}}
  ELSE {}

Indices(verts) == 0 .. 2 * Len(verts) - 1

\* An even index is a near one.
LEMMA EvenIsNear ==
  ASSUME NEW V, NEW verts \in Seq(V), NEW a \in Indices(verts), a % 2 = 0
  PROVE  a \in NearOnes(verts)
<1>1. PICK k : k = a \div 2
  OBVIOUS
<1>2. a \in Nat /\ Len(verts) \in Nat /\ a < 2 * Len(verts)
  BY DEF Indices
<1>3. k \in Nat /\ a = 2 * k
  BY <1>1, <1>2
<1>4. k + 1 \in DOMAIN verts /\ a = 2 * ((k + 1) - 1)
  BY <1>2, <1>3
<1> QED
  BY <1>4 DEF NearOnes

\* A near index and its far one are indices.
LEMMA NearAreIndices ==
  ASSUME NEW V, NEW verts \in Seq(V)
  PROVE  \A x \in NearOnes(verts) : x \in Indices(verts) /\ x + 1 \in Indices(verts)
<1> TAKE x \in NearOnes(verts)
<1>1. x \in Nat /\ x + 1 < 2 * Len(verts)
  BY NearIndices
<1>2. Len(verts) \in Nat
  OBVIOUS
<1> QED
  BY <1>1, <1>2 DEF Indices

\* Different near indices stand for different vertices.
LEMMA OneVertexOneIndex ==
  ASSUME NEW V, NEW verts, VertexList(V, verts), NEW x \in NearOnes(verts), NEW y \in NearOnes(verts)
  PROVE  VertAt(verts, x) \in V /\ (VertAt(verts, x) = VertAt(verts, y) => x = y)
<1>1. verts \in Seq(V) /\ Distinct(verts)
  BY DEF VertexList
<1>2. PICK k, l : k = (x \div 2) + 1 /\ l = (y \div 2) + 1
  OBVIOUS
<1>3. k \in DOMAIN verts /\ x = 2 * (k - 1)
  BY <1>1, <1>2, NearIndices
<1>4. l \in DOMAIN verts /\ y = 2 * (l - 1)
  BY <1>1, <1>2, NearIndices
<1>5. VertAt(verts, x) = verts[k] /\ VertAt(verts, y) = verts[l]
  BY <1>2 DEF VertAt
<1> QED
  BY <1>1, <1>3, <1>4, <1>5 DEF Distinct

\* The quad of a silhouette edge has an odd number of edges between a and b when it is one
\* of those wanted, and an even number otherwise.
QuadFits(verts, x, y, ordered, a, b) ==
  /\ QuadTouches(x, y, ordered, a, b) \in Nat
  /\ (QuadTouches(x, y, ordered, a, b)
        + Bit({VertAt(verts, x), VertAt(verts, y)} \in Wanted(verts, a, b))) % 2 = 0

\* A quad touches an edge as often as it is wanted there, but for an even number.
LEMMA QuadParity ==
  ASSUME NEW verts, VertexList(Vertices, verts), NEW x \in NearOnes(verts), NEW y \in NearOnes(verts),
         x # y, NEW ordered \in BOOLEAN,
         NEW a \in NearOnes(verts), NEW b \in Indices(verts), a # b
  PROVE  QuadFits(verts, x, y, ordered, a, b)
<1>1. PICK n1, n2, n3, n4, n5, want :
        /\ n1 = Bit({x, y} = {a, b}) /\ n2 = Bit({x + 1, y + 1} = {a, b})
        /\ n3 = Bit({x, x + 1} = {a, b}) /\ n4 = Bit({y, y + 1} = {a, b})
        /\ n5 = Bit(DiagonalOf(x, y, ordered) = {a, b})
        /\ want = Bit({VertAt(verts, x), VertAt(verts, y)} \in Wanted(verts, a, b))
  OBVIOUS
<1>2. n1 \in {0, 1} /\ n2 \in {0, 1} /\ n3 \in {0, 1} /\ n4 \in {0, 1} /\ n5 \in {0, 1} /\ want \in {0, 1}
  BY <1>1 DEF Bit
<1>3. QuadTouches(x, y, ordered, a, b) = n1 + n2 + n3 + n4 + 2 * n5
  BY <1>1 DEF QuadTouches
<1>4. verts \in Seq(Vertices)
  BY DEF VertexList
<1>5. x \in Nat /\ y \in Nat /\ a \in Nat /\ b \in Nat
  <2>1. b \in Nat
    BY <1>4 DEF Indices
  <2> QED
    BY <1>4, <2>1, NearIndices
<1>6. /\ x % 2 = 0 /\ y % 2 = 0 /\ a % 2 = 0
      /\ (x + 1) % 2 = 1 /\ (y + 1) % 2 = 1
  BY <1>4, NearIndices
<1>7. a # x + 1 /\ a # y + 1
  BY <1>6
<1>8. n2 = 0
  BY <1>1, <1>7 DEF Bit
<1>9. PICK vx, vy, va : vx = VertAt(verts, x) /\ vy = VertAt(verts, y) /\ va = VertAt(verts, a)
  OBVIOUS
<1>10. /\ vx \in Vertices /\ vy \in Vertices /\ va \in Vertices
       /\ (vx = vy => x = y) /\ (vx = va => x = a) /\ (vy = va => y = a)
       /\ (x = a => vx = va) /\ (y = a => vy = va)
  BY <1>9, OneVertexOneIndex
<1>11. (n1 + n2 + n3 + n4 + want) % 2 = 0
  <2>1. CASE b % 2 = 0
    <3>1. PICK vb : vb = VertAt(verts, b)
      OBVIOUS
    <3>2. b \in NearOnes(verts)
      BY <1>4, <2>1, EvenIsNear
    <3>3. (vx = vb => x = b) /\ (vy = vb => y = b) /\ (x = b => vx = vb) /\ (y = b => vy = vb)
      BY <1>9, <3>1, <3>2, OneVertexOneIndex
    <3>4. b # x + 1 /\ b # y + 1
      BY <1>6, <2>1
    <3>5. n3 = 0 /\ n4 = 0
      BY <1>1, <1>7, <3>4 DEF Bit
    <3>6. {vx, vy} \in Wanted(verts, a, b) <=> {vx, vy} = {va, vb}
      BY <1>9, <2>1, <3>1 DEF Wanted
    <3>7. {vx, vy} = {va, vb} <=> {x, y} = {a, b}
      <4>1. {vx, vy} = {va, vb} <=> (vx = va /\ vy = vb) \/ (vx = vb /\ vy = va)
        OBVIOUS
      <4>2. {x, y} = {a, b} <=> (x = a /\ y = b) \/ (x = b /\ y = a)
        OBVIOUS
      <4> QED
        BY <1>10, <3>3, <4>1, <4>2
    <3>8. n1 = want
      BY <1>1, <1>9, <3>6, <3>7 DEF Bit
    <3> QED
      BY <1>2, <1>8, <3>5, <3>8
  <2>2. CASE b % 2 # 0
    <3>1. b # x /\ b # y
      BY <1>6, <2>2
    <3>2. n1 = 0
      BY <1>1, <3>1 DEF Bit
    <3>3. n3 = Bit(x = a /\ b = a + 1) /\ n4 = Bit(y = a /\ b = a + 1)
      <4>1. {x, x + 1} = {a, b} <=> x = a /\ b = a + 1
        BY <1>7, <3>1
      <4>2. {y, y + 1} = {a, b} <=> y = a /\ b = a + 1
        BY <1>7, <3>1
      <4> QED
        BY <1>1, <4>1, <4>2 DEF Bit
    <3>4. CASE b = a + 1
      <4>1. Wanted(verts, a, b) = {{va, w} : w \in Vertices \ {va}}
        BY <1>9, <2>2, <3>4 DEF Wanted
      <4>2. {vx, vy} \in Wanted(verts, a, b) <=> vx = va \/ vy = va
        <5>1. ASSUME vx = va PROVE {vx, vy} \in Wanted(verts, a, b)
          <6>1. vy \in Vertices \ {va}
            BY <1>10, <5>1
          <6>2. {vx, vy} = {va, vy}
            BY <5>1
          <6> QED
            BY <4>1, <6>1, <6>2
        <5>2. ASSUME vy = va PROVE {vx, vy} \in Wanted(verts, a, b)
          <6>1. vx \in Vertices \ {va}
            BY <1>10, <5>2
          <6>2. {vx, vy} = {va, vx}
            BY <5>2
          <6> QED
            BY <4>1, <6>1, <6>2
        <5>3. ASSUME {vx, vy} \in Wanted(verts, a, b) PROVE vx = va \/ vy = va
          <6>1. PICK w : {vx, vy} = {va, w}
            BY <4>1, <5>3
          <6> QED
            BY <6>1
        <5> QED
          BY <5>1, <5>2, <5>3
      <4>3. want = Bit(x = a \/ y = a)
        BY <1>1, <1>9, <1>10, <4>2 DEF Bit
      <4> QED
        BY <1>8, <3>2, <3>3, <3>4, <4>3 DEF Bit
    <3>5. CASE b # a + 1
      <4>1. Wanted(verts, a, b) = {}
        BY <2>2, <3>5 DEF Wanted
      <4>2. want = 0
        BY <1>1, <4>1 DEF Bit
      <4> QED
        BY <1>8, <3>2, <3>3, <3>5, <4>2 DEF Bit
    <3> QED
      BY <3>4, <3>5
  <2> QED
    BY <2>1, <2>2
<1>12. (n1 + n2 + n3 + n4 + 2 * n5 + want) % 2 = 0
  BY <1>2, <1>11
<1>13. n1 + n2 + n3 + n4 + 2 * n5 \in Nat
  BY <1>2
<1> QED
  BY <1>1, <1>3, <1>12, <1>13 DEF QuadFits

\* Triangles are cut along the diagonals that PointsOrdered says: an edge from a near to a
\* far vertex is that of one vertex, or it goes down.
CutRight(verts, E) ==
  \A x, y \in E : x % 2 = 0 /\ y % 2 = 1 =>
    \/ VertAt(verts, x) = VertAt(verts, y)
    \/ PointHash(VertAt(verts, y)) <= PointHash(VertAt(verts, x))
AllIn(own, G) == \A n \in DOMAIN own : Ends(own, n) \in G
Cuts(verts) == {E \in SUBSET Indices(verts) : CutRight(verts, E)}

\* One more triangle whose edges are allowed.
LEMMA AllInWithOne ==
  ASSUME NEW X, NEW own, Triples(X, own), NEW q, Triple(X, q), NEW G, AllIn(own, G), EdgesIn(q, G)
  PROVE  AllIn(own \o q, G)
<1>1. own \in Seq(X) /\ q \in Seq(X) /\ Len(own) % 3 = 0 /\ Len(q) = 3
  BY DEF Triples, Triple
<1>2. PICK all, L : all = own \o q /\ L = Len(own)
  OBVIOUS
<1>3. L \in Nat /\ DOMAIN own = 1 .. L /\ DOMAIN all = 1 .. L + 3
  <2>1. all \in Seq(X) /\ Len(all) = Len(own) + Len(q) /\ Len(own) \in Nat
    BY <1>1, <1>2, LengthOfBoth
  <2> QED
    BY <1>1, <1>2, <2>1
<1>4. /\ \A n \in 1 .. L : Ends(all, n) = Ends(own, n)
      /\ Ends(all, L + 1) = {q[1], q[2]}
      /\ Ends(all, L + 2) = {q[2], q[3]}
      /\ Ends(all, L + 3) = {q[3], q[1]}
  <2>1. /\ \A n \in 1 .. Len(own) : Ends(own \o q, n) = Ends(own, n)
        /\ Ends(own \o q, Len(own) + 1) = {q[1], q[2]}
        /\ Ends(own \o q, Len(own) + 2) = {q[2], q[3]}
        /\ Ends(own \o q, Len(own) + 3) = {q[3], q[1]}
    BY <1>1, EndsOfOneMore
  <2> QED
    BY <1>2, <2>1
<1>5. \A n \in 1 .. L + 3 : n \in 1 .. L \/ n = L + 1 \/ n = L + 2 \/ n = L + 3
  BY <1>3
<1>6. \A n \in 1 .. L + 3 : Ends(all, n) \in G
  BY <1>3, <1>4, <1>5 DEF AllIn, EdgesIn
<1> QED
  BY <1>2, <1>3, <1>6 DEF AllIn

\* PointHash is a number.
LEMMA HashIsNumber ==
  ASSUME NEW v \in Vertices
  PROVE  PointHash(v) \in Int
<1>1. PosOf[v] \in [1 .. 3 -> Int]
  BY PosOfAssumption DEF Vertices
<1>2. PosOf[v][1] \in Int /\ PosOf[v][2] \in Int /\ PosOf[v][3] \in Int
  BY <1>1
<1> QED
  BY <1>2 DEF PointHash

\* The edges of a quad are allowed, its diagonal included.
LEMMA QuadIsCutRight ==
  ASSUME NEW verts, VertexList(Vertices, verts), NEW x \in NearOnes(verts), NEW y \in NearOnes(verts),
         NEW ordered, ordered = PointsOrdered(VertAt(verts, x), VertAt(verts, y))
  PROVE  QuadEdges(x, y, ordered) \subseteq Cuts(verts)
<1>1. verts \in Seq(Vertices)
  BY DEF VertexList
<1>2. /\ x \in Nat /\ y \in Nat /\ x % 2 = 0 /\ y % 2 = 0
      /\ (x + 1) % 2 = 1 /\ (y + 1) % 2 = 1
  BY <1>1, NearIndices
<1>3. {x, x + 1, y, y + 1} \subseteq Indices(verts)
  BY <1>1, NearAreIndices
<1>4. VertAt(verts, x + 1) = VertAt(verts, x) /\ VertAt(verts, y + 1) = VertAt(verts, y)
  <2>1. ((x + 1) \div 2) + 1 = (x \div 2) + 1 /\ ((y + 1) \div 2) + 1 = (y \div 2) + 1
    BY <1>1, NearIndices
  <2> QED
    BY <2>1 DEF VertAt
<1>5. PICK w, z : w = x + 1 /\ z = y + 1
  OBVIOUS
<1>6. /\ x % 2 = 0 /\ y % 2 = 0 /\ w % 2 = 1 /\ z % 2 = 1
      /\ VertAt(verts, w) = VertAt(verts, x) /\ VertAt(verts, z) = VertAt(verts, y)
      /\ {x, w, y, z} \subseteq Indices(verts)
  BY <1>2, <1>3, <1>4, <1>5
<1>7. PICK hx, hy : hx = PointHash(VertAt(verts, x)) /\ hy = PointHash(VertAt(verts, y))
  OBVIOUS
<1>8. hx \in Int /\ hy \in Int
  <2>1. VertAt(verts, x) \in Vertices /\ VertAt(verts, y) \in Vertices
    BY OneVertexOneIndex
  <2> QED
    BY <1>7, <2>1, HashIsNumber
<1>9. ordered <=> hx < hy
  BY <1>7 DEF PointsOrdered
<1>10. CutRight(verts, {x, y}) /\ CutRight(verts, {w, z})
  BY <1>6 DEF CutRight
<1>11. CutRight(verts, {x, w}) /\ CutRight(verts, {y, z})
  BY <1>6 DEF CutRight
<1>12. CutRight(verts, DiagonalOf(x, y, ordered))
  <2>1. CASE ordered
    <3>1. DiagonalOf(x, y, ordered) = {w, y}
      BY <1>5, <2>1 DEF DiagonalOf
    <3>2. PointHash(VertAt(verts, w)) <= PointHash(VertAt(verts, y))
      BY <1>6, <1>7, <1>8, <1>9, <2>1
    <3> QED
      BY <1>6, <3>1, <3>2 DEF CutRight
  <2>2. CASE ~ordered
    <3>1. DiagonalOf(x, y, ordered) = {x, z}
      BY <1>5, <2>2 DEF DiagonalOf
    <3>2. PointHash(VertAt(verts, z)) <= PointHash(VertAt(verts, x))
      BY <1>6, <1>7, <1>8, <1>9, <2>2
    <3> QED
      BY <1>6, <3>1, <3>2 DEF CutRight
  <2> QED
    BY <2>1, <2>2
<1>13. QuadEdges(x, y, ordered) = {{x, y}, {w, z}, {x, w}, {y, z}, DiagonalOf(x, y, ordered)}
  BY <1>5 DEF QuadEdges
<1>14. DiagonalOf(x, y, ordered) \subseteq Indices(verts)
  BY <1>5, <1>6 DEF DiagonalOf
<1> QED
  BY <1>6, <1>10, <1>11, <1>12, <1>13, <1>14 DEF Cuts

\* What is true of the sides after n edges, own being what the call has added to the indices
\* so far and cap what its cap was: they are triangles of the volume's vertices, cut right,
\* and unless they were cut short, every edge with an end on the surface has as many of them
\* as the cap has and the silhouette edges want, or an even number more or less.
SidesDue(verts, cap, K, f, n, own, a, b) ==
  (EdgeUses(own, a, b) + EdgeUses(cap, a, b) + HowMany(SilAt(K, f, Wanted(verts, a, b)), n)) % 2 = 0
SidesShow(verts, cap, K, f, n, sh, acc, own) ==
  /\ acc = [indices |-> sh \o own, stop |-> acc.stop]
  /\ Triples(Indices(verts), own) /\ AllIn(own, Cuts(verts))
  /\ ~acc.stop => \A a \in NearOnes(verts), b \in Indices(verts) :
       a # b => SidesDue(verts, cap, K, f, n, own, a, b)

\* The ends of silhouette edges are among the vertices.
SidesFit(verts, K, f) ==
  \A i \in DOMAIN K : f[K[i].p1] # f[K[i].p2] => {K[i].v1, K[i].v2} \subseteq ToSet(verts)

\* What a quad adds.
QuadAdded(verts, x, y, ordered, own, sh, quad, more) ==
  /\ Triples(Indices(verts), more) /\ AllIn(more, Cuts(verts))
  /\ (sh \o own) \o quad = sh \o more
  /\ \A a \in NearOnes(verts), b \in Indices(verts) : a # b =>
       /\ QuadFits(verts, x, y, ordered, a, b)
       /\ EdgeUses(more, a, b) = EdgeUses(own, a, b) + QuadTouches(x, y, ordered, a, b)

\* It is made of two triangles.
LEMMA QuadIsAdded ==
  ASSUME NEW verts, VertexList(Vertices, verts), NEW x \in NearOnes(verts), NEW y \in NearOnes(verts),
         x # y, NEW outward \in BOOLEAN,
         NEW ordered, ordered = PointsOrdered(VertAt(verts, x), VertAt(verts, y)),
         NEW own, Triples(Indices(verts), own), AllIn(own, Cuts(verts)),
         NEW quad, quad = Quad(x, y, outward, ordered), NEW sh \in Seq(Nat)
  PROVE  \E more : QuadAdded(verts, x, y, ordered, own, sh, quad, more)
<1>1. PICK X : X = Indices(verts)
  OBVIOUS
<1>2. verts \in Seq(Vertices) /\ ordered \in BOOLEAN
  BY DEF VertexList, PointsOrdered
<1>3. x \in Nat /\ y \in Nat
  BY <1>2, NearIndices
<1>4. {x, x + 1, y, y + 1} \subseteq X
  BY <1>1, <1>2, NearAreIndices
<1>5. PICK p, q : TwoTriples(X, x, y, ordered, quad, p, q)
  BY <1>2, <1>3, <1>4, QuadIsTwoTriples
<1>6. Triple(X, p) /\ Triple(X, q) /\ quad = p \o q
  BY <1>5 DEF TwoTriples
<1>7. Triples(X, own)
  BY <1>1
<1>8. PICK half, more : half = own \o p /\ more = half \o q
  OBVIOUS
<1>9. Triples(X, half)
  BY <1>6, <1>7, <1>8, TriplesAndOne
<1>10. Triples(X, more)
  BY <1>6, <1>8, <1>9, TriplesAndOne
<1>11. AllIn(more, Cuts(verts))
  <2>1. QuadEdges(x, y, ordered) \subseteq Cuts(verts)
    BY QuadIsCutRight
  <2>2. EdgesIn(p, Cuts(verts)) /\ EdgesIn(q, Cuts(verts))
    BY <1>5, <2>1 DEF TwoTriples, EdgesIn
  <2>3. AllIn(half, Cuts(verts))
    BY <1>6, <1>7, <1>8, <2>2, AllInWithOne
  <2> QED
    BY <1>6, <1>8, <1>9, <2>2, <2>3, AllInWithOne
<1>12. (sh \o own) \o quad = sh \o more
  <2>1. X \subseteq Nat
    BY <1>1, <1>2 DEF Indices
  <2>2. own \in Seq(Nat)
    <3>1. own \in Seq(X)
      BY <1>7 DEF Triples
    <3> QED
      BY <2>1, <3>1, SeqInLarger
  <2>3. p \in Seq(Nat) /\ q \in Seq(Nat)
    <3>1. p \in Seq(X) /\ q \in Seq(X)
      BY <1>6 DEF Triple
    <3> QED
      BY <2>1, <3>1, SeqInLarger
  <2>4. quad \in Seq(Nat)
    BY <1>6, <2>3, LengthOfBoth
  <2>5. (sh \o own) \o quad = sh \o (own \o quad)
    BY <2>2, <2>4, JoinedThree
  <2>6. (own \o p) \o q = own \o (p \o q)
    BY <2>2, <2>3, JoinedThree
  <2> QED
    BY <1>6, <1>8, <2>5, <2>6
<1>13. ASSUME NEW a \in NearOnes(verts), NEW b \in Indices(verts), a # b
       PROVE  /\ QuadFits(verts, x, y, ordered, a, b)
              /\ EdgeUses(more, a, b) = EdgeUses(own, a, b) + QuadTouches(x, y, ordered, a, b)
  <2>1. QuadFits(verts, x, y, ordered, a, b)
    BY <1>2, <1>13, QuadParity
  <2>2. UsesGrow(own, p, a, b)
    BY <1>6, <1>7, UsesOfOneMore
  <2>3. UsesGrow(half, q, a, b)
    BY <1>6, <1>9, UsesOfOneMore
  <2>4. Touches(p, a, b) + Touches(q, a, b) = QuadTouches(x, y, ordered, a, b)
    BY <1>5 DEF TwoTriples
  <2>5. EdgeUses(more, a, b) = (EdgeUses(own, a, b) + Touches(p, a, b)) + Touches(q, a, b)
    BY <1>8, <2>2, <2>3 DEF UsesGrow
  <2>6. EdgeUses(own, a, b) \in Nat /\ Touches(p, a, b) \in Nat /\ Touches(q, a, b) \in Nat
    BY <2>2, <2>3 DEF UsesGrow
  <2> QED
    BY <2>1, <2>4, <2>5, <2>6
<1>14. QuadAdded(verts, x, y, ordered, own, sh, quad, more)
  BY <1>1, <1>10, <1>11, <1>12, <1>13 DEF QuadAdded
<1> QED
  BY <1>14

\* The step of the sides: what they show after n edges they show after n + 1.
LEMMA SidesGoOn ==
  ASSUME NEW verts, VertexList(Vertices, verts), NEW np \in Nat, NEW K, GoodEdges(Vertices, np, K),
         NEW f, FacingOf(np, f), SidesFit(verts, K, f), NEW n \in 0 .. Len(K) - 1,
         NEW sh \in Seq(Nat), NEW cap \in Seq(Nat),
         NEW acc, NEW own, SidesShow(verts, cap, K, f, n, sh, acc, own),
         NEW next, next = AddSilEdge(acc, K[n + 1], verts, f)
  PROVE  \E more : SidesShow(verts, cap, K, f, n + 1, sh, next, more)
<1>1. K \in Seq(SilEdge(Vertices, np)) /\ \A i \in DOMAIN K : K[i].v1 # K[i].v2
  BY DEF GoodEdges
<1>2. n \in Nat /\ n + 1 \in DOMAIN K
  BY <1>1
<1>3. PICK e : e = K[n + 1]
  OBVIOUS
<1>4. e \in SilEdge(Vertices, np) /\ e.v1 # e.v2
  BY <1>1, <1>2, <1>3
<1>5. f[e.p1] \in BOOLEAN /\ f[e.p2] \in BOOLEAN
  <2>1. e.p1 \in 1 .. np /\ e.p2 \in 1 .. np
    BY <1>4 DEF SilEdge
  <2> QED
    BY <2>1 DEF FacingOf
<1>6. /\ acc = [indices |-> sh \o own, stop |-> acc.stop]
      /\ Triples(Indices(verts), own) /\ AllIn(own, Cuts(verts))
  BY DEF SidesShow
<1>7. ~acc.stop => \A a \in NearOnes(verts), b \in Indices(verts) :
        a # b => SidesDue(verts, cap, K, f, n, own, a, b)
  BY DEF SidesShow
<1>8. CASE acc.stop
  <2>1. next = acc
    BY <1>8 DEF AddSilEdge
  <2>2. SidesShow(verts, cap, K, f, n + 1, sh, next, own)
    BY <1>6, <1>8, <2>1 DEF SidesShow
  <2> QED
    BY <2>2
<1>9. ASSUME NEW E
      PROVE  /\ HowMany(SilAt(K, f, E), n) \in Nat
             /\ HowMany(SilAt(K, f, E), n + 1) =
                  HowMany(SilAt(K, f, E), n) + Bit({e.v1, e.v2} \in E /\ f[e.p1] # f[e.p2])
  <2>1. HowMany(SilAt(K, f, E), n + 1) = HowMany(SilAt(K, f, E), n) + Bit(n + 1 \in SilAt(K, f, E))
    BY <1>2, HowManyNext
  <2>2. n + 1 \in SilAt(K, f, E) <=> {e.v1, e.v2} \in E /\ f[e.p1] # f[e.p2]
    BY <1>2, <1>3 DEF SilAt
  <2>3. HowMany(SilAt(K, f, E), n) \in Nat
    BY <1>2, HowManyType
  <2> QED
    BY <2>1, <2>2, <2>3 DEF Bit
<1>10. CASE ~acc.stop /\ f[e.p1] = f[e.p2]
  <2>1. next = acc
    BY <1>3, <1>10 DEF AddSilEdge
  <2>2. ASSUME NEW a \in NearOnes(verts), NEW b \in Indices(verts), a # b
        PROVE  SidesDue(verts, cap, K, f, n + 1, own, a, b)
    <3>1. SidesDue(verts, cap, K, f, n, own, a, b)
      BY <1>7, <1>10, <2>2
    <3>2. PICK E : E = Wanted(verts, a, b)
      OBVIOUS
    <3>3. HowMany(SilAt(K, f, E), n + 1) = HowMany(SilAt(K, f, E), n)
      BY <1>9, <1>10 DEF Bit
    <3> QED
      BY <3>1, <3>2, <3>3 DEF SidesDue
  <2>3. SidesShow(verts, cap, K, f, n + 1, sh, next, own)
    BY <1>6, <2>1, <2>2 DEF SidesShow
  <2> QED
    BY <2>3
<1>11. CASE ~acc.stop /\ f[e.p1] # f[e.p2]
  <2>1. PICK v, w : v = e.v1 /\ w = e.v2
    OBVIOUS
  <2>2. v \in ToSet(verts) /\ w \in ToSet(verts) /\ v # w
    BY <1>2, <1>3, <1>4, <1>11, <2>1 DEF SidesFit
  <2>3. PICK x, y, ordered, quad :
          /\ x = Remap(verts, v) /\ y = Remap(verts, w) /\ ordered = PointsOrdered(v, w)
          /\ quad = Quad(x, y, f[e.p2], ordered)
    OBVIOUS
  <2>4. \/ next = [acc EXCEPT !.stop = TRUE]
        \/ next = [acc EXCEPT !.indices = @ \o quad]
    <3>1. {e.v1, e.v2} \subseteq ToSet(verts)
      BY <2>1, <2>2
    <3> QED
      BY <1>3, <1>11, <2>1, <2>3, <3>1 DEF AddSilEdge
  <2>5. CASE next = [acc EXCEPT !.stop = TRUE]
    <3>1. next = [indices |-> sh \o own, stop |-> TRUE]
      <4>1. PICK c, st : c = sh \o own /\ st = acc.stop
        OBVIOUS
      <4>2. acc = [indices |-> c, stop |-> st]
        BY <1>6, <4>1
      <4>3. next = [indices |-> c, stop |-> TRUE]
        BY <2>5, <4>2
      <4> QED
        BY <4>1, <4>3
    <3>2. SidesShow(verts, cap, K, f, n + 1, sh, next, own)
      BY <1>6, <3>1 DEF SidesShow
    <3> QED
      BY <3>2
  <2>6. CASE next = [acc EXCEPT !.indices = @ \o quad]
    <3>1. next = [indices |-> (sh \o own) \o quad, stop |-> acc.stop]
      <4>1. PICK c, st : c = sh \o own /\ st = acc.stop
        OBVIOUS
      <4>2. acc = [indices |-> c, stop |-> st]
        BY <1>6, <4>1
      <4>3. next = [indices |-> c \o quad, stop |-> st]
        BY <2>6, <4>2
      <4> QED
        BY <4>1, <4>3
    <3>2. verts \in Seq(Vertices)
      BY DEF VertexList
    <3>3. /\ x \in NearOnes(verts) /\ VertAt(verts, x) = v
          /\ y \in NearOnes(verts) /\ VertAt(verts, y) = w
      BY <2>2, <2>3, <3>2, IndexOfVertex
    <3>4. x # y /\ ordered = PointsOrdered(VertAt(verts, x), VertAt(verts, y))
      BY <2>2, <2>3, <3>3
    <3>5. PICK more : QuadAdded(verts, x, y, ordered, own, sh, quad, more)
      <4>1. PICK outward : outward = f[e.p2]
        OBVIOUS
      <4>2. outward \in BOOLEAN /\ quad = Quad(x, y, outward, ordered)
        BY <1>5, <2>3, <4>1
      <4> QED
        BY <1>6, <3>3, <3>4, <4>2, QuadIsAdded
    <3>6. ASSUME NEW a \in NearOnes(verts), NEW b \in Indices(verts), a # b
          PROVE  SidesDue(verts, cap, K, f, n + 1, more, a, b)
      <4>1. SidesDue(verts, cap, K, f, n, own, a, b)
        BY <1>7, <1>11, <3>6
      <4>2. QuadFits(verts, x, y, ordered, a, b)
        BY <3>5, <3>6 DEF QuadAdded
      <4>3. EdgeUses(more, a, b) = EdgeUses(own, a, b) + QuadTouches(x, y, ordered, a, b)
        BY <3>5, <3>6 DEF QuadAdded
      <4>4. PICK E, u, u0, h, touch, want :
              /\ E = Wanted(verts, a, b) /\ u = EdgeUses(own, a, b) /\ u0 = EdgeUses(cap, a, b)
              /\ h = HowMany(SilAt(K, f, E), n) /\ touch = QuadTouches(x, y, ordered, a, b)
              /\ want = Bit({v, w} \in E)
        OBVIOUS
      <4>5. (touch + want) % 2 = 0 /\ touch \in Nat
        BY <3>3, <4>2, <4>4 DEF QuadFits
      <4>6. (u + u0 + h) % 2 = 0
        BY <4>1, <4>4 DEF SidesDue
      <4>7. HowMany(SilAt(K, f, E), n + 1) = h + want /\ h \in Nat
        <5>1. Bit({e.v1, e.v2} \in E /\ f[e.p1] # f[e.p2]) = want
          BY <1>11, <2>1, <4>4 DEF Bit
        <5> QED
          BY <1>9, <4>4, <5>1
      <4>8. u \in Nat /\ u0 \in Nat /\ want \in Nat
        <5>1. u \in Nat
          <6>1. own \in Seq(Indices(verts))
            BY <1>6 DEF Triples
          <6> QED
            BY <4>4, <6>1, UsesAreCounted
        <5>2. u0 \in Nat
          BY <4>4, UsesAreCounted
        <5> QED
          BY <4>4, <5>1, <5>2 DEF Bit
      <4>9. ((u + touch) + u0 + (h + want)) % 2 = 0
        <5>1. (u + touch) + u0 + (h + want) = (u + u0 + h) + (touch + want)
          BY <4>5, <4>7, <4>8
        <5>2. PICK k1, k2 : k1 = u + u0 + h /\ k2 = touch + want
          OBVIOUS
        <5>3. k1 \in Nat /\ k2 \in Nat /\ k1 % 2 = 0 /\ k2 % 2 = 0
          BY <4>5, <4>6, <4>7, <4>8, <5>2
        <5>4. (k1 + k2) % 2 = 0
          BY <5>3, EvenSum
        <5> QED
          BY <5>1, <5>2, <5>4
      <4> QED
        BY <4>3, <4>4, <4>7, <4>9 DEF SidesDue
    <3>7. SidesShow(verts, cap, K, f, n + 1, sh, next, more)
      BY <3>1, <3>5, <3>6 DEF SidesShow, QuadAdded
    <3> QED
      BY <3>7
  <2> QED
    BY <2>4, <2>5, <2>6
<1> QED
  BY <1>5, <1>8, <1>10, <1>11

\* Both ends of an edge are among the indices.
LEMMA NextPlace ==
  ASSUME NEW X, NEW own, Triples(X, own), NEW n \in DOMAIN own
  PROVE  (IF n % 3 = 0 THEN n - 2 ELSE n + 1) \in DOMAIN own
<1>1. own \in Seq(X) /\ Len(own) % 3 = 0
  BY DEF Triples
<1>2. PICK L : L = Len(own)
  OBVIOUS
<1>3. L \in Nat /\ L % 3 = 0 /\ n \in 1 .. L /\ DOMAIN own = 1 .. L
  BY <1>1, <1>2
<1>4. CASE n % 3 = 0
  <2>1. n \in Nat /\ n >= 3 /\ n <= L
    BY <1>3, <1>4
  <2> QED
    BY <1>3, <1>4, <2>1
<1>5. CASE n % 3 # 0
  <2>1. n # L
    BY <1>3, <1>5
  <2> QED
    BY <1>3, <1>5, <2>1
<1> QED
  BY <1>4, <1>5

\* The ends of edges are among the indices.
LEMMA EndsAmong ==
  ASSUME NEW X, NEW own, Triples(X, own), NEW n \in DOMAIN own
  PROVE  Ends(own, n) \in SUBSET X
<1>1. PICK m : m = IF n % 3 = 0 THEN n - 2 ELSE n + 1
  OBVIOUS
<1>2. m \in DOMAIN own
  BY <1>1, NextPlace
<1>3. own \in Seq(X)
  BY DEF Triples
<1>4. own[n] \in X /\ own[m] \in X
  BY <1>2, <1>3
<1> QED
  BY <1>1, <1>4 DEF Ends

\* The cap alone, before the sides.
LEMMA SidesBegin ==
  ASSUME NEW verts, VertexList(Vertices, verts), NEW K, NEW f, NEW sh,
         NEW cap, Triples(NearOnes(verts), cap), NEW acc, acc = [indices |-> sh \o cap, stop |-> FALSE]
  PROVE  SidesShow(verts, cap, K, f, 0, sh, acc, cap)
<1>1. verts \in Seq(Vertices) /\ cap \in Seq(NearOnes(verts)) /\ Len(cap) % 3 = 0
  BY DEF VertexList, Triples
<1>2. NearOnes(verts) \subseteq Indices(verts)
  BY <1>1, NearAreIndices
<1>3. Triples(Indices(verts), cap)
  BY <1>1, <1>2 DEF Triples
<1>4. \A x \in NearOnes(verts) : x % 2 = 0
  BY <1>1, NearIndices
<1>5. AllIn(cap, Cuts(verts))
  <2>1. ASSUME NEW n \in DOMAIN cap
        PROVE  Ends(cap, n) \in Cuts(verts)
    <3>1. PICK E : E = Ends(cap, n)
      OBVIOUS
    <3>2. E \in SUBSET NearOnes(verts)
      BY <3>1, EndsAmong
    <3>3. CutRight(verts, E)
      BY <1>4, <3>2 DEF CutRight
    <3> QED
      BY <1>2, <3>1, <3>2, <3>3 DEF Cuts
  <2> QED
    BY <2>1 DEF AllIn
<1>6. ASSUME NEW a \in NearOnes(verts), NEW b \in Indices(verts), a # b
      PROVE  SidesDue(verts, cap, K, f, 0, cap, a, b)
  <2>1. PICK u, E : u = EdgeUses(cap, a, b) /\ E = Wanted(verts, a, b)
    OBVIOUS
  <2>2. u \in Nat
    BY <1>1, <2>1, UsesAreCounted
  <2>3. HowMany(SilAt(K, f, E), 0) = 0
    BY HowManyNone
  <2>4. (u + u + 0) % 2 = 0
    BY <2>2
  <2> QED
    BY <2>1, <2>3, <2>4 DEF SidesDue
<1> QED
  BY <1>3, <1>5, <1>6 DEF SidesShow

\* What R_AddSilEdges makes of a cap.
LEMMA SidesAreShown ==
  ASSUME NEW verts, VertexList(Vertices, verts), NEW np \in Nat, NEW K, GoodEdges(Vertices, np, K),
         NEW f, FacingOf(np, f), SidesFit(verts, K, f),
         NEW sh \in Seq(Nat), NEW own0, Triples(NearOnes(verts), own0),
         NEW cap, cap.verts = verts, cap.indices = sh \o own0
  PROVE  \E own : SidesShow(verts, own0, K, f, Len(K), sh, R_AddSilEdges(K, cap, f), own)
<1>1. PICK N : N = Len(K)
  OBVIOUS
<1>2. N \in Nat
  BY <1>1 DEF GoodEdges
<1>3. PICK g : /\ g = [n \in 0 .. N |->
                          IF n = 0 THEN [indices |-> cap.indices, stop |-> FALSE]
                          ELSE AddSilEdge(g[n - 1], K[n], cap.verts, f)]
               /\ R_AddSilEdges(K, cap, f) = g[N]
  <2>1. PICK g : IsAdded(g, K, cap, f)
    BY <1>1, <1>2, AddedIsMade
  <2> QED
    BY <1>1, <2>1 DEF IsAdded
<1>4. own0 \in Seq(Nat)
  <2>1. verts \in Seq(Vertices) /\ own0 \in Seq(NearOnes(verts))
    BY DEF VertexList, Triples
  <2>2. NearOnes(verts) \subseteq Nat
    BY <2>1, NearIndices
  <2> QED
    BY <2>1, <2>2
<1> DEFINE Holds(n) == \E own : SidesShow(verts, own0, K, f, n, sh, g[n], own)
<1>5. Holds(0)
  <2>1. g[0] = [indices |-> sh \o own0, stop |-> FALSE]
    BY <1>2, <1>3
  <2>2. SidesShow(verts, own0, K, f, 0, sh, g[0], own0)
    BY <2>1, SidesBegin
  <2> QED
    BY <2>2
<1>6. ASSUME NEW n \in 0 .. N, Holds(n), n < N
      PROVE  Holds(n + 1)
  <2>1. n \in Nat /\ n + 1 \in 0 .. N /\ n + 1 # 0 /\ (n + 1) - 1 = n /\ n \in 0 .. Len(K) - 1
    BY <1>1, <1>2, <1>6
  <2>2. PICK acc, next : acc = g[n] /\ next = g[n + 1]
    OBVIOUS
  <2>3. next = AddSilEdge(acc, K[n + 1], verts, f)
    BY <1>3, <2>1, <2>2
  <2>4. PICK own : SidesShow(verts, own0, K, f, n, sh, acc, own)
    BY <1>6, <2>2
  <2>5. \E more : SidesShow(verts, own0, K, f, n + 1, sh, next, more)
    BY <1>4, <2>1, <2>3, <2>4, SidesGoOn
  <2> QED
    BY <2>2, <2>5
<1> HIDE DEF Holds
<1>7. PICK T : T = {n \in 0 .. N : Holds(n)}
  OBVIOUS
<1>8. 0 \in T
  BY <1>2, <1>5, <1>7
<1>9. \A n \in 0 .. N : n \in T /\ n < N => n + 1 \in T
  <2>1. ASSUME NEW n \in 0 .. N, n \in T, n < N
        PROVE  n + 1 \in T
    <3>1. Holds(n)
      BY <1>7, <2>1
    <3>2. Holds(n + 1)
      BY <1>6, <2>1, <3>1
    <3>3. n + 1 \in 0 .. N
      BY <1>2, <2>1
    <3> QED
      BY <1>7, <3>2, <3>3
  <2> QED
    BY <2>1
<1>10. N \in T
  <2>1. \A n \in 0 .. N : n \in T
    BY <1>2, <1>8, <1>9, UpTo
  <2> QED
    BY <1>2, <2>1
<1>11. Holds(N)
  BY <1>7, <1>10
<1> QED
  BY <1>1, <1>3, <1>11 DEF Holds

------------------------------------------------------------------------------
(* The sides close the cap.                                                *)

\* Every triangle has an even number of edges at a vertex.
LEMMA LitAtVertex ==
  ASSUME NEW tris \in Seq([1 .. 3 -> Vertices]), NEW es, es = EdgesOf(tris), NEW f,
         NEW v \in Vertices, NEW E, E = {{v, w} : w \in Vertices \ {v}}
  PROVE  HowMany(LitAt(es, f, E), 3 * Len(tris)) % 2 = 0
<1>1. PICK N, S : N = Len(tris) /\ S = LitAt(es, f, E)
  OBVIOUS
<1>2. N \in Nat
  BY <1>1
<1> DEFINE Holds(t) == HowMany(S, 3 * t) % 2 = 0
<1>3. Holds(0)
  <2>1. HowMany(S, 3 * 0) = 0
    BY HowManyNone
  <2> QED
    BY <2>1
<1>4. ASSUME NEW t \in 0 .. N, Holds(t), t < N
      PROVE  Holds(t + 1)
  <2>1. PICK tri : tri = tris[t + 1]
    OBVIOUS
  <2>2. t \in 0 .. Len(tris) - 1
    BY <1>1, <1>2, <1>4
  <2>3. LitGrows(es, f, E, t, tri)
    <3>1. NextTriangle(tris, es, t, tri)
      BY <2>1, <2>2 DEF NextTriangle
    <3> QED
      BY <3>1, LitByOneMore
  <2>4. PICK p, q, r : p = tri[1] /\ q = tri[2] /\ r = tri[3]
    OBVIOUS
  <2>5. p \in Vertices /\ q \in Vertices /\ r \in Vertices
    <3>1. tris[t + 1] \in [1 .. 3 -> Vertices]
      BY <2>2
    <3> QED
      BY <2>1, <2>4, <3>1
  <2>6. \A a, b \in Vertices : {a, b} \in E <=> a # b /\ (a = v \/ b = v)
    <3>1. ASSUME NEW a \in Vertices, NEW b \in Vertices, {a, b} \in E
          PROVE  a # b /\ (a = v \/ b = v)
      <4>1. PICK w \in Vertices \ {v} : {a, b} = {v, w}
        BY <3>1
      <4> QED
        BY <4>1
    <3>2. ASSUME NEW a \in Vertices, NEW b \in Vertices, a # b, a = v
          PROVE  {a, b} \in E
      BY <3>2
    <3>3. ASSUME NEW a \in Vertices, NEW b \in Vertices, a # b, b = v
          PROVE  {a, b} \in E
      <4>1. {a, b} = {v, a}
        BY <3>3
      <4> QED
        BY <3>3, <4>1
    <3> QED
      BY <3>1, <3>2, <3>3
  <2>7. PICK k, b1, b2, b3 : /\ k = HowMany(S, 3 * t)
                             /\ b1 = Bit({p, q} \in E /\ ~f[t + 1])
                             /\ b2 = Bit({q, r} \in E /\ ~f[t + 1])
                             /\ b3 = Bit({r, p} \in E /\ ~f[t + 1])
    OBVIOUS
  <2>8. k \in Nat /\ HowMany(S, 3 * (t + 1)) = k + b1 + b2 + b3
    BY <1>1, <2>3, <2>4, <2>7 DEF LitGrows
  <2>9. b1 + b2 + b3 \in {0, 2}
    <3>1. CASE f[t + 1]
      BY <2>7, <3>1 DEF Bit
    <3>2. CASE ~f[t + 1]
      <4>1. /\ b1 = Bit(p # q /\ (p = v \/ q = v))
            /\ b2 = Bit(q # r /\ (q = v \/ r = v))
            /\ b3 = Bit(r # p /\ (r = v \/ p = v))
        BY <2>5, <2>6, <2>7, <3>2 DEF Bit
      <4> QED
        BY <4>1 DEF Bit
    <3> QED
      BY <3>1, <3>2
  <2>10. k % 2 = 0
    BY <1>4, <2>7
  <2>11. PICK j : j = b1 + b2 + b3
    OBVIOUS
  <2>12. HowMany(S, 3 * (t + 1)) = k + j
    <3>1. b1 \in Nat /\ b2 \in Nat /\ b3 \in Nat
      BY <2>7 DEF Bit
    <3> QED
      BY <2>8, <2>11, <3>1
  <2>13. (k + j) % 2 = 0
    BY <2>8, <2>9, <2>10, <2>11
  <2> QED
    BY <2>12, <2>13
<1> HIDE DEF Holds
<1>5. PICK T : T = {t \in 0 .. N : Holds(t)}
  OBVIOUS
<1>6. 0 \in T
  BY <1>2, <1>3, <1>5
<1>7. \A t \in 0 .. N : t \in T /\ t < N => t + 1 \in T
  <2>1. ASSUME NEW t \in 0 .. N, t \in T, t < N
        PROVE  t + 1 \in T
    <3>1. Holds(t)
      BY <1>5, <2>1
    <3>2. Holds(t + 1)
      BY <1>4, <2>1, <3>1
    <3>3. t + 1 \in 0 .. N
      BY <1>2, <2>1
    <3> QED
      BY <1>5, <3>2, <3>3
  <2> QED
    BY <2>1
<1>8. N \in T
  <2>1. \A t \in 0 .. N : t \in T
    BY <1>2, <1>6, <1>7, UpTo
  <2> QED
    BY <1>2, <2>1
<1>9. Holds(N)
  BY <1>5, <1>8
<1> QED
  BY <1>1, <1>9 DEF Holds

\* The cap has an edge between a and b as often, or an even number more or less, as lit
\* triangles have edges of those wanted.
LEMMA CapDue ==
  ASSUME NEW tris \in Seq([1 .. 3 -> Vertices]), NEW es, es = EdgesOf(tris), NEW f,
         NEW sh, NEW cap, NEW own, CapShows(tris, f, es, Len(tris), sh, cap, own),
         NEW verts, verts = cap.verts, NEW a \in NearOnes(verts), NEW b \in Indices(verts), a # b
  PROVE  /\ EdgeUses(own, a, b) \in Nat
         /\ (EdgeUses(own, a, b) + HowMany(LitAt(es, f, Wanted(verts, a, b)), 3 * Len(tris))) % 2 = 0
<1>1. VertexList(Vertices, verts) /\ Triples(NearOnes(verts), own)
  BY DEF CapShows
<1>2. verts \in Seq(Vertices) /\ own \in Seq(NearOnes(verts))
  BY <1>1 DEF VertexList, Triples
<1>3. PICK M, u, E : M = 3 * Len(tris) /\ u = EdgeUses(own, a, b) /\ E = Wanted(verts, a, b)
  OBVIOUS
<1>4. u \in Nat /\ M \in Nat
  <2>1. u \in Nat
    BY <1>2, <1>3, UsesAreCounted
  <2> QED
    BY <1>3, <2>1
<1>5. PICK va : va = VertAt(verts, a)
  OBVIOUS
<1>6. va \in Vertices
  BY <1>1, <1>5, OneVertexOneIndex
<1>7. (u + HowMany(LitAt(es, f, E), M)) % 2 = 0
  <2>1. CASE b % 2 = 0
    <3>1. b \in NearOnes(verts)
      BY <1>2, <2>1, EvenIsNear
    <3>2. PICK vb : vb = VertAt(verts, b)
      OBVIOUS
    <3>3. vb \in Vertices /\ va # vb
      BY <1>1, <1>5, <3>1, <3>2, OneVertexOneIndex
    <3>4. E = {{va, vb}}
      BY <1>3, <1>5, <2>1, <3>2 DEF Wanted
    <3>5. PICK named : named = Named(verts, own)
      OBVIOUS
    <3>6. EdgeUses(named, va, vb) = HowMany(LitAt(es, f, {{va, vb}}), M)
      BY <1>3, <1>6, <3>3, <3>5 DEF CapShows
    <3>7. EdgeUses(named, va, vb) = u
      <4>1. named = [n \in DOMAIN own |-> VertAt(verts, own[n])]
        BY <3>5 DEF Named
      <4>2. ASSUME NEW n \in DOMAIN own
            PROVE  Ends(named, n) = {va, vb} <=> Ends(own, n) = {a, b}
        <5>1. PICK m : m = IF n % 3 = 0 THEN n - 2 ELSE n + 1
          OBVIOUS
        <5>2. Ends(own, n) = {own[n], own[m]} /\ Ends(named, n) = {named[n], named[m]}
          BY <5>1 DEF Ends
        <5>3. PICK x, y : x = own[n] /\ y = own[m]
          OBVIOUS
        <5>4. x \in NearOnes(verts) /\ y \in NearOnes(verts)
          <6>1. Ends(own, n) \in SUBSET NearOnes(verts)
            BY <1>1, EndsAmong
          <6> QED
            BY <5>2, <5>3, <6>1
        <5>5. m \in DOMAIN own
          BY <1>1, <5>1, NextPlace
        <5>6. named[n] = VertAt(verts, x) /\ named[m] = VertAt(verts, y)
          BY <4>1, <5>3, <5>5
        <5>7. /\ VertAt(verts, x) = va <=> x = a
              /\ VertAt(verts, y) = va <=> y = a
          BY <1>1, <1>5, <5>4, OneVertexOneIndex
        <5>8. /\ VertAt(verts, x) = vb <=> x = b
              /\ VertAt(verts, y) = vb <=> y = b
          BY <1>1, <3>1, <3>2, <5>4, OneVertexOneIndex
        <5>9. {x, y} = {a, b} <=> (x = a /\ y = b) \/ (x = b /\ y = a)
          OBVIOUS
        <5>10. PICK nx, ny : nx = named[n] /\ ny = named[m]
          OBVIOUS
        <5>11. {nx, ny} = {va, vb} <=> (nx = va /\ ny = vb) \/ (nx = vb /\ ny = va)
          OBVIOUS
        <5> QED
          BY <5>2, <5>3, <5>6, <5>7, <5>8, <5>9, <5>10, <5>11
      <4>3. {n \in DOMAIN named : Ends(named, n) = {va, vb}} = {n \in DOMAIN own : Ends(own, n) = {a, b}}
        BY <4>1, <4>2
      <4> QED
        BY <1>3, <4>3 DEF EdgeUses
    <3>8. (u + u) % 2 = 0
      BY <1>4
    <3> QED
      BY <3>4, <3>6, <3>7, <3>8
  <2>2. CASE b % 2 # 0
    <3>1. u = 0
      <4>1. ASSUME NEW n \in DOMAIN own
            PROVE  Ends(own, n) # {a, b}
        <5>1. Ends(own, n) \in SUBSET NearOnes(verts)
          BY <1>1, EndsAmong
        <5>2. \A x \in NearOnes(verts) : x % 2 = 0
          BY <1>2, NearIndices
        <5> QED
          BY <2>2, <5>1, <5>2
      <4>2. {n \in DOMAIN own : Ends(own, n) = {a, b}} = {}
        BY <4>1
      <4> QED
        BY <1>3, <4>2, FS_EmptySet DEF EdgeUses
    <3>2. CASE b = a + 1
      <4>1. E = {{va, w} : w \in Vertices \ {va}}
        BY <1>3, <1>5, <2>2, <3>2 DEF Wanted
      <4>2. HowMany(LitAt(es, f, E), M) % 2 = 0
        BY <1>3, <1>6, <4>1, LitAtVertex
      <4>3. HowMany(LitAt(es, f, E), M) \in Nat
        BY <1>4, HowManyType
      <4> QED
        BY <3>1, <4>2, <4>3
    <3>3. CASE b # a + 1
      <4>1. E = {}
        BY <1>3, <2>2, <3>3 DEF Wanted
      <4>2. \A k \in 1 .. M : k \notin LitAt(es, f, E)
        BY <4>1 DEF LitAt
      <4>3. LitAt(es, f, E) \cap (1 .. M) = {}
        BY <4>2
      <4>4. HowMany(LitAt(es, f, E), M) = 0
        BY <4>3, FS_EmptySet DEF HowMany
      <4> QED
        BY <3>1, <4>4
    <3> QED
      BY <3>2, <3>3
  <2> QED
    BY <2>1, <2>2
<1> QED
  BY <1>3, <1>4, <1>7

\* What a call makes of a surface, behind the indices it starts with: triangles of the
\* vertices collected, cut right, and closed unless sides were left out.
VolumeShows(verts, own, short) ==
  /\ VertexList(Vertices, verts)
  /\ Triples(Indices(verts), own) /\ AllIn(own, Cuts(verts))
  /\ ~short => \A a \in NearOnes(verts), b \in Indices(verts) : a # b => EdgeUses(own, a, b) % 2 = 0

\* Sorted edges are edges of the triangles on their sides.
LEMMA SortedEdges ==
  ASSUME NEW tris \in Seq([1 .. 3 -> Vertices]), NEW K, K = SilEdgesOf(tris)
  PROVE  /\ NoPlane(tris) \in Nat /\ GoodEdges(Vertices, NoPlane(tris), K)
         /\ OnTriangles(tris, NoPlane(tris), K)
         /\ Len(K) < MaxSilEdges => \A f, E : FacingOf(NoPlane(tris), f) /\ (\A v : {v} \notin E) =>
              (HowMany(SilAt(K, f, E), Len(K)) + HowMany(LitAt(EdgesOf(tris), f, E), 3 * Len(tris))) % 2 = 0
<1>1. PICK np, es, J : np = NoPlane(tris) /\ es = EdgesOf(tris) /\ J = Entered(tris)
  OBVIOUS
<1>2. np \in Nat /\ Len(es) = 3 * Len(tris)
  <2>1. Len(tris) \in Nat /\ NoPlane(tris) = Len(tris) + 1 /\ Len(EdgesOf(tris)) = 3 * Len(tris)
    BY EdgesOfTriangles
  <2> QED
    BY <1>1, <2>1
<1>3. /\ GoodEdges(Vertices, np, J) /\ OnTriangles(tris, np, J)
      /\ \A f, E : FacingOf(np, f) /\ (\A v : {v} \notin E) => EvenTogether(es, f, E, Len(es), J)
  BY <1>1, EnteredEdges
<1>4. J \in Seq(SilEdge(Vertices, np)) /\ \A i \in DOMAIN J : J[i].v1 # J[i].v2
  BY <1>3 DEF GoodEdges
<1>5. K = Sorted(J)
  BY <1>1 DEF SilEdgesOf
<1>6. K \in Seq(SilEdge(Vertices, np)) /\ \E pi : Reordered(J, K, pi)
  BY <1>2, <1>4, <1>5, SortedReorders
<1>7. PICK pi : Reordered(J, K, pi)
  BY <1>6
<1>8. PICK N : N = Len(J)
  OBVIOUS
<1>9. /\ N \in Nat /\ Len(K) = N /\ DOMAIN J = 1 .. N /\ DOMAIN K = 1 .. N
      /\ \A k \in 1 .. N : pi[k] \in 1 .. N /\ K[k] = J[pi[k]]
  <2>1. Len(K) = N /\ pi \in Bijection(1 .. N, 1 .. N) /\ \A k \in 1 .. N : K[k] = J[pi[k]]
    BY <1>7, <1>8 DEF Reordered
  <2>2. \A k \in 1 .. N : pi[k] \in 1 .. N
    BY <2>1 DEF Bijection, Injection, Surjection
  <2>3. N \in Nat /\ DOMAIN J = 1 .. N
    BY <1>4, <1>8
  <2>4. DOMAIN K = 1 .. N
    BY <1>6, <2>1
  <2> QED
    BY <2>1, <2>2, <2>3, <2>4
<1>10. GoodEdges(Vertices, np, K)
  BY <1>4, <1>6, <1>9 DEF GoodEdges
<1>11. OnTriangles(tris, np, K)
  BY <1>3, <1>9 DEF OnTriangles
<1>12. ASSUME Len(K) < MaxSilEdges, NEW f, NEW E, FacingOf(np, f), \A v : {v} \notin E
       PROVE  (HowMany(SilAt(K, f, E), Len(K)) + HowMany(LitAt(es, f, E), 3 * Len(tris))) % 2 = 0
  <2>1. EvenTogether(es, f, E, Len(es), J)
    BY <1>3, <1>12
  <2>2. Len(J) < MaxSilEdges
    BY <1>8, <1>9, <1>12
  <2>3. (HowMany(SilAt(J, f, E), Len(J)) + HowMany(LitAt(es, f, E), Len(es))) % 2 = 0
    BY <2>1, <2>2 DEF EvenTogether
  <2>4. HowMany(SilAt(Sorted(J), f, E), Len(J)) = HowMany(SilAt(J, f, E), Len(J))
    BY <1>2, <1>4, SortedHasAsMany
  <2> QED
    BY <1>2, <1>5, <1>8, <1>9, <2>3, <2>4
<1> QED
  BY <1>1, <1>2, <1>10, <1>11, <1>12

\* The vertices of a cap are among those collected for it, and so are the ends of its
\* silhouette edges, one side of which is lit.
LEMMA EndsAreCollected ==
  ASSUME NEW tris \in Seq([1 .. 3 -> Vertices]), NEW np, np = NoPlane(tris), NEW K,
         GoodEdges(Vertices, np, K), OnTriangles(tris, np, K), NEW f, FacingOf(np, f),
         NEW verts, \A u \in 1 .. Len(tris) : ~f[u] => CornersOf(tris, u) \subseteq ToSet(verts)
  PROVE  SidesFit(verts, K, f)
<1>1. Len(tris) \in Nat /\ np = Len(tris) + 1
  BY DEF NoPlane
<1>2. SUFFICES ASSUME NEW i \in DOMAIN K, f[K[i].p1] # f[K[i].p2]
               PROVE  {K[i].v1, K[i].v2} \subseteq ToSet(verts)
  BY DEF SidesFit
<1>3. PICK p1, p2 : p1 = K[i].p1 /\ p2 = K[i].p2
  OBVIOUS
<1>4. p1 \in 1 .. np - 1 /\ p2 \in 1 .. np
  <2>1. K[i] \in SilEdge(Vertices, np)
    BY DEF GoodEdges
  <2> QED
    BY <1>3, <2>1 DEF SilEdge
<1>5. f[p1] \in BOOLEAN /\ f[p2] \in BOOLEAN /\ f[np] = TRUE
  <2>1. p1 \in 1 .. np
    BY <1>1, <1>4
  <2> QED
    BY <1>4, <2>1 DEF FacingOf
<1>6. f[p1] # f[p2]
  BY <1>2, <1>3
<1>7. CASE ~f[p1]
  <2>1. p1 \in 1 .. Len(tris)
    BY <1>1, <1>4
  <2>2. {K[i].v1, K[i].v2} \subseteq CornersOf(tris, p1)
    BY <1>3 DEF OnTriangles
  <2>3. CornersOf(tris, p1) \subseteq ToSet(verts)
    BY <1>7, <2>1
  <2> QED
    BY <2>2, <2>3
<1>8. CASE ~f[p2]
  <2>1. p2 # np
    BY <1>5, <1>8
  <2>2. p2 \in 1 .. Len(tris)
    BY <1>1, <1>4, <2>1
  <2>3. {K[i].v1, K[i].v2} \subseteq CornersOf(tris, p2)
    BY <1>3, <2>1 DEF OnTriangles
  <2>4. CornersOf(tris, p2) \subseteq ToSet(verts)
    BY <1>8, <2>2
  <2> QED
    BY <2>3, <2>4
<1> QED
  BY <1>5, <1>6, <1>7, <1>8

\* A volume of a surface.
VolumeMade(cap, all, K, own) ==
  /\ all.indices = shadowIndices \o own
  /\ VolumeShows(cap.verts, own, all.stop \/ Len(K) >= MaxSilEdges)

\* The cap and the sides fit together.
LEMMA VolumeIsShown ==
  ASSUME NEW tris \in Seq([1 .. 3 -> Vertices]), NEW K, K = SilEdgesOf(tris),
         NEW f, FacingOf(NoPlane(tris), f), shadowIndices \in Seq(Nat),
         NEW cap, cap = Cap(tris, f), ~cap.stop,
         NEW all, all = R_AddSilEdges(K, cap, f)
  PROVE  \E own : VolumeMade(cap, all, K, own)
<1>1. PICK np, es, sh, verts : np = NoPlane(tris) /\ es = EdgesOf(tris) /\ sh = shadowIndices /\ verts = cap.verts
  OBVIOUS
<1>2. PICK own0 : CapShows(tris, f, es, Len(tris), sh, cap, own0)
  <2>1. cap.stop \/ \E own : CapShows(tris, f, es, Len(tris), shadowIndices, cap, own)
    BY <1>1, CapIsShown
  <2> QED
    BY <1>1, <2>1
<1>3. /\ VertexList(Vertices, verts)
      /\ \A u \in 1 .. Len(tris) : ~f[u] => CornersOf(tris, u) \subseteq ToSet(verts)
      /\ cap.indices = sh \o own0
      /\ Triples(NearOnes(verts), own0)
  BY <1>1, <1>2 DEF CapShows
<1>4. /\ np \in Nat /\ GoodEdges(Vertices, np, K) /\ OnTriangles(tris, np, K)
      /\ Len(K) < MaxSilEdges => \A E : (\A v : {v} \notin E) =>
           (HowMany(SilAt(K, f, E), Len(K)) + HowMany(LitAt(es, f, E), 3 * Len(tris))) % 2 = 0
  BY <1>1, SortedEdges
<1>5. FacingOf(np, f)
  BY <1>1
<1>6. SidesFit(verts, K, f)
  BY <1>1, <1>3, <1>4, <1>5, EndsAreCollected
<1>7. PICK own : SidesShow(verts, own0, K, f, Len(K), sh, all, own)
  BY <1>1, <1>3, <1>4, <1>5, <1>6, SidesAreShown
<1>8. /\ all = [indices |-> sh \o own, stop |-> all.stop]
      /\ Triples(Indices(verts), own) /\ AllIn(own, Cuts(verts))
  BY <1>7 DEF SidesShow
<1>9. ASSUME ~all.stop, ~(Len(K) >= MaxSilEdges),
             NEW a \in NearOnes(verts), NEW b \in Indices(verts), a # b
      PROVE  EdgeUses(own, a, b) % 2 = 0
  <2>1. SidesDue(verts, own0, K, f, Len(K), own, a, b)
    BY <1>7, <1>9 DEF SidesShow
  <2>2. PICK E, u, u0, sil, lit :
          /\ E = Wanted(verts, a, b) /\ u = EdgeUses(own, a, b) /\ u0 = EdgeUses(own0, a, b)
          /\ sil = HowMany(SilAt(K, f, E), Len(K)) /\ lit = HowMany(LitAt(es, f, E), 3 * Len(tris))
    OBVIOUS
  <2>3. (u + u0 + sil) % 2 = 0
    BY <2>1, <2>2 DEF SidesDue
  <2>4. u0 \in Nat /\ (u0 + lit) % 2 = 0
    BY <1>1, <1>2, <1>9, <2>2, CapDue
  <2>5. \A v : {v} \notin E
    <3>1. SUFFICES ASSUME NEW v, {v} \in E PROVE FALSE
      OBVIOUS
    <3>2. PICK va, vb : va = VertAt(verts, a) /\ vb = VertAt(verts, b)
      OBVIOUS
    <3>3. CASE b % 2 = 0
      <4>1. b \in NearOnes(verts)
        <5>1. verts \in Seq(Vertices)
          BY <1>3 DEF VertexList
        <5> QED
          BY <3>3, <5>1, EvenIsNear
      <4>2. va # vb
        BY <1>3, <1>9, <3>2, <4>1, OneVertexOneIndex
      <4>3. E = {{va, vb}}
        BY <2>2, <3>2, <3>3 DEF Wanted
      <4>4. va \in {v} /\ vb \in {v}
        BY <3>1, <4>3
      <4> QED
        BY <4>2, <4>4
    <3>4. CASE b % 2 # 0 /\ b = a + 1
      <4>1. E = {{va, w} : w \in Vertices \ {va}}
        BY <2>2, <3>2, <3>4 DEF Wanted
      <4>2. PICK w \in Vertices \ {va} : {v} = {va, w}
        BY <3>1, <4>1
      <4>3. va \in {v} /\ w \in {v}
        BY <4>2
      <4> QED
        BY <4>2, <4>3
    <3>5. CASE b % 2 # 0 /\ b # a + 1
      BY <2>2, <3>1, <3>5 DEF Wanted
    <3> QED
      BY <3>3, <3>4, <3>5
  <2>6. Len(K) < MaxSilEdges
    <3>1. Len(K) \in Nat
      BY <1>4 DEF GoodEdges
    <3> QED
      BY <1>9, <3>1, MaxSilEdgesAssumption
  <2>7. (sil + lit) % 2 = 0
    BY <1>4, <2>2, <2>5, <2>6
  <2>8. u \in Nat /\ sil \in Nat /\ lit \in Nat
    <3>1. u \in Nat
      <4>1. own \in Seq(Indices(verts))
        BY <1>8 DEF Triples
      <4> QED
        BY <2>2, <4>1, UsesAreCounted
    <3>2. Len(K) \in Nat /\ 3 * Len(tris) \in Nat
      BY <1>4 DEF GoodEdges
    <3> QED
      BY <2>2, <3>1, <3>2, HowManyType
  <2>9. u % 2 = 0
    BY <2>3, <2>4, <2>7, <2>8, EvenRest
  <2> QED
    BY <2>2, <2>9
<1>10. VolumeShows(verts, own, all.stop \/ Len(K) >= MaxSilEdges)
  BY <1>3, <1>8, <1>9 DEF VolumeShows
<1>11. all.indices = shadowIndices \o own
  BY <1>1, <1>8
<1>12. VolumeMade(cap, all, K, own)
  BY <1>1, <1>10, <1>11 DEF VolumeMade
<1> QED
  BY <1>12

------------------------------------------------------------------------------
(* The volumes of a state.                                                 *)

\* The light is on one side of every triangle.
LEMMA FacingIsDefined ==
  ASSUME NEW tris, Len(tris) \in Nat, NEW light
  PROVE  FacingOf(Len(tris) + 1, Facing(tris, light))
<1>1. PICK N, f : N = Len(tris) /\ f = Facing(tris, light)
  OBVIOUS
<1>2. N \in Nat
  BY <1>1
<1> DEFINE lit(t) == LET a == PosOf[tris[t][1]]
                         normal == Cross(Minus(PosOf[tris[t][3]], a), Minus(PosOf[tris[t][2]], a))
                     IN  Dot(normal, Minus(light, a)) > 0
<1>3. f = [t \in 1 .. N + 1 |-> t > N \/ lit(t)]
  BY <1>1 DEF Facing
<1> HIDE DEF lit
<1>4. \A t \in 1 .. N + 1 : (t > N \/ lit(t)) \in BOOLEAN
  OBVIOUS
<1>5. f[N + 1] = TRUE
  <2>1. N + 1 \in 1 .. N + 1 /\ N + 1 > N
    BY <1>2
  <2>2. f[N + 1] = (N + 1 > N \/ lit(N + 1))
    BY <1>3, <2>1, Zenon
  <2> QED
    BY <2>1, <2>2
<1>6. f \in [1 .. N + 1 -> BOOLEAN]
  BY <1>3, <1>4
<1> QED
  BY <1>1, <1>5, <1>6 DEF FacingOf

\* The part of some indices behind those that were there before.
LEMMA OwnPart ==
  ASSUME NEW a \in Seq(Nat), NEW b \in Seq(Nat)
  PROVE  SubSeq(a \o b, Len(a) + 1, Len(a \o b)) = b
<1>1. PICK all, k, l : all = a \o b /\ k = Len(a) /\ l = Len(b)
  OBVIOUS
<1>2. k \in Nat /\ l \in Nat /\ all \in Seq(Nat) /\ Len(all) = k + l
  BY <1>1, LengthOfBoth
<1>3. SubSeq(all, k + 1, k + l) = [n \in 1 .. l |-> all[k + n]]
  <2>1. (k + l) - (k + 1) + 1 = l
    BY <1>2
  <2>2. \A n \in 1 .. l : (k + 1) + n - 1 = k + n
    BY <1>2
  <2> QED
    BY <1>2, <2>1, <2>2
<1>4. \A n \in 1 .. l : all[k + n] = b[n]
  <2>1. \A n \in 1 .. Len(a) + Len(b) : (a \o b)[n] = IF n <= Len(a) THEN a[n] ELSE b[n - Len(a)]
    BY ConcatProperties
  <2>2. ASSUME NEW n \in 1 .. l
        PROVE  all[k + n] = b[n]
    <3>1. k + n \in 1 .. k + l /\ ~(k + n <= k) /\ (k + n) - k = n
      BY <1>2
    <3> QED
      BY <1>1, <2>1, <3>1
  <2> QED
    BY <2>2
<1>5. b = [n \in 1 .. l |-> b[n]]
  BY <1>1
<1> QED
  BY <1>1, <1>2, <1>3, <1>4, <1>5

\* The inductive invariant of the volumes: each is what its call made, behind what was in
\* the indices before.
VolumesAsMade ==
  /\ SurfacesAsComputed
  /\ shadowIndices \in Seq(Nat)
  /\ DOMAIN shadowTris = Interactions /\ DOMAIN madeFrom = Interactions
  /\ \A i \in Volumes :
       /\ shadowTris[i].numVerts = 2 * Len(madeFrom[i].verts)
       /\ VolumeShows(madeFrom[i].verts, OwnIndices(i), madeFrom[i].cut \/ madeFrom[i].full)

\* There is none at first.
LEMMA VolumesBegin == Init => VolumesAsMade
<1> SUFFICES ASSUME Init PROVE VolumesAsMade
  OBVIOUS
<1>1. SurfacesAsComputed
  BY SurfacesBegin
<1>2. shadowIndices \in Seq(Nat) /\ Volumes = {}
      /\ DOMAIN shadowTris = Interactions /\ DOMAIN madeFrom = Interactions
  BY DEF Init, Volumes
<1> QED
  BY <1>1, <1>2 DEF VolumesAsMade

\* A surface that has silhouette edges.
LEMMA ComputedSurface ==
  ASSUME SurfacesAsComputed, NEW s \in DOMAIN indices, silEdges[s] # Nothing, NEW light
  PROVE  /\ silIndices[s] \in Seq([1 .. 3 -> Vertices])
         /\ silEdges[s] = SilEdgesOf(silIndices[s])
         /\ FacingOf(NoPlane(silIndices[s]), Facing(indices[s], light))
<1>1. s \in Surfaces
  BY ScenesAssumption DEF SurfacesAsComputed
<1>2. /\ silIndices[s] = SilIndices(indices[s], PosOf)
      /\ silEdges[s] = SilEdgesOf(silIndices[s])
  BY <1>1 DEF SurfacesAsComputed
<1>3. indices[s] \in Seq([1 .. 3 -> Vertices])
  BY ScenesAssumption DEF SurfacesAsComputed, Vertices
<1>4. silIndices[s] \in Seq([1 .. 3 -> Vertices]) /\ Len(silIndices[s]) = Len(indices[s])
  BY <1>2, <1>3, FirstVertices
<1>5. FacingOf(Len(indices[s]) + 1, Facing(indices[s], light))
  BY <1>3, FacingIsDefined
<1> QED
  BY <1>2, <1>4, <1>5 DEF NoPlane

\* A call that overflows makes none and changes none.
LEMMA OverflowKeepsVolumes ==
  ASSUME VolumesAsMade, SurfacesAsComputed', NEW s \in DOMAIN indices, NEW light \in Lights,
         CapOverflows(s, light)
  PROVE  VolumesAsMade'
<1>1. SurfacesAsComputed /\ shadowIndices \in Seq(Nat)
  BY DEF VolumesAsMade
<1>2. PICK tris, f, cap : tris = silIndices[s] /\ f = Facing(indices[s], light) /\ cap = Cap(tris, f)
  OBVIOUS
<1>3. silEdges[s] # Nothing /\ shadowIndices' = cap.indices /\ UNCHANGED <<shadowTris, madeFrom>>
  BY <1>2 DEF CapOverflows
<1>4. tris \in Seq([1 .. 3 -> Vertices]) /\ FacingOf(NoPlane(tris), f)
  BY <1>1, <1>2, <1>3, ComputedSurface
<1>5. PICK es : es = EdgesOf(tris)
  OBVIOUS
<1>6. cap.indices \in Seq(Nat)
  BY <1>1, <1>2, <1>4, <1>5, CapIsShown
<1>7. Volumes' = Volumes /\ \A i \in Volumes : OwnIndices(i)' = OwnIndices(i)
  BY <1>3 DEF Volumes, OwnIndices
<1> QED
  BY <1>3, <1>6, <1>7 DEF VolumesAsMade

\* A call makes one and changes no other.
LEMMA CallKeepsVolumes ==
  ASSUME VolumesAsMade, SurfacesAsComputed', NEW s \in DOMAIN indices, NEW light \in Lights,
         NEW i \in Interactions, CreateInteraction(i, s, light)
  PROVE  VolumesAsMade'
<1>1. SurfacesAsComputed /\ shadowIndices \in Seq(Nat)
      /\ DOMAIN shadowTris = Interactions /\ DOMAIN madeFrom = Interactions
  BY DEF VolumesAsMade
<1>2. PICK tris, f, cap, K, all :
        /\ tris = silIndices[s] /\ f = Facing(indices[s], light) /\ cap = Cap(tris, f)
        /\ K = silEdges[s] /\ all = R_AddSilEdges(K, cap, f)
  OBVIOUS
<1>3. PICK vol, made :
        /\ vol = [numVerts |-> 2 * Len(cap.verts), indices |-> all.indices,
                  numCap |-> Len(cap.indices), numSil |-> cSils']
        /\ made = [surface |-> s, verts |-> cap.verts, lit |-> {t \in DOMAIN indices[s] : ~f[t]},
                   carried |-> Len(shadowIndices), cut |-> all.stop,
                   full |-> Len(silEdges[s]) >= MaxSilEdges]
  OBVIOUS
<1>4. /\ silEdges[s] # Nothing /\ ~cap.stop /\ shadowIndices' = all.indices
      /\ shadowTris' = [shadowTris EXCEPT ![i] = vol]
      /\ madeFrom' = [madeFrom EXCEPT ![i] = made]
  BY <1>2, <1>3 DEF CreateInteraction
<1>5. tris \in Seq([1 .. 3 -> Vertices]) /\ K = SilEdgesOf(tris) /\ FacingOf(NoPlane(tris), f)
  BY <1>1, <1>2, <1>4, ComputedSurface
<1>6. PICK own : /\ all.indices = shadowIndices \o own
                 /\ VolumeShows(cap.verts, own, all.stop \/ Len(K) >= MaxSilEdges)
  <2>1. PICK own : VolumeMade(cap, all, K, own)
    BY <1>1, <1>2, <1>4, <1>5, VolumeIsShown
  <2> QED
    BY <2>1 DEF VolumeMade
<1>7. own \in Seq(Nat)
  <2>1. cap.verts \in Seq(Vertices) /\ own \in Seq(Indices(cap.verts))
    BY <1>6 DEF VolumeShows, VertexList, Triples
  <2>2. Indices(cap.verts) \subseteq Nat
    BY <2>1 DEF Indices
  <2> QED
    BY <2>1, <2>2
<1>8. shadowIndices' \in Seq(Nat)
  <2>1. shadowIndices \o own \in Seq(Nat)
    BY <1>1, <1>7, LengthOfBoth
  <2> QED
    BY <1>4, <1>6, <2>1
<1>9. shadowTris'[i] = vol /\ madeFrom'[i] = made
  BY <1>1, <1>4
<1>10. OwnIndices(i)' = own
  <2>1. OwnIndices(i)' = SubSeq(vol.indices, made.carried + 1, Len(vol.indices))
    BY <1>9 DEF OwnIndices
  <2>2. vol.indices = shadowIndices \o own /\ made.carried = Len(shadowIndices)
    BY <1>3, <1>6
  <2> QED
    BY <1>1, <1>7, <2>1, <2>2, OwnPart
<1>11. /\ shadowTris'[i].numVerts = 2 * Len(madeFrom'[i].verts)
       /\ VolumeShows(madeFrom'[i].verts, OwnIndices(i)', madeFrom'[i].cut \/ madeFrom'[i].full)
  <2>1. /\ vol.numVerts = 2 * Len(cap.verts) /\ made.verts = cap.verts
        /\ made.cut = all.stop /\ made.full = (Len(K) >= MaxSilEdges)
    BY <1>2, <1>3
  <2>2. VolumeShows(made.verts, own, made.cut \/ made.full)
    BY <1>6, <2>1
  <2> QED
    BY <1>9, <1>10, <2>1, <2>2
<1>12. ASSUME NEW j \in Volumes', j # i
       PROVE  /\ shadowTris'[j].numVerts = 2 * Len(madeFrom'[j].verts)
              /\ VolumeShows(madeFrom'[j].verts, OwnIndices(j)', madeFrom'[j].cut \/ madeFrom'[j].full)
  <2>1. shadowTris'[j] = shadowTris[j] /\ madeFrom'[j] = madeFrom[j] /\ j \in Volumes
    BY <1>1, <1>4, <1>12 DEF Volumes
  <2>2. OwnIndices(j)' = OwnIndices(j)
    BY <2>1 DEF OwnIndices
  <2>3. /\ shadowTris[j].numVerts = 2 * Len(madeFrom[j].verts)
        /\ VolumeShows(madeFrom[j].verts, OwnIndices(j), madeFrom[j].cut \/ madeFrom[j].full)
    BY <2>1 DEF VolumesAsMade
  <2> QED
    BY <2>1, <2>2, <2>3
<1>13. DOMAIN shadowTris' = Interactions /\ DOMAIN madeFrom' = Interactions
  BY <1>1, <1>4
<1> QED
  BY <1>8, <1>11, <1>12, <1>13 DEF VolumesAsMade

\* Every step keeps them.
LEMMA VolumesGoOn == VolumesAsMade /\ [Next]_vars => VolumesAsMade'
<1> SUFFICES ASSUME VolumesAsMade, [Next]_vars
             PROVE  VolumesAsMade'
  OBVIOUS
<1>1. SurfacesAsComputed'
  BY SurfacesGoOn DEF VolumesAsMade
<1>2. ASSUME UNCHANGED <<shadowIndices, shadowTris, madeFrom>>
      PROVE  VolumesAsMade'
  <2>1. Volumes' = Volumes /\ \A i \in Volumes : OwnIndices(i)' = OwnIndices(i)
    BY <1>2 DEF Volumes, OwnIndices
  <2> QED
    BY <1>1, <1>2, <2>1 DEF VolumesAsMade
<1>3. ASSUME NEW s \in DOMAIN indices, R_CreateSilIndice(s) \/ R_IdentifySilEdges(s) \/ HasShadow(s)
      PROVE  VolumesAsMade'
  BY <1>2, <1>3 DEF R_CreateSilIndice, R_IdentifySilEdges, HasShadow, vars
<1>4. ASSUME NEW s \in DOMAIN indices, NEW light \in Lights, CapOverflows(s, light)
      PROVE  VolumesAsMade'
  BY <1>1, <1>4, OverflowKeepsVolumes
<1>5. ASSUME NEW s \in DOMAIN indices, NEW light \in Lights, NEW i \in Interactions,
             CreateInteraction(i, s, light)
      PROVE  VolumesAsMade'
  BY <1>1, <1>5, CallKeepsVolumes
<1>6. CASE UNCHANGED vars
  BY <1>2, <1>6 DEF vars
<1> QED
  BY <1>3, <1>4, <1>5, <1>6 DEF Next

\* A diagonal goes down.
LEMMA DiagonalsGoDown ==
  ASSUME VolumesAsMade, NEW i \in Volumes, NEW d \in Diagonals(i)
  PROVE  /\ d[1] \in Vertices /\ d[2] \in Vertices
         /\ d[1] = d[2] \/ PointHash(d[2]) <= PointHash(d[1])
<1>1. PICK own, verts : own = OwnIndices(i) /\ verts = madeFrom[i].verts
  OBVIOUS
<1>2. VertexList(Vertices, verts) /\ Triples(Indices(verts), own) /\ AllIn(own, Cuts(verts))
  BY <1>1 DEF VolumesAsMade, VolumeShows
<1>3. PICK n \in DOMAIN own : \E x, y \in Ends(own, n) :
        x % 2 = 0 /\ y % 2 = 1 /\ d = <<VertAt(verts, x), VertAt(verts, y)>>
  BY <1>1 DEF Diagonals, VertAt
<1> PICK x \in Ends(own, n), y \in Ends(own, n) :
        x % 2 = 0 /\ y % 2 = 1 /\ d = <<VertAt(verts, x), VertAt(verts, y)>>
  BY <1>3
<1>4. Ends(own, n) \in SUBSET Indices(verts) /\ CutRight(verts, Ends(own, n))
  BY <1>2 DEF AllIn, Cuts
<1>5. VertAt(verts, x) = VertAt(verts, y) \/ PointHash(VertAt(verts, y)) <= PointHash(VertAt(verts, x))
  BY <1>3, <1>4 DEF CutRight
<1>6. \A z \in Indices(verts) : VertAt(verts, z) \in Vertices
  <2> TAKE z \in Indices(verts)
  <2>1. verts \in Seq(Vertices)
    BY <1>2 DEF VertexList
  <2>2. PICK L : L = Len(verts)
    OBVIOUS
  <2>3. L \in Nat /\ z \in 0 .. 2 * L - 1 /\ DOMAIN verts = 1 .. L
    BY <2>1, <2>2 DEF Indices
  <2>4. PICK k : k = z \div 2
    OBVIOUS
  <2>5. k + 1 \in 1 .. L
    BY <2>3, <2>4
  <2> QED
    BY <2>1, <2>3, <2>4, <2>5 DEF VertAt
<1>7. VertAt(verts, x) \in Vertices /\ VertAt(verts, y) \in Vertices
  BY <1>3, <1>4, <1>6
<1> QED
  BY <1>3, <1>5, <1>7

\* Coincident quads are cut alike.
LEMMA DiagonalsAgree == VolumesAsMade => SameDiagonal
<1> SUFFICES ASSUME VolumesAsMade, NEW i \in Volumes, NEW j \in Volumes,
                    NEW d \in Diagonals(i), NEW e \in Diagonals(j),
                    d[1] # d[2], PointHash(d[1]) # PointHash(d[2]),
                    PosOf[d[1]] = PosOf[e[2]], PosOf[d[2]] = PosOf[e[1]]
             PROVE  FALSE
  BY DEF SameDiagonal
<1>1. d[1] \in Vertices /\ d[2] \in Vertices /\ (d[1] = d[2] \/ PointHash(d[2]) <= PointHash(d[1]))
  BY DiagonalsGoDown
<1>2. e[1] = e[2] \/ PointHash(e[2]) <= PointHash(e[1])
  BY DiagonalsGoDown
<1>3. PointHash(d[1]) = PointHash(e[2]) /\ PointHash(d[2]) = PointHash(e[1])
  BY DEF PointHash
<1>4. PointHash(d[1]) \in Int /\ PointHash(d[2]) \in Int
  BY <1>1, HashIsNumber
<1>5. PICK h1, h2 : h1 = PointHash(d[1]) /\ h2 = PointHash(d[2])
  OBVIOUS
<1>6. h1 \in Int /\ h2 \in Int /\ h1 # h2 /\ h2 <= h1
  BY <1>1, <1>4, <1>5
<1>7. e[1] = e[2] \/ h1 <= h2
  BY <1>2, <1>3, <1>5
<1>8. e[1] # e[2]
  BY <1>3, <1>5, <1>6
<1> QED
  BY <1>6, <1>7, <1>8

\* Volumes made this way close.
LEMMA MadeVolumesClose == VolumesAsMade => SidesCloseCap
<1> SUFFICES ASSUME VolumesAsMade
             PROVE  SidesCloseCap
  OBVIOUS
<1>1. ASSUME NEW i \in Volumes
      PROVE  /\ \A n \in DOMAIN OwnIndices(i) : OwnIndices(i)[n] < shadowTris[i].numVerts
             /\ ~madeFrom[i].cut /\ ~madeFrom[i].full =>
                  \A a, b \in 0 .. shadowTris[i].numVerts - 1 :
                    a # b /\ a % 2 = 0 => EdgeUses(OwnIndices(i), a, b) % 2 = 0
  <2>1. PICK own, verts : own = OwnIndices(i) /\ verts = madeFrom[i].verts
    OBVIOUS
  <2>2. shadowTris[i].numVerts = 2 * Len(verts)
    BY <2>1 DEF VolumesAsMade
  <2>3. VertexList(Vertices, verts) /\ Triples(Indices(verts), own)
    BY <2>1 DEF VolumesAsMade, VolumeShows
  <2>4. ~madeFrom[i].cut /\ ~madeFrom[i].full =>
          \A a \in NearOnes(verts), b \in Indices(verts) : a # b => EdgeUses(own, a, b) % 2 = 0
    BY <2>1 DEF VolumesAsMade, VolumeShows
  <2>5. verts \in Seq(Vertices) /\ own \in Seq(Indices(verts))
    BY <2>3 DEF VertexList, Triples
  <2>6. \A n \in DOMAIN own : own[n] < 2 * Len(verts)
    <3> TAKE n \in DOMAIN own
    <3>1. own[n] \in Indices(verts)
      BY <2>5
    <3>2. Len(verts) \in Nat
      BY <2>5
    <3> QED
      BY <3>1, <3>2 DEF Indices
  <2>7. Indices(verts) = 0 .. shadowTris[i].numVerts - 1
    BY <2>2 DEF Indices
  <2>8. \A a \in Indices(verts) : a % 2 = 0 => a \in NearOnes(verts)
    BY <2>5, EvenIsNear
  <2> QED
    BY <2>1, <2>2, <2>4, <2>6, <2>7, <2>8
<1>2. SameDiagonal
  BY DiagonalsAgree
<1> QED
  BY <1>1, <1>2 DEF SidesCloseCap

\* For every surface, every light and any number of calls over the statics: the sides of a
\* volume close its cap, unless some were left out, it refers to its own vertices, and
\* coincident quads of two volumes are cut alike.
THEOREM SidesClose == Spec => []SidesCloseCap
<1>1. Init => VolumesAsMade
  BY VolumesBegin
<1>2. VolumesAsMade /\ [Next]_vars => VolumesAsMade'
  BY VolumesGoOn
<1>3. VolumesAsMade => SidesCloseCap
  BY MadeVolumesClose
<1> QED
  BY <1>1, <1>2, <1>3, PTL DEF Spec
==============================================================================
