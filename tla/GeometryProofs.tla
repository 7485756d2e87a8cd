---------------------------- MODULE GeometryProofs ----------------------------
(***************************************************************************)
(* Proofs about Geometry, for any places on the plane, any polygon and any *)
(* circle: who is in a fence, how far the others are from it, and who is   *)
(* let in.  Distances to an edge come from the identity of Lagrange;       *)
(* whether a ray finds the inside of a triangle from the balance of the    *)
(* three areas that a point makes with its edges; cutting a polygon from   *)
(* the parity of the edges that a ray meets; and the radius of a circle    *)
(* from an induction over its samples, which is made on the set of the     *)
(* numbers for which the claim holds (AllNaturals).                        *)
(***************************************************************************)
EXTENDS Geometry, FiniteSetTheorems, SequenceTheorems, TLAPS

-----------------------------------------------------------------------------
(* Distances and edges                                                     *)

PlaneCell == Int \X Int

LEMMA DistanceType ==
  ASSUME NEW p \in PlaneCell, NEW q \in PlaneCell
  PROVE  /\ DistanceMeters2(p, q) \in Int /\ DistanceMeters2(p, q) >= 0
         /\ p # q => DistanceMeters2(p, q) > 0
<1>1. PICK p1 \in Int, p2 \in Int : p = <<p1, p2>>
  BY DEF PlaneCell
<1>2. PICK q1 \in Int, q2 \in Int : q = <<q1, q2>>
  BY DEF PlaneCell
<1>3. \A x \in Int : x * x \in Int /\ x * x >= 0 /\ (x # 0 => x * x > 0)
  OBVIOUS
<1>4. p1 - q1 \in Int /\ p2 - q2 \in Int
  BY <1>1, <1>2
<1>5. DistanceMeters2(p, q) = (p1 - q1) * (p1 - q1) + (p2 - q2) * (p2 - q2)
  BY <1>1, <1>2 DEF DistanceMeters2
<1> DEFINE a == (p1 - q1) * (p1 - q1)
           b == (p2 - q2) * (p2 - q2)
<1>6. a \in Int /\ a >= 0 /\ (p1 # q1 => a > 0)
  BY <1>3, <1>4
<1>7. b \in Int /\ b >= 0 /\ (p2 # q2 => b > 0)
  BY <1>3, <1>4
<1>8. DistanceMeters2(p, q) = a + b
  BY <1>5
<1> HIDE DEF a, b
<1> QED BY <1>1, <1>2, <1>6, <1>7, <1>8

LEMMA Lagrange ==
  ASSUME NEW a \in PlaneCell, NEW b \in PlaneCell, NEW p \in PlaneCell
  PROVE  /\ Dot(a, b, p) \in Int /\ Cross(a, b, p) \in Int
         /\ Dot(a, b, p) + Dot(b, a, p) = DistanceMeters2(a, b)
         /\ DistanceMeters2(a, p) * DistanceMeters2(a, b)
              = Dot(a, b, p) * Dot(a, b, p) + Cross(a, b, p) * Cross(a, b, p)
         /\ Cross(b, a, p) = -Cross(a, b, p)
<1>1. PICK a1 \in Int, a2 \in Int : a = <<a1, a2>>
  BY DEF PlaneCell
<1>2. PICK b1 \in Int, b2 \in Int : b = <<b1, b2>>
  BY DEF PlaneCell
<1>3. PICK p1 \in Int, p2 \in Int : p = <<p1, p2>>
  BY DEF PlaneCell
<1>4. /\ Dot(a, b, p) = (p1 - a1) * (b1 - a1) + (p2 - a2) * (b2 - a2)
      /\ Dot(b, a, p) = (p1 - b1) * (a1 - b1) + (p2 - b2) * (a2 - b2)
      /\ Cross(a, b, p) = (b1 - a1) * (p2 - a2) - (b2 - a2) * (p1 - a1)
      /\ Cross(b, a, p) = (a1 - b1) * (p2 - b2) - (a2 - b2) * (p1 - b1)
      /\ DistanceMeters2(a, b) = (a1 - b1) * (a1 - b1) + (a2 - b2) * (a2 - b2)
      /\ DistanceMeters2(a, p) = (a1 - p1) * (a1 - p1) + (a2 - p2) * (a2 - p2)
  BY <1>1, <1>2, <1>3 DEF Dot, Cross, DistanceMeters2
<1>5. \A u1, u2, v1, v2 \in Int :
        (u1 * u1 + u2 * u2) * (v1 * v1 + v2 * v2)
          = (v1 * u1 + v2 * u2) * (v1 * u1 + v2 * u2) + (u1 * v2 - u2 * v1) * (u1 * v2 - u2 * v1)
  OBVIOUS
<1>6. Dot(a, b, p) \in Int /\ Cross(a, b, p) \in Int
  BY <1>4
<1>7. Dot(a, b, p) + Dot(b, a, p) = DistanceMeters2(a, b)
  BY <1>4
<1>8. Cross(b, a, p) = -Cross(a, b, p)
  BY <1>4
<1>9. DistanceMeters2(a, p) * DistanceMeters2(a, b)
              = Dot(a, b, p) * Dot(a, b, p) + Cross(a, b, p) * Cross(a, b, p)
  BY <1>4
<1> QED BY <1>6, <1>7, <1>8, <1>9

LEMMA Squares ==
  /\ \A x \in Int : x * x \in Int /\ x * x >= 0
  /\ \A x, y \in Int : 0 <= x /\ x <= y => x * x <= y * y
  /\ \A x, y, d \in Int : x <= y /\ 0 <= d => x * d <= y * d
  /\ \A x, y, d \in Int : 0 < d /\ x * d <= y * d => x <= y
  OBVIOUS

\* A segment within reach is within any greater reach.
LEMMA WithinMore ==
  ASSUME NEW a \in PlaneCell, NEW b \in PlaneCell, NEW p \in PlaneCell,
         NEW r \in Nat, NEW s \in Nat, r <= s, SegmentWithin(a, b, p, r)
  PROVE  SegmentWithin(a, b, p, s)
<1>1. r * r \in Int /\ s * s \in Int /\ r * r <= s * s
  BY Squares
<1>2. /\ DistanceMeters2(a, p) \in Int /\ DistanceMeters2(b, p) \in Int
      /\ DistanceMeters2(a, b) \in Int /\ DistanceMeters2(a, b) >= 0
  BY DistanceType
<1>3. (r * r) * DistanceMeters2(a, b) <= (s * s) * DistanceMeters2(a, b)
  BY <1>1, <1>2, Squares
<1>4. Cross(a, b, p) * Cross(a, b, p) \in Int
  BY Lagrange, Squares
<1>5. (r * r) * DistanceMeters2(a, b) \in Int /\ (s * s) * DistanceMeters2(a, b) \in Int
  BY <1>1, <1>2
<1> QED BY <1>1, <1>2, <1>3, <1>4, <1>5 DEF SegmentWithin

\* Near one of two places, or across the segment between them.
Near(a, b, p, r) ==
  \/ DistanceMeters2(a, p) <= r * r
  \/ DistanceMeters2(b, p) <= r * r
  \/ /\ Dot(a, b, p) > 0 /\ Dot(b, a, p) > 0
     /\ Cross(a, b, p) * Cross(a, b, p) <= r * r * DistanceMeters2(a, b)

LEMMA WithinIsNear ==
  ASSUME NEW a \in PlaneCell, NEW b \in PlaneCell, NEW p \in PlaneCell, NEW r \in Nat,
         SegmentWithin(a, b, p, r)
  PROVE  Near(a, b, p, r)
<1>1. r * r \in Int
  BY Squares
<1>2. /\ Dot(a, b, p) \in Int /\ Dot(b, a, p) \in Int /\ Cross(a, b, p) \in Int
      /\ Dot(b, a, p) = DistanceMeters2(a, b) - Dot(a, b, p)
      /\ DistanceMeters2(a, b) = DistanceMeters2(b, a)
  BY Lagrange, DistanceType
<1>3. CASE a = b \/ Dot(a, b, p) < 0 \/ Dot(a, b, p) > DistanceMeters2(a, b)
  BY <1>3 DEF SegmentWithin, Near
<1>4. CASE /\ a # b /\ 0 <= Dot(a, b, p) /\ Dot(a, b, p) <= DistanceMeters2(a, b)
  <2>1. Cross(a, b, p) * Cross(a, b, p) <= r * r * DistanceMeters2(a, b)
    BY <1>2, <1>4, DistanceType DEF SegmentWithin
  <2>2. ASSUME NEW c \in PlaneCell, NEW d \in PlaneCell, c # d, Dot(c, d, p) = 0,
               Cross(c, d, p) * Cross(c, d, p) <= r * r * DistanceMeters2(c, d)
        PROVE  DistanceMeters2(c, p) <= r * r
    <3>1. DistanceMeters2(c, p) * DistanceMeters2(c, d) <= r * r * DistanceMeters2(c, d)
      BY <2>2, Lagrange
    <3>2. DistanceMeters2(c, p) \in Int /\ DistanceMeters2(c, d) \in Int /\ DistanceMeters2(c, d) > 0
      BY <2>2, DistanceType
    <3> QED BY <1>1, <3>1, <3>2, Squares
  <2>3. CASE Dot(a, b, p) = 0
    BY <1>4, <2>1, <2>2, <2>3 DEF Near
  <2>4. CASE Dot(b, a, p) = 0
    <3>1. Cross(b, a, p) * Cross(b, a, p) = Cross(a, b, p) * Cross(a, b, p)
      BY <1>2, Lagrange
    <3> QED BY <1>2, <1>4, <2>1, <2>2, <2>4, <3>1 DEF Near
  <2>5. CASE Dot(a, b, p) > 0 /\ Dot(b, a, p) > 0
    BY <2>1, <2>5 DEF Near
  <2> QED BY <1>2, <1>4, <2>3, <2>4, <2>5, DistanceType
<1> QED BY <1>2, <1>3, <1>4, DistanceType

-----------------------------------------------------------------------------
\* The ring that is stored has the corners of the points.
LEMMA RingIs ==
  ASSUME NEW ps \in Seq(PlaneCell), Len(ps) >= 1, Ring(ps) # <<>>
  PROVE  /\ Ring(ps) \in Seq(PlaneCell)
         /\ Ring(ps) = ps \/ Ring(ps) = Append(ps, ps[1])
<1>1. ps[1] \in PlaneCell
  BY ElementOfSeq
<1>2. Append(ps, ps[1]) \in Seq(PlaneCell)
  BY <1>1, AppendProperties
<1> QED BY <1>2 DEF Ring, ParsePolygonRing, BuildPolygon

\* The corner after the last one is the first.
LEMMA NextCorner ==
  ASSUME NEW n \in Nat, n >= 1, NEW i \in 1..n
  PROVE  (i % n) + 1 = IF i = n THEN 1 ELSE i + 1
<1>1. CASE i = n
  <2>1. n % n = 0
    OBVIOUS
  <2> QED BY <1>1, <2>1
<1>2. CASE i < n
  <2>1. i % n = i
    BY <1>2
  <2> QED BY <1>2, <2>1
<1> QED BY <1>1, <1>2

\* Every edge of the ring is one of the polygon, or the first corner by itself.
LEMMA RingEdges ==
  ASSUME NEW ps \in Seq(PlaneCell), Len(ps) >= 1, Ring(ps) # <<>>, NEW k \in DOMAIN Ring(ps)
  PROVE  \E i, j \in DOMAIN ps : /\ i = j \/ j = (i % Len(ps)) + 1
                                 /\ Ring(ps)[k] = ps[i]
                                 /\ Ring(ps)[(k % Len(Ring(ps))) + 1] = ps[j]
<1>1. PICK n \in Nat : n = Len(ps) /\ n >= 1 /\ DOMAIN ps = 1..n
  OBVIOUS
<1>2. CASE Ring(ps) = ps
  <2>1. k \in 1..n /\ (k % n) + 1 \in 1..n
    <3>1. k \in 1..n
      BY <1>1, <1>2
    <3>2. (k % n) + 1 = IF k = n THEN 1 ELSE k + 1
      BY <1>1, <3>1, NextCorner
    <3>3. (IF k = n THEN 1 ELSE k + 1) \in 1..n
      BY <1>1, <3>1
    <3> QED BY <3>1, <3>2, <3>3
  <2> QED BY <1>1, <1>2, <2>1
<1>3. CASE Ring(ps) = Append(ps, ps[1])
  <2>1. /\ Len(Ring(ps)) = n + 1 /\ k \in 1..(n + 1) /\ Ring(ps)[n + 1] = ps[1]
        /\ \A i \in 1..n : Ring(ps)[i] = ps[i]
    BY <1>1, <1>3
  <2>2. PICK m \in Nat : m = n + 1 /\ m >= 1 /\ k \in 1..m
    BY <1>1, <2>1
  <2>3. (k % m) + 1 = IF k = m THEN 1 ELSE k + 1
    BY <2>2, NextCorner
  <2>4. CASE k = m
    <3>1. 1 \in 1..n
      BY <1>1
    <3> QED BY <1>1, <2>1, <2>2, <2>3, <2>4, <3>1
  <2>5. CASE k # m
    <3>1. k \in 1..n
      BY <1>1, <2>2, <2>5
    <3>2. (k % n) + 1 = IF k = n THEN 1 ELSE k + 1
      BY <1>1, <3>1, NextCorner
    <3>3. PICK j \in 1..n : j = IF k = n THEN 1 ELSE k + 1
      BY <1>1, <3>1
    <3>4. Ring(ps)[k + 1] = ps[j]
      BY <1>1, <2>1, <3>1, <3>3
    <3>5. j = (k % n) + 1 /\ (k % m) + 1 = k + 1
      BY <2>3, <2>5, <3>2, <3>3
    <3> QED BY <1>1, <2>1, <2>2, <3>1, <3>4, <3>5
  <2> QED BY <2>4, <2>5
<1> QED BY <1>2, <1>3, RingIs

LEMMA BoundsGrow ==
  /\ DOMAIN Presets = 1..4
  /\ \A k \in 1..4 : FenceBuffer(Presets[k]) \in Nat /\ MaxAccuracy(Presets[k]) \in Nat
  /\ \A k \in 1..3 : /\ FenceBuffer(Presets[k]) <= FenceBuffer(Presets[k + 1])
                     /\ MaxAccuracy(Presets[k]) <= MaxAccuracy(Presets[k + 1])
BY DEF Presets, FenceBuffer, MaxAccuracy

LEMMA BufferIs ==
  ASSUME NEW accuracy \in Nat, NEW bound \in Nat
  PROVE  /\ AccuracyBuffer(accuracy, bound) \in Nat /\ AccuracyBuffer(accuracy, bound) <= bound
         /\ \A more \in Nat : bound <= more =>
              AccuracyBuffer(accuracy, bound) <= AccuracyBuffer(accuracy, more)
BY DEF AccuracyBuffer

-----------------------------------------------------------------------------
(* Induction                                                               *)

\* Every set of naturals that is not empty has a least element, hence a set with 0 and
\* the successors of its elements has all of them.
LEMMA LeastNatural ==
  ASSUME NEW T \in SUBSET Nat, T # {}
  PROVE  \E n \in T : \A m \in T : n <= m
<1> DEFINE below == {0..(n - 1) : n \in T}
           order == StrictSubsetOrdering(Nat)
<1>1. below \subseteq FiniteSubsetsOf(Nat)
  <2> SUFFICES ASSUME NEW n \in T PROVE 0..(n - 1) \in FiniteSubsetsOf(Nat)
    OBVIOUS
  <2>1. n \in Nat /\ 0 \in Int /\ n - 1 \in Int
    OBVIOUS
  <2>2. IsFiniteSet(0..(n - 1))
    BY <2>1, FS_Interval
  <2>3. 0..(n - 1) \in SUBSET Nat
    BY <2>1
  <2> QED BY <2>2, <2>3 DEF FiniteSubsetsOf
<1>2. below # {}
  OBVIOUS
<1>3. IsWellFoundedOn(order, FiniteSubsetsOf(Nat))
  BY FS_StrictSubsetOrderingWellFounded
<1> HIDE DEF below, order
<1>4. PICK x \in below : \A y \in below : ~(<<y, x>> \in order)
  BY <1>1, <1>2, <1>3, WFMin
<1> USE DEF below, order
<1>5. PICK n \in T : x = 0..(n - 1)
  BY <1>4
<1>6. ASSUME NEW m \in T, m < n PROVE FALSE
  <2>1. 0..(m - 1) \in below /\ <<0..(m - 1), x>> \notin order
    BY <1>4
  <2>2. m \in Nat /\ n \in Nat
    OBVIOUS
  <2>3. 0..(m - 1) \subseteq 0..(n - 1) /\ 0..(m - 1) \subseteq Nat /\ 0..(n - 1) \subseteq Nat
    BY <1>6, <2>2
  <2>4. m \in 0..(n - 1) /\ m \notin 0..(m - 1)
    BY <1>6, <2>2
  <2> QED BY <1>5, <2>1, <2>3, <2>4 DEF StrictSubsetOrdering
<1> QED BY <1>6

LEMMA AllNaturals ==
  ASSUME NEW S, 0 \in S, \A n \in Nat : n \in S => n + 1 \in S
  PROVE  Nat \subseteq S
<1> SUFFICES ASSUME Nat \ S # {} PROVE FALSE
  OBVIOUS
<1>1. PICK n \in Nat \ S : \A m \in Nat \ S : n <= m
  BY LeastNatural
<1>2. n # 0 /\ n - 1 \in Nat /\ n - 1 \in S
  BY <1>1
<1> QED BY <1>1, <1>2

-----------------------------------------------------------------------------
(* Rays                                                                    *)

-----------------------------------------------------------------------------
\* An edge as the ray sees it: it goes up across the ray on one side, or down on the other.
LEMMA EdgeSigns ==
  ASSUME NEW ring, NEW i, NEW p \in PlaneCell,
         ring[i] \in PlaneCell, ring[Before(ring, i)] \in PlaneCell
  PROVE  LET a == ring[i]
             b == ring[Before(ring, i)]
         IN  Crosses(ring, i, p) <=>
               \/ a[2] <= p[2] /\ b[2] > p[2] /\ Cross(a, b, p) > 0
               \/ a[2] > p[2] /\ b[2] <= p[2] /\ Cross(a, b, p) < 0
<1>1. PICK a1 \in Int, a2 \in Int : ring[i] = <<a1, a2>>
  BY DEF PlaneCell
<1>2. PICK b1 \in Int, b2 \in Int : ring[Before(ring, i)] = <<b1, b2>>
  BY DEF PlaneCell
<1>3. PICK p1 \in Int, p2 \in Int : p = <<p1, p2>>
  BY DEF PlaneCell
<1>4. Cross(ring[i], ring[Before(ring, i)], p) = (b1 - a1) * (p2 - a2) - (b2 - a2) * (p1 - a1)
  BY <1>1, <1>2, <1>3 DEF Cross
<1>5. Crosses(ring, i, p) <=>
        /\ (a2 > p2) # (b2 > p2)
        /\ IF b2 - a2 > 0 THEN (p1 - a1) * (b2 - a2) < (b1 - a1) * (p2 - a2)
                          ELSE (p1 - a1) * (b2 - a2) > (b1 - a1) * (p2 - a2)
  BY <1>1, <1>2, <1>3 DEF Crosses
<1> DEFINE x == (p1 - a1) * (b2 - a2)
           y == (b1 - a1) * (p2 - a2)
<1>6. x \in Int /\ y \in Int /\ (b2 - a2) * (p1 - a1) = x
  OBVIOUS
<1>7. Cross(ring[i], ring[Before(ring, i)], p) = y - x
  BY <1>4, <1>6
<1>8. Crosses(ring, i, p) <=> /\ (a2 > p2) # (b2 > p2)
                              /\ IF b2 - a2 > 0 THEN x < y ELSE x > y
  BY <1>5
<1> HIDE DEF x, y
<1> QED BY <1>1, <1>2, <1>3, <1>6, <1>7, <1>8

EdgeCrosses(a, b, p) ==
  \/ a[2] <= p[2] /\ b[2] > p[2] /\ Cross(a, b, p) > 0
  \/ a[2] > p[2] /\ b[2] <= p[2] /\ Cross(a, b, p) < 0

LEMMA CrossesIs ==
  ASSUME NEW ring \in Seq(PlaneCell), NEW i \in 1..Len(ring), NEW p \in PlaneCell
  PROVE  Crosses(ring, i, p) <=> EdgeCrosses(ring[i], ring[IF i = 1 THEN Len(ring) ELSE i - 1], p)
<1>1. Before(ring, i) \in 1..Len(ring) /\ Before(ring, i) = IF i = 1 THEN Len(ring) ELSE i - 1
  BY DEF Before
<1>2. ring[i] \in PlaneCell /\ ring[Before(ring, i)] \in PlaneCell
  BY <1>1, ElementOfSeq
<1> QED BY <1>1, <1>2, EdgeSigns DEF EdgeCrosses

\* The direction of an edge does not matter, and no ray meets a corner by itself.
LEMMA EitherWay ==
  ASSUME NEW a \in PlaneCell, NEW b \in PlaneCell, NEW p \in PlaneCell
  PROVE  /\ EdgeCrosses(a, b, p) <=> EdgeCrosses(b, a, p)
         /\ ~EdgeCrosses(a, a, p)
<1>1. a[2] \in Int /\ b[2] \in Int /\ p[2] \in Int
  BY DEF PlaneCell
<1>2. Cross(b, a, p) = -Cross(a, b, p) /\ Cross(a, b, p) \in Int
  BY Lagrange
<1> QED BY <1>1, <1>2 DEF EdgeCrosses

CrossedBy(ring, p) == {i \in DOMAIN ring : Crosses(ring, i, p)}

LEMMA CrossedIs ==
  ASSUME NEW ring \in Seq(PlaneCell), NEW p
  PROVE  /\ CrossedBy(ring, p) \subseteq 1..Len(ring) /\ IsFiniteSet(CrossedBy(ring, p))
         /\ Cardinality(CrossedBy(ring, p)) \in Nat
<1>1. CrossedBy(ring, p) \in SUBSET (1..Len(ring)) /\ Len(ring) \in Int
  BY DEF CrossedBy
<1>2. IsFiniteSet(1..Len(ring))
  BY <1>1, FS_Interval
<1> QED BY <1>1, <1>2, FS_Subset, FS_CardinalityType

-----------------------------------------------------------------------------
(* Triangles                                                               *)

LEMMA Balance ==
  ASSUME NEW a \in PlaneCell, NEW b \in PlaneCell, NEW c \in PlaneCell, NEW p \in PlaneCell
  PROVE  /\ Cross(b, c, p) * (a[2] - p[2]) + Cross(c, a, p) * (b[2] - p[2])
              + Cross(a, b, p) * (c[2] - p[2]) = 0
         /\ a[2] = p[2] /\ b[2] = p[2] => Cross(a, b, p) = 0
<1>1. PICK a1 \in Int, a2 \in Int : a = <<a1, a2>>
  BY DEF PlaneCell
<1>2. PICK b1 \in Int, b2 \in Int : b = <<b1, b2>>
  BY DEF PlaneCell
<1>3. PICK c1 \in Int, c2 \in Int : c = <<c1, c2>>
  BY DEF PlaneCell
<1>4. PICK p1 \in Int, p2 \in Int : p = <<p1, p2>>
  BY DEF PlaneCell
<1>5. /\ Cross(a, b, p) = (b1 - a1) * (p2 - a2) - (b2 - a2) * (p1 - a1)
      /\ Cross(b, c, p) = (c1 - b1) * (p2 - b2) - (c2 - b2) * (p1 - b1)
      /\ Cross(c, a, p) = (a1 - c1) * (p2 - c2) - (a2 - c2) * (p1 - c1)
  BY <1>1, <1>2, <1>3, <1>4 DEF Cross
<1>6. Cross(b, c, p) * (a2 - p2) + Cross(c, a, p) * (b2 - p2) + Cross(a, b, p) * (c2 - p2) = 0
  BY <1>5
<1>7. a2 = p2 /\ b2 = p2 => Cross(a, b, p) = 0
  BY <1>5
<1> QED BY <1>1, <1>2, <1>3, <1>4, <1>6, <1>7

\* Products have the signs that their factors have.
LEMMA Signs ==
  ASSUME NEW x \in Int, NEW u \in Int
  PROVE  /\ x * u \in Int
         /\ x > 0 /\ u > 0 => x * u > 0
         /\ x < 0 /\ u < 0 => x * u > 0
         /\ x > 0 /\ u < 0 => x * u < 0
         /\ x < 0 /\ u > 0 => x * u < 0
         /\ (x = 0 \/ u = 0) => x * u = 0
OBVIOUS

\* The edges of a triangle as a ray meets them: one, if the point is within all of them;
\* none or two, if it is not.
LEMMA TriangleEdges ==
  ASSUME NEW a \in PlaneCell, NEW b \in PlaneCell, NEW c \in PlaneCell, NEW p \in PlaneCell
  PROVE  LET x == EdgeCrosses(b, a, p)
             y == EdgeCrosses(c, b, p)
             z == EdgeCrosses(a, c, p)
         IN  /\ InsideTriangle(a, b, c, p) =>
                  (x /\ ~y /\ ~z) \/ (~x /\ y /\ ~z) \/ (~x /\ ~y /\ z)
             /\ OutsideTriangle(a, b, c, p) =>
                  (~x /\ ~y /\ ~z) \/ (~x /\ y /\ z) \/ (x /\ ~y /\ z) \/ (x /\ y /\ ~z)
<1>1. PICK u, v, w, r, s, t \in Int :
        /\ u = a[2] - p[2] /\ v = b[2] - p[2] /\ w = c[2] - p[2]
        /\ r = Cross(b, c, p) /\ s = Cross(c, a, p) /\ t = Cross(a, b, p)
  <2>1. a[2] - p[2] \in Int /\ b[2] - p[2] \in Int /\ c[2] - p[2] \in Int
    BY DEF PlaneCell
  <2> QED BY <2>1, Lagrange
<1>2. /\ a[2] > p[2] <=> u > 0
      /\ b[2] > p[2] <=> v > 0
      /\ c[2] > p[2] <=> w > 0
      /\ a[2] <= p[2] <=> u <= 0
      /\ b[2] <= p[2] <=> v <= 0
      /\ c[2] <= p[2] <=> w <= 0
  BY <1>1 DEF PlaneCell
<1>3. /\ r * u + s * v + t * w = 0
      /\ u = 0 /\ v = 0 => t = 0
  <2>1. r * u + s * v + t * w = 0
    BY <1>1, Balance
  <2>2. u = 0 /\ v = 0 => a[2] = p[2] /\ b[2] = p[2]
    BY <1>1 DEF PlaneCell
  <2> QED BY <1>1, <2>1, <2>2, Balance
<1>4. /\ EdgeCrosses(b, a, p) <=> \/ u <= 0 /\ v > 0 /\ t > 0
                                  \/ u > 0 /\ v <= 0 /\ t < 0
      /\ EdgeCrosses(c, b, p) <=> \/ v <= 0 /\ w > 0 /\ r > 0
                                  \/ v > 0 /\ w <= 0 /\ r < 0
      /\ EdgeCrosses(a, c, p) <=> \/ w <= 0 /\ u > 0 /\ s > 0
                                  \/ w > 0 /\ u <= 0 /\ s < 0
  BY <1>1, <1>2, EitherWay DEF EdgeCrosses
<1>5. /\ InsideTriangle(a, b, c, p) => (r > 0 /\ s > 0 /\ t > 0) \/ (r < 0 /\ s < 0 /\ t < 0)
      /\ OutsideTriangle(a, b, c, p) => (r > 0 \/ s > 0 \/ t > 0) /\ (r < 0 \/ s < 0 \/ t < 0)
  BY <1>1 DEF InsideTriangle, OutsideTriangle
<1> DEFINE ru == r * u
           sv == s * v
           tw == t * w
<1>6. ru \in Int /\ sv \in Int /\ tw \in Int /\ ru + sv + tw = 0
  BY <1>3, Signs
<1>7. /\ r > 0 /\ u > 0 => ru > 0
      /\ r < 0 /\ u < 0 => ru > 0
      /\ r > 0 /\ u < 0 => ru < 0
      /\ r < 0 /\ u > 0 => ru < 0
      /\ (r = 0 \/ u = 0) => ru = 0
  BY Signs
<1>8. /\ s > 0 /\ v > 0 => sv > 0
      /\ s < 0 /\ v < 0 => sv > 0
      /\ s > 0 /\ v < 0 => sv < 0
      /\ s < 0 /\ v > 0 => sv < 0
      /\ (s = 0 \/ v = 0) => sv = 0
  BY Signs
<1>9. /\ t > 0 /\ w > 0 => tw > 0
      /\ t < 0 /\ w < 0 => tw > 0
      /\ t > 0 /\ w < 0 => tw < 0
      /\ t < 0 /\ w > 0 => tw < 0
      /\ (t = 0 \/ w = 0) => tw = 0
  BY Signs
<1> HIDE DEF ru, sv, tw
<1>10. ASSUME InsideTriangle(a, b, c, p)
       PROVE  LET x == EdgeCrosses(b, a, p)
                  y == EdgeCrosses(c, b, p)
                  z == EdgeCrosses(a, c, p)
              IN  (x /\ ~y /\ ~z) \/ (~x /\ y /\ ~z) \/ (~x /\ ~y /\ z)
  BY <1>3, <1>4, <1>5, <1>6, <1>7, <1>8, <1>9, <1>10
<1>11. ASSUME OutsideTriangle(a, b, c, p)
       PROVE  LET x == EdgeCrosses(b, a, p)
                  y == EdgeCrosses(c, b, p)
                  z == EdgeCrosses(a, c, p)
              IN  (~x /\ ~y /\ ~z) \/ (~x /\ y /\ z) \/ (x /\ ~y /\ z) \/ (x /\ y /\ ~z)
  BY <1>4, <1>5, <1>6, <1>7, <1>8, <1>9, <1>11
<1> QED BY <1>10, <1>11

LEMMA ThreeCorners ==
  ASSUME NEW ps \in Seq(PlaneCell), Len(ps) = 3, Cardinality(Range(ps)) >= 3
  PROVE  ps[1] # ps[3]
<1> SUFFICES ASSUME ps[1] = ps[3] PROVE FALSE
  OBVIOUS
<1>1. DOMAIN ps = 1..3
  OBVIOUS
<1>2. Range(ps) = {ps[1]} \cup {ps[2]}
  <2>1. \A i \in 1..3 : i = 1 \/ i = 2 \/ i = 3
    OBVIOUS
  <2> QED BY <1>1, <2>1 DEF Range
<1>3. IsFiniteSet({ps[1]}) /\ Cardinality({ps[1]}) = 1
  BY FS_Singleton
<1>4. Cardinality({ps[1]} \cup {ps[2]})
        = IF ps[2] \in {ps[1]} THEN Cardinality({ps[1]}) ELSE Cardinality({ps[1]}) + 1
  BY <1>3, FS_AddElement
<1> QED BY <1>2, <1>3, <1>4

LEMMA Closed ==
  ASSUME NEW ps \in Seq(PlaneCell), Len(ps) >= 1
  PROVE  LET ring == Append(ps, ps[1])
             n == Len(ps)
         IN  /\ ring \in Seq(PlaneCell) /\ Len(ring) = n + 1 /\ DOMAIN ring = 1..(n + 1)
             /\ ring[n + 1] = ps[1] /\ \A i \in 1..n : ring[i] = ps[i]
<1>1. ps[1] \in PlaneCell
  BY ElementOfSeq
<1>2. Append(ps, ps[1]) \in Seq(PlaneCell)
  BY <1>1, AppendProperties
<1> QED BY <1>2

\* The ring of a triangle is closed with its first corner.
LEMMA TriangleRing ==
  ASSUME NEW ps \in Seq(PlaneCell), Len(ps) = 3, Cardinality(Range(ps)) = 3
  PROVE  /\ Ring(ps) \in Seq(PlaneCell) /\ Len(Ring(ps)) = 4
         /\ Ring(ps)[1] = ps[1] /\ Ring(ps)[2] = ps[2] /\ Ring(ps)[3] = ps[3]
         /\ Ring(ps)[4] = ps[1]
<1>1. ps[1] # Last(ps)
  BY ThreeCorners DEF Last
<1>2. ps[1] \in PlaneCell
  BY ElementOfSeq
<1>3. BuildPolygon(ps) = Append(ps, ps[1])
  BY <1>1 DEF BuildPolygon
<1>4. Append(ps, ps[1]) \in Seq(PlaneCell) /\ Len(Append(ps, ps[1])) = 4
  <2>1. Len(ps) >= 1
    OBVIOUS
  <2>2. Append(ps, ps[1]) \in Seq(PlaneCell) /\ Len(Append(ps, ps[1])) = Len(ps) + 1
    BY <2>1, Closed
  <2> QED BY <2>2
<1>5. Ring(ps) = Append(ps, ps[1])
  BY <1>3, <1>4 DEF Ring, ParsePolygonRing
<1> QED BY <1>4, <1>5

LEMMA TriangleFound ==
  ASSUME NEW ps \in Seq(PlaneCell), Len(ps) = 3, Cardinality(Range(ps)) = 3, NEW p \in PlaneCell
  PROVE  /\ InsideTriangle(ps[1], ps[2], ps[3], p) => PointInPolygonRing(Ring(ps), p)
         /\ OutsideTriangle(ps[1], ps[2], ps[3], p) => ~PointInPolygonRing(Ring(ps), p)
<1> DEFINE ring == Ring(ps)
           x == EdgeCrosses(ps[2], ps[1], p)
           y == EdgeCrosses(ps[3], ps[2], p)
           z == EdgeCrosses(ps[1], ps[3], p)
<1>1. ps[1] \in PlaneCell /\ ps[2] \in PlaneCell /\ ps[3] \in PlaneCell
  <2>1. 1 \in 1..Len(ps) /\ 2 \in 1..Len(ps) /\ 3 \in 1..Len(ps)
    OBVIOUS
  <2> QED BY <2>1, ElementOfSeq
<1>2. /\ Crosses(ring, 1, p) <=> EdgeCrosses(ps[1], ps[1], p)
      /\ Crosses(ring, 2, p) <=> x
      /\ Crosses(ring, 3, p) <=> y
      /\ Crosses(ring, 4, p) <=> z
  <2>1. ring \in Seq(PlaneCell) /\ Len(ring) = 4
    BY TriangleRing
  <2> HIDE DEF ring
  <2>2. /\ Crosses(ring, 1, p) <=> EdgeCrosses(ring[1], ring[4], p)
        /\ Crosses(ring, 2, p) <=> EdgeCrosses(ring[2], ring[1], p)
        /\ Crosses(ring, 3, p) <=> EdgeCrosses(ring[3], ring[2], p)
        /\ Crosses(ring, 4, p) <=> EdgeCrosses(ring[4], ring[3], p)
    BY <2>1, CrossesIs
  <2> USE DEF ring
  <2> QED BY <2>2, TriangleRing
<1>3. ~Crosses(ring, 1, p)
  BY <1>1, <1>2, EitherWay
<1>4. DOMAIN ring = 1..4 /\ Len(ring) = 4
  BY TriangleRing
<1> HIDE DEF ring
<1>5. CrossedBy(ring, p) = {i \in 1..4 : Crosses(ring, i, p)}
  BY <1>4 DEF CrossedBy
<1>6. \A i \in 1..4 : i = 1 \/ i = 2 \/ i = 3 \/ i = 4
  OBVIOUS
<1>7. PointInPolygonRing(ring, p) <=> Cardinality(CrossedBy(ring, p)) % 2 = 1
  BY <1>4 DEF PointInPolygonRing, CrossedBy
<1>8. \A k : Cardinality({k}) = 1 /\ IsFiniteSet({k})
  BY FS_Singleton
<1>9. Cardinality({2, 3}) = 2 /\ Cardinality({2, 4}) = 2 /\ Cardinality({3, 4}) = 2
  <2>1. ASSUME NEW k \in 1..4, NEW l \in 1..4, k # l PROVE Cardinality({k, l}) = 2
    <3>1. {k, l} = {k} \cup {l}
      OBVIOUS
    <3>2. l \notin {k}
      BY <2>1
    <3>3. IsFiniteSet({k}) /\ Cardinality({k}) = 1
      BY <1>8
    <3>4. \A S : IsFiniteSet(S) =>
            Cardinality(S \cup {l}) = IF l \in S THEN Cardinality(S) ELSE Cardinality(S) + 1
      BY FS_AddElement
    <3> QED BY <3>1, <3>2, <3>3, <3>4
  <2>2. 2 # 3 /\ 2 # 4 /\ 3 # 4
    OBVIOUS
  <2> QED BY <2>1, <2>2
<1>10. ASSUME InsideTriangle(ps[1], ps[2], ps[3], p) PROVE PointInPolygonRing(ring, p)
  <2>1. (x /\ ~y /\ ~z) \/ (~x /\ y /\ ~z) \/ (~x /\ ~y /\ z)
    BY <1>1, <1>10, TriangleEdges
  <2> HIDE DEF x, y, z
  <2>2. CrossedBy(ring, p) = {2} \/ CrossedBy(ring, p) = {3} \/ CrossedBy(ring, p) = {4}
    BY <1>2, <1>3, <1>5, <1>6, <2>1
  <2>3. Cardinality(CrossedBy(ring, p)) = 1
    BY <1>8, <2>2
  <2>4. 1 % 2 = 1
    OBVIOUS
  <2> QED BY <1>7, <2>3, <2>4
<1>11. ASSUME OutsideTriangle(ps[1], ps[2], ps[3], p) PROVE ~PointInPolygonRing(ring, p)
  <2>1. (~x /\ ~y /\ ~z) \/ (~x /\ y /\ z) \/ (x /\ ~y /\ z) \/ (x /\ y /\ ~z)
    BY <1>1, <1>11, TriangleEdges
  <2> HIDE DEF x, y, z
  <2>2. \/ CrossedBy(ring, p) = {} \/ CrossedBy(ring, p) = {3, 4}
        \/ CrossedBy(ring, p) = {2, 4} \/ CrossedBy(ring, p) = {2, 3}
    BY <1>2, <1>3, <1>5, <1>6, <2>1
  <2>3. Cardinality({}) = 0
    BY FS_EmptySet
  <2>4. Cardinality(CrossedBy(ring, p)) \in {0, 2}
    BY <1>9, <2>2, <2>3
  <2>5. 0 % 2 = 0 /\ 2 % 2 = 0
    OBVIOUS
  <2> QED BY <1>7, <2>4, <2>5
<1> QED BY <1>10, <1>11 DEF ring

-----------------------------------------------------------------------------
(* Closing a ring                                                          *)

LEMMA ClosedCrossings ==
  ASSUME NEW ps \in Seq(PlaneCell), Len(ps) >= 3, NEW p \in PlaneCell
  PROVE  Cardinality(CrossedBy(Append(ps, ps[1]), p)) = Cardinality(CrossedBy(ps, p))
<1>1. PICK n \in Nat : n = Len(ps) /\ n >= 3 /\ DOMAIN ps = 1..n
  OBVIOUS
<1>2. ps[1] \in PlaneCell
  BY ElementOfSeq
<1>3. PICK ring \in Seq(PlaneCell) :
        /\ ring = Append(ps, ps[1]) /\ Len(ring) = n + 1 /\ DOMAIN ring = 1..(n + 1)
        /\ ring[n + 1] = ps[1] /\ \A i \in 1..n : ring[i] = ps[i]
  <2>1. PICK ring : ring = Append(ps, ps[1])
    OBVIOUS
  <2>2. Len(ps) >= 1
    BY <1>1
  <2>3. /\ ring \in Seq(PlaneCell) /\ Len(ring) = Len(ps) + 1 /\ DOMAIN ring = 1..(Len(ps) + 1)
        /\ ring[Len(ps) + 1] = ps[1] /\ \A i \in 1..Len(ps) : ring[i] = ps[i]
    BY <2>1, <2>2, Closed
  <2> QED BY <1>1, <2>1, <2>3
<1>4. ~Crosses(ring, 1, p)
  <2>1. Crosses(ring, 1, p) <=> EdgeCrosses(ring[1], ring[n + 1], p)
    <3>1. 1 \in 1..Len(ring)
      BY <1>1, <1>3
    <3> QED BY <1>3, <3>1, CrossesIs
  <2> QED BY <1>1, <1>2, <1>3, <2>1, EitherWay
<1>5. ASSUME NEW i \in 2..n PROVE Crosses(ring, i, p) <=> Crosses(ps, i, p)
  <2>1. i \in 1..n /\ i - 1 \in 1..n /\ i # 1 /\ i \in 1..(n + 1)
    BY <1>1
  <2>2. Crosses(ring, i, p) <=> EdgeCrosses(ring[i], ring[i - 1], p)
    BY <1>3, <2>1, CrossesIs
  <2>3. Crosses(ps, i, p) <=> EdgeCrosses(ps[i], ps[i - 1], p)
    BY <1>1, <2>1, CrossesIs
  <2> QED BY <1>3, <2>1, <2>2, <2>3
<1>6. Crosses(ring, n + 1, p) <=> Crosses(ps, 1, p)
  <2>1. Crosses(ring, n + 1, p) <=> EdgeCrosses(ring[n + 1], ring[n], p)
    <3>0. PICK m \in Nat : m = n + 1
      BY <1>1
    <3>1. m \in 1..Len(ring) /\ m # 1 /\ m - 1 = n
      BY <1>1, <1>3, <3>0
    <3>2. Crosses(ring, m, p) <=> EdgeCrosses(ring[m], ring[m - 1], p)
      BY <3>1, CrossesIs
    <3> QED BY <3>0, <3>1, <3>2
  <2>2. Crosses(ps, 1, p) <=> EdgeCrosses(ps[1], ps[n], p)
    <3>1. 1 \in 1..n
      BY <1>1
    <3> QED BY <1>1, <3>1, CrossesIs
  <2>3. ring[n + 1] = ps[1] /\ ring[n] = ps[n]
    BY <1>1, <1>3
  <2> QED BY <2>1, <2>2, <2>3
<1> DEFINE C == CrossedBy(ps, p)
           D == CrossedBy(ring, p)
<1>7. C = {i \in 1..n : Crosses(ps, i, p)} /\ D = {i \in 1..(n + 1) : Crosses(ring, i, p)}
  BY <1>1, <1>3 DEF CrossedBy
<1>8. IsFiniteSet(C) /\ Cardinality(C) \in Nat
  BY CrossedIs
<1> HIDE DEF C, D
<1>9. \A i \in 1..(n + 1) : i = 1 \/ i \in 2..n \/ i = n + 1
  BY <1>1
<1>9a. \A i \in 1..n : i = 1 \/ i \in 2..n
  BY <1>1
<1>9b. \A i \in 2..n : i \in 1..n /\ i \in 1..(n + 1) /\ i # 1 /\ i # n + 1
  BY <1>1
<1>9c. 1 \in 1..n /\ n + 1 \in 1..(n + 1) /\ n + 1 \notin 1..n /\ n + 1 # 1
  BY <1>1
<1>10. CASE 1 \in C
  <2>1. D = (C \ {1}) \cup {n + 1}
    BY <1>4, <1>5, <1>6, <1>7, <1>9, <1>9a, <1>9b, <1>9c, <1>10
  <2>2. IsFiniteSet(C \ {1}) /\ Cardinality(C \ {1}) = Cardinality(C) - 1
    BY <1>8, <1>10, FS_RemoveElement
  <2>3. n + 1 \notin C \ {1}
    BY <1>7, <1>9c
  <2>4. Cardinality(D) = Cardinality(C) - 1 + 1
    BY <2>1, <2>2, <2>3, FS_AddElement
  <2> QED BY <1>3, <1>8, <2>4 DEF C, D
<1>11. CASE 1 \notin C
  <2>1. D = C
    BY <1>4, <1>5, <1>6, <1>7, <1>9, <1>9a, <1>9b, <1>9c, <1>11
  <2> QED BY <1>3, <2>1 DEF C, D
<1> QED BY <1>10, <1>11

\* A corner that is near makes the edges that end in it near.
LEMMA CornerNear ==
  ASSUME NEW a \in PlaneCell, NEW b \in PlaneCell, NEW p \in PlaneCell, NEW r \in Nat,
         SegmentWithin(a, a, p, r)
  PROVE  SegmentWithin(a, b, p, r)
<1>1. r * r \in Int /\ r * r >= 0
  BY Squares
<1>2. /\ DistanceMeters2(a, p) \in Int /\ DistanceMeters2(b, p) \in Int /\ DistanceMeters2(a, b) \in Int
      /\ DistanceMeters2(a, p) >= 0 /\ DistanceMeters2(a, b) >= 0
      /\ DistanceMeters2(a, p) <= r * r
      /\ Dot(a, b, p) \in Int /\ Cross(a, b, p) \in Int
  BY DistanceType, Lagrange DEF SegmentWithin
<1>3. DistanceMeters2(b, p) = DistanceMeters2(a, p) - 2 * Dot(a, b, p) + DistanceMeters2(a, b)
  <2>1. PICK a1 \in Int, a2 \in Int : a = <<a1, a2>>
    BY DEF PlaneCell
  <2>2. PICK b1 \in Int, b2 \in Int : b = <<b1, b2>>
    BY DEF PlaneCell
  <2>3. PICK p1 \in Int, p2 \in Int : p = <<p1, p2>>
    BY DEF PlaneCell
  <2> QED BY <2>1, <2>2, <2>3 DEF Dot, DistanceMeters2
<1>4. Cross(a, b, p) * Cross(a, b, p) <= r * r * DistanceMeters2(a, b)
  <2>1. Cross(a, b, p) * Cross(a, b, p)
          = DistanceMeters2(a, p) * DistanceMeters2(a, b) - Dot(a, b, p) * Dot(a, b, p)
    BY <1>2, Lagrange, Squares
  <2>2. Dot(a, b, p) * Dot(a, b, p) \in Int /\ Dot(a, b, p) * Dot(a, b, p) >= 0
    BY <1>2, Squares
  <2>3. DistanceMeters2(a, p) * DistanceMeters2(a, b) <= (r * r) * DistanceMeters2(a, b)
    BY <1>1, <1>2, Squares
  <2>4. DistanceMeters2(a, p) * DistanceMeters2(a, b) \in Int /\ (r * r) * DistanceMeters2(a, b) \in Int
    BY <1>1, <1>2
  <2> QED BY <2>1, <2>2, <2>3, <2>4
<1> QED BY <1>1, <1>2, <1>3, <1>4 DEF SegmentWithin

LEMMA ClosedWithin ==
  ASSUME NEW ps \in Seq(PlaneCell), Len(ps) >= 3, NEW p \in PlaneCell, NEW r \in Nat
  PROVE  PolygonRingWithin(Append(ps, ps[1]), p, r) <=> PolygonRingWithin(ps, p, r)
<1>1. PICK n \in Nat : n = Len(ps) /\ n >= 3 /\ DOMAIN ps = 1..n
  OBVIOUS
<1>2. \A i \in 1..n : ps[i] \in PlaneCell
  BY <1>1, ElementOfSeq
<1>3. PICK ring \in Seq(PlaneCell) :
        /\ ring = Append(ps, ps[1]) /\ Len(ring) = n + 1 /\ DOMAIN ring = 1..(n + 1)
        /\ ring[n + 1] = ps[1] /\ \A i \in 1..n : ring[i] = ps[i]
  <2>1. PICK ring : ring = Append(ps, ps[1])
    OBVIOUS
  <2>2. Len(ps) >= 1
    BY <1>1
  <2>3. /\ ring \in Seq(PlaneCell) /\ Len(ring) = Len(ps) + 1 /\ DOMAIN ring = 1..(Len(ps) + 1)
        /\ ring[Len(ps) + 1] = ps[1] /\ \A i \in 1..Len(ps) : ring[i] = ps[i]
    BY <2>1, <2>2, Closed
  <2> QED BY <1>1, <2>1, <2>3
<1>4. PICK m \in Nat : m = n + 1
  BY <1>1
<1>5. ASSUME NEW i \in 1..n PROVE (i % n) + 1 = IF i = n THEN 1 ELSE i + 1
  <2>1. n >= 1
    BY <1>1
  <2> QED BY <2>1, NextCorner
<1>6. ASSUME NEW i \in 1..m PROVE (i % m) + 1 = IF i = m THEN 1 ELSE i + 1
  <2>1. m >= 1
    BY <1>4
  <2> QED BY <2>1, NextCorner
<1>7. \A i \in 1..n : ring[i] = ps[i] /\ ring[(i % m) + 1] = ps[(i % n) + 1] /\ i \in 1..m
  <2> TAKE i \in 1..n
  <2>0. i \in 1..m /\ i # m
    BY <1>1, <1>4
  <2>1. (i % m) + 1 = i + 1
    BY <1>6, <2>0
  <2>2. CASE i = n
    <3>1. (i % n) + 1 = 1 /\ i + 1 = n + 1
      BY <1>5, <2>2
    <3> QED BY <1>3, <2>0, <2>1, <3>1
  <2>3. CASE i # n
    <3>1. (i % n) + 1 = i + 1 /\ i + 1 \in 1..n
      BY <1>1, <1>5, <2>3
    <3> QED BY <1>3, <2>0, <2>1, <3>1
  <2> QED BY <2>2, <2>3
<1>8. ring[m] = ps[1] /\ ring[(m % m) + 1] = ps[1]
  <2>1. m \in 1..m /\ 1 \in 1..n
    BY <1>1, <1>4
  <2>2. (m % m) + 1 = 1
    BY <1>6, <2>1
  <2> QED BY <1>3, <1>4, <2>1, <2>2
<1>9. PolygonRingWithin(ring, p, r) <=>
        \E i \in 1..m : SegmentWithin(ring[i], ring[(i % m) + 1], p, r)
  BY <1>3, <1>4 DEF PolygonRingWithin
<1>10. PolygonRingWithin(ps, p, r) <=>
        \E i \in 1..n : SegmentWithin(ps[i], ps[(i % n) + 1], p, r)
  BY <1>1 DEF PolygonRingWithin
<1>11. ASSUME PolygonRingWithin(ps, p, r) PROVE PolygonRingWithin(ring, p, r)
  BY <1>7, <1>9, <1>10, <1>11
<1>12. ASSUME PolygonRingWithin(ring, p, r) PROVE PolygonRingWithin(ps, p, r)
  <2>1. PICK i \in 1..m : SegmentWithin(ring[i], ring[(i % m) + 1], p, r)
    BY <1>9, <1>12
  <2>2. CASE i = m
    <3>1. 1 \in 1..n /\ (1 % n) + 1 \in 1..n
      <4>1. 1 \in 1..n /\ 2 \in 1..n /\ 1 # n
        BY <1>1
      <4>2. (1 % n) + 1 = 2
        BY <1>5, <4>1
      <4> QED BY <4>1, <4>2
    <3>2. SegmentWithin(ps[1], ps[1], p, r)
      BY <1>8, <2>1, <2>2
    <3>3. SegmentWithin(ps[1], ps[(1 % n) + 1], p, r)
      BY <1>2, <3>1, <3>2, CornerNear
    <3> QED BY <1>10, <3>1, <3>3
  <2>3. CASE i # m
    <3>1. i \in 1..n
      BY <1>1, <1>4, <2>3
    <3> QED BY <1>7, <1>10, <2>1, <3>1
  <2> QED BY <2>2, <2>3
<1> QED BY <1>3, <1>11, <1>12

-----------------------------------------------------------------------------
(* Cutting a polygon                                                       *)

LEMMA Parity ==
  ASSUME NEW a \in Nat, NEW b \in Nat, NEW d \in {0, 1}
  PROVE  ((a + b) % 2 = 1) <=> ~(((a + d) % 2 = 1) <=> ((b + d) % 2 = 1))
OBVIOUS

LEMMA AfterFirst ==
  ASSUME NEW ring \in Seq(PlaneCell), NEW i \in 2..Len(ring), NEW j, j = i - 1, NEW p \in PlaneCell
  PROVE  Crosses(ring, i, p) <=> EdgeCrosses(ring[i], ring[j], p)
<1>1. i \in 1..Len(ring) /\ i # 1
  OBVIOUS
<1> QED BY <1>1, CrossesIs

\* The two parts that a diagonal cuts off.
LEMMA PartsAre ==
  ASSUME NEW ps \in Seq(PlaneCell), Len(ps) >= 4
  PROVE  LET first == SubSeq(ps, 1, 3)
             rest == <<ps[1]>> \o SubSeq(ps, 3, Len(ps))
         IN  /\ first \in Seq(PlaneCell) /\ Len(first) = 3
             /\ \A i \in 1..3 : first[i] = ps[i]
             /\ rest \in Seq(PlaneCell) /\ Len(rest) = Len(ps) - 1
             /\ rest[1] = ps[1] /\ \A i \in 2..(Len(ps) - 1) : rest[i] = ps[i + 1]
<1> DEFINE n == Len(ps)
           first == SubSeq(ps, 1, 3)
           tail == SubSeq(ps, 3, n)
           one == <<ps[1]>>
<1>1. n \in Nat /\ n >= 4 /\ \A i \in 1..n : ps[i] \in PlaneCell
  BY ElementOfSeq
<1>2. first \in Seq(PlaneCell) /\ Len(first) = 3 /\ \A i \in 1..3 : first[i] = ps[i]
  <2>1. \A i \in 1..3 : ps[i] \in PlaneCell
    BY <1>1
  <2>2. /\ first \in Seq(PlaneCell) /\ Len(first) = IF 1 <= 3 THEN 3 - 1 + 1 ELSE 0
        /\ \A i \in 1..(3 - 1 + 1) : first[i] = ps[1 + i - 1]
    BY <2>1, SubSeqProperties
  <2>3. \A i \in 1..3 : first[i] = ps[i]
    <3> TAKE i \in 1..3
    <3>1. i \in 1..(3 - 1 + 1) /\ 1 + i - 1 = i
      OBVIOUS
    <3> QED BY <2>2, <3>1
  <2> QED BY <2>2, <2>3
<1>3. tail \in Seq(PlaneCell) /\ Len(tail) = n - 2 /\ \A i \in 1..(n - 2) : tail[i] = ps[i + 2]
  <2>1. \A i \in 3..n : ps[i] \in PlaneCell
    BY <1>1
  <2>2. /\ tail \in Seq(PlaneCell) /\ Len(tail) = IF 3 <= n THEN n - 3 + 1 ELSE 0
        /\ \A i \in 1..(n - 3 + 1) : tail[i] = ps[3 + i - 1]
    BY <1>1, <2>1, SubSeqProperties
  <2>3. \A i \in 1..(n - 2) : tail[i] = ps[i + 2]
    <3> TAKE i \in 1..(n - 2)
    <3>1. i \in 1..(n - 3 + 1) /\ 3 + i - 1 = i + 2
      BY <1>1
    <3> QED BY <2>2, <3>1
  <2> QED BY <1>1, <2>2, <2>3
<1>4. one \in Seq(PlaneCell) /\ Len(one) = 1 /\ one[1] = ps[1]
  <2>1. ps[1] \in PlaneCell
    BY <1>1
  <2> QED BY <2>1
<1> HIDE DEF tail, one
<1>5. /\ one \o tail \in Seq(PlaneCell) /\ Len(one \o tail) = 1 + (n - 2)
      /\ \A i \in 1..(1 + (n - 2)) : (one \o tail)[i] = IF i <= 1 THEN one[i] ELSE tail[i - 1]
  <2>1. /\ one \o tail \in Seq(PlaneCell) /\ Len(one \o tail) = Len(one) + Len(tail)
        /\ \A i \in 1..(Len(one) + Len(tail)) :
             (one \o tail)[i] = IF i <= Len(one) THEN one[i] ELSE tail[i - Len(one)]
    BY <1>3, <1>4, ConcatProperties
  <2>2. Len(one) = 1 /\ Len(tail) = n - 2
    BY <1>3, <1>4
  <2> QED BY <2>1, <2>2
<1>6. (one \o tail)[1] = ps[1]
  BY <1>1, <1>4, <1>5
<1>7. \A i \in 2..(n - 1) : (one \o tail)[i] = ps[i + 1]
  <2> TAKE i \in 2..(n - 1)
  <2>1. i \in 1..(1 + (n - 2)) /\ ~(i <= 1) /\ i - 1 \in 1..(n - 2) /\ (i - 1) + 2 = i + 1
    BY <1>1
  <2> QED BY <1>3, <1>5, <2>1
<1>8. Len(one \o tail) = n - 1
  BY <1>1, <1>5
<1> QED BY <1>2, <1>5, <1>6, <1>7, <1>8 DEF one, tail

LEMMA Cut ==
  ASSUME NEW ps \in Seq(PlaneCell), NEW n \in Nat, n = Len(ps), n >= 4, NEW p \in PlaneCell,
         NEW first \in Seq(PlaneCell), Len(first) = 3, \A i \in 1..3 : first[i] = ps[i],
         NEW rest \in Seq(PlaneCell), Len(rest) = n - 1, rest[1] = ps[1],
         \A i \in 2..(n - 1) : rest[i] = ps[i + 1]
  PROVE  PointInPolygonRing(ps, p) <=> ~(PointInPolygonRing(first, p) <=> PointInPolygonRing(rest, p))
<1> DEFINE C == CrossedBy(ps, p)
           F == CrossedBy(first, p)
           R == CrossedBy(rest, p)
           A == C \cap {2, 3}
           B == C \ {2, 3}
           shared == EdgeCrosses(ps[1], ps[3], p)
           d == IF shared THEN 1 ELSE 0
<1>0. 1 \in 1..n /\ 2 \in 1..n /\ 3 \in 1..n /\ n \in 1..n /\ n - 1 \in 1..(n - 1) /\ 2 \in 2..(n - 1)
      /\ n - 1 \in 2..(n - 1) /\ 1 \in 1..(n - 1) /\ 2 \in 1..(n - 1)
  OBVIOUS
<1>1. ps[1] \in PlaneCell /\ ps[2] \in PlaneCell /\ ps[3] \in PlaneCell
  BY <1>0, ElementOfSeq
<1>2. /\ Crosses(ps, 1, p) <=> EdgeCrosses(ps[1], ps[n], p)
      /\ Crosses(ps, 2, p) <=> EdgeCrosses(ps[2], ps[1], p)
      /\ Crosses(ps, 3, p) <=> EdgeCrosses(ps[3], ps[2], p)
  BY <1>0, CrossesIs
<1>3. /\ Crosses(first, 1, p) <=> shared
      /\ Crosses(first, 2, p) <=> Crosses(ps, 2, p)
      /\ Crosses(first, 3, p) <=> Crosses(ps, 3, p)
  <2>1. /\ 1 \in 1..3 /\ 2 \in 1..3 /\ 3 \in 1..3
        /\ 1 \in 1..Len(first) /\ 2 \in 2..Len(first) /\ 3 \in 2..Len(first)
    OBVIOUS
  <2>2. Crosses(first, 1, p) <=> EdgeCrosses(first[1], first[3], p)
    BY <2>1, CrossesIs
  <2>3. Crosses(first, 2, p) <=> EdgeCrosses(first[2], first[1], p)
    <3>1. 1 = 2 - 1
      OBVIOUS
    <3> QED BY <2>1, <3>1, AfterFirst
  <2>4. Crosses(first, 3, p) <=> EdgeCrosses(first[3], first[2], p)
    <3>1. 2 = 3 - 1
      OBVIOUS
    <3> QED BY <2>1, <3>1, AfterFirst
  <2> QED BY <1>2, <2>1, <2>2, <2>3, <2>4
<1>4. Crosses(rest, 1, p) <=> Crosses(ps, 1, p)
  <2>1. Crosses(rest, 1, p) <=> EdgeCrosses(rest[1], rest[n - 1], p)
    BY <1>0, CrossesIs
  <2>2. rest[n - 1] = ps[n]
    <3>1. (n - 1) + 1 = n
      OBVIOUS
    <3> QED BY <1>0, <3>1
  <2> QED BY <1>2, <2>1, <2>2
<1>5. Crosses(rest, 2, p) <=> shared
  <2>1. Crosses(rest, 2, p) <=> EdgeCrosses(rest[2], rest[1], p)
    BY <1>0, CrossesIs
  <2>2. rest[2] = ps[3]
    <3>1. 2 + 1 = 3
      OBVIOUS
    <3> QED BY <1>0, <3>1
  <2> QED BY <1>1, <2>1, <2>2, EitherWay
<1>6. ASSUME NEW k \in 3..(n - 1) PROVE Crosses(rest, k, p) <=> Crosses(ps, k + 1, p)
  <2>1. /\ k \in 1..(n - 1) /\ k # 1 /\ k \in 2..(n - 1) /\ k - 1 \in 2..(n - 1) /\ (k - 1) + 1 = k
        /\ k + 1 \in 1..n /\ k + 1 # 1 /\ (k + 1) - 1 = k
    OBVIOUS
  <2>2. Crosses(rest, k, p) <=> EdgeCrosses(rest[k], rest[k - 1], p)
    BY <2>1, CrossesIs
  <2>3. rest[k] = ps[k + 1] /\ rest[k - 1] = ps[k]
    BY <2>1
  <2>4. PICK m \in 1..Len(ps) : m = k + 1 /\ m # 1 /\ m - 1 = k
    BY <2>1
  <2>5. Crosses(ps, m, p) <=> EdgeCrosses(ps[m], ps[m - 1], p)
    BY <2>4, CrossesIs
  <2> QED BY <2>2, <2>3, <2>4, <2>5
<1>7. /\ C = {i \in 1..n : Crosses(ps, i, p)}
      /\ F = {i \in 1..3 : Crosses(first, i, p)}
      /\ R = {i \in 1..(n - 1) : Crosses(rest, i, p)}
  BY DEF CrossedBy
<1>8. IsFiniteSet(C) /\ IsFiniteSet(F) /\ IsFiniteSet(R)
  BY CrossedIs
<1> HIDE DEF C, F, R, shared
<1>9. /\ IsFiniteSet(A) /\ IsFiniteSet(B) /\ Cardinality(A) \in Nat /\ Cardinality(B) \in Nat
      /\ Cardinality(C) = Cardinality(A) + Cardinality(B)
  <2>1. IsFiniteSet(A)
    BY <1>8, FS_Intersection
  <2>2. IsFiniteSet(B) /\ Cardinality(B) = Cardinality(C) - Cardinality(A)
    BY <1>8, FS_Difference
  <2>3. Cardinality(A) \in Nat /\ Cardinality(B) \in Nat /\ Cardinality(C) \in Nat
    BY <1>8, <2>1, <2>2, FS_CardinalityType
  <2> QED BY <2>1, <2>2, <2>3
<1>10. Cardinality(F) = Cardinality(A) + d
  <2>1. 1 \notin A
    OBVIOUS
  <2>2. \A i \in 1..3 : i = 1 \/ i = 2 \/ i = 3
    OBVIOUS
  <2>3. CASE shared
    <3>1. F = A \cup {1}
      BY <1>0, <1>3, <1>7, <2>2, <2>3
    <3>2. Cardinality(A \cup {1}) = IF 1 \in A THEN Cardinality(A) ELSE Cardinality(A) + 1
      BY <1>9, FS_AddElement
    <3> QED BY <2>1, <2>3, <3>1, <3>2
  <2>4. CASE ~shared
    <3>1. F = A
      BY <1>0, <1>3, <1>7, <2>2, <2>4
    <3> QED BY <1>9, <2>4, <3>1
  <2> QED BY <2>3, <2>4
<1>11. Cardinality(R) = Cardinality(B) + d
  <2> DEFINE Q == R \ {2}
             f == [i \in B |-> IF i = 1 THEN 1 ELSE i - 1]
  <2>1. \A i \in B : i \in 1..n /\ Crosses(ps, i, p) /\ (i = 1 \/ i \in 4..n)
    BY <1>7
  <2>2. \A k \in Q : k \in 1..(n - 1) /\ Crosses(rest, k, p) /\ (k = 1 \/ k \in 3..(n - 1))
    BY <1>7
  <2>3. ASSUME NEW i \in B PROVE f[i] \in Q
    <3>1. CASE i = 1
      BY <1>0, <1>4, <1>7, <2>1, <3>1
    <3>2. CASE i # 1
      <4>1. i - 1 \in 3..(n - 1) /\ (i - 1) + 1 = i /\ i - 1 \in 1..(n - 1) /\ i - 1 # 2
        BY <2>1, <3>2
      <4>2. Crosses(rest, i - 1, p)
        BY <1>6, <2>1, <4>1
      <4> QED BY <1>7, <3>2, <4>1, <4>2
    <3> QED BY <3>1, <3>2
  <2>4. f \in [B -> Q]
    BY <2>3
  <2>5. \A x, y \in B : f[x] = f[y] => x = y
    BY <2>1
  <2>6. ASSUME NEW k \in Q PROVE \E i \in B : f[i] = k
    <3>1. CASE k = 1
      <4>1. 1 \in B
        BY <1>0, <1>4, <1>7, <2>2, <3>1
      <4> QED BY <3>1, <4>1
    <3>2. CASE k # 1
      <4>1. k \in 3..(n - 1) /\ k + 1 \in 1..n /\ k + 1 \notin {2, 3} /\ k + 1 # 1 /\ (k + 1) - 1 = k
        BY <2>2, <3>2
      <4>2. Crosses(ps, k + 1, p)
        BY <1>6, <2>2, <4>1
      <4>3. k + 1 \in B
        BY <1>7, <4>1, <4>2
      <4> QED BY <4>1, <4>3
    <3> QED BY <3>1, <3>2
  <2> HIDE DEF f, Q, B
  <2>7. Cardinality(Q) = Cardinality(B)
    <3>1. \A k \in Q : \E i \in B : f[i] = k
      BY <2>6
    <3>2. IsFiniteSet(B)
      BY <1>9
    <3>3. f \in Bijection(B, Q)
      BY <2>4, <2>5, <3>1 DEF Bijection, Injection, Surjection, IsInjective
    <3>4. ExistsBijection(B, Q)
      BY <3>3 DEF ExistsBijection
    <3> QED BY <3>2, <3>4, FS_Bijection
  <2>8. 2 \in R <=> shared
    BY <1>0, <1>5, <1>7
  <2>9. Cardinality(Q) = IF 2 \in R THEN Cardinality(R) - 1 ELSE Cardinality(R)
    BY <1>8, FS_RemoveElement DEF Q
  <2>10. Cardinality(R) \in Nat
    BY <1>8, FS_CardinalityType
  <2> QED BY <1>9, <2>7, <2>8, <2>9, <2>10
<1> HIDE DEF A, B
<1>12. d \in {0, 1}
  OBVIOUS
<1> HIDE DEF d
<1>13. PICK a, b, c, f, r \in Nat :
         /\ c = a + b /\ f = a + d /\ r = b + d
         /\ c = Cardinality(C) /\ f = Cardinality(F) /\ r = Cardinality(R)
  <2>1. PICK a, b \in Nat : a = Cardinality(A) /\ b = Cardinality(B)
    BY <1>9
  <2>2. a + b \in Nat /\ a + d \in Nat /\ b + d \in Nat
    BY <1>12
  <2> QED BY <1>9, <1>10, <1>11, <2>1, <2>2, Zenon
<1>14. /\ PointInPolygonRing(ps, p) <=> c % 2 = 1
       /\ PointInPolygonRing(first, p) <=> f % 2 = 1
       /\ PointInPolygonRing(rest, p) <=> r % 2 = 1
  BY <1>13 DEF PointInPolygonRing, CrossedBy, C, F, R
<1>15. ((a + b) % 2 = 1) <=> ~(((a + d) % 2 = 1) <=> ((b + d) % 2 = 1))
  BY <1>12, Parity
<1>16. (c % 2 = 1) <=> ~((f % 2 = 1) <=> (r % 2 = 1))
  BY <1>13, <1>15, Zenon
<1>17. PointInPolygonRing(ps, p) <=> ~(PointInPolygonRing(first, p) <=> PointInPolygonRing(rest, p))
  BY <1>14, <1>16, Zenon
<1>18. PointInPolygonRing(ps, p) \in BOOLEAN /\ PointInPolygonRing(first, p) \in BOOLEAN
       /\ PointInPolygonRing(rest, p) \in BOOLEAN
  BY DEF PointInPolygonRing
<1> QED BY <1>17, <1>18

\* The ring of three different points at least is read back.
LEMMA RingLength ==
  ASSUME NEW ps \in Seq(PlaneCell), Len(ps) >= 3, Cardinality(Range(ps)) >= 3
  PROVE  Len(Ring(ps)) >= 4
<1>1. BuildPolygon(ps) = ps \/ BuildPolygon(ps) = Append(ps, ps[1])
  BY DEF BuildPolygon
<1>2. Len(Append(ps, ps[1])) = Len(ps) + 1 /\ Len(ps) \in Nat
  <2>1. ps[1] \in PlaneCell
    BY ElementOfSeq
  <2> QED BY <2>1
<1>3. CASE Len(ps) >= 4
  BY <1>1, <1>2, <1>3 DEF Ring, ParsePolygonRing
<1>4. CASE Len(ps) = 3
  <2>1. ps[1] # Last(ps)
    BY <1>4, ThreeCorners DEF Last
  <2>2. BuildPolygon(ps) = Append(ps, ps[1])
    BY <2>1 DEF BuildPolygon
  <2>3. Len(BuildPolygon(ps)) = 4
    BY <1>2, <1>4, <2>2
  <2>4. Ring(ps) = BuildPolygon(ps)
    BY <2>3 DEF Ring, ParsePolygonRing
  <2>5. PICK l \in Nat : l = Len(Ring(ps)) /\ l = 4
    BY <2>3, <2>4
  <2> QED BY <2>5
<1>5. Len(ps) >= 4 \/ Len(ps) = 3
  <2>1. PICK l \in Nat : l = Len(ps)
    BY <1>2
  <2>2. l >= 3
    BY <2>1
  <2>3. l >= 4 \/ l = 3
    BY <2>2
  <2> QED BY <2>1, <2>3
<1> QED BY <1>3, <1>4, <1>5

-----------------------------------------------------------------------------
(* Circles                                                                 *)

Samples == Seq([place : PlaneCell, role : {"center", "edge"}])

LEMMA SampleIs ==
  ASSUME NEW samples \in Samples, NEW i \in 1..Len(samples)
  PROVE  samples[i].place[1] \in Int
<1>1. samples[i] \in [place : PlaneCell, role : {"center", "edge"}]
  BY ElementOfSeq DEF Samples
<1> QED BY <1>1 DEF PlaneCell

LEMMA CenterIs ==
  ASSUME NEW samples \in Samples, Len(samples) >= 1
  PROVE  CaptureCenter(samples)[1] \in Int
<1> DEFINE centers == {i \in DOMAIN samples : samples[i].role = "center"}
           n == Len(samples)
           P(i) == i \in centers /\ \A j \in centers : j <= i
<1>1. n \in Nat /\ n >= 1 /\ DOMAIN samples = 1..n /\ 1 \in 1..n
  BY DEF Samples
<1>2. CASE centers = {}
  <2>1. CaptureCenter(samples) = samples[1].place
    BY <1>2 DEF CaptureCenter
  <2> QED BY <1>1, <2>1, SampleIs
<1>3. CASE centers # {}
  <2>1. \E i : P(i)
    <3> DEFINE T == {n - i : i \in centers}
    <3>1. T \in SUBSET Nat /\ T # {}
      BY <1>1, <1>3
    <3>2. PICK m \in T : \A k \in T : m <= k
      BY <3>1, LeastNatural
    <3>3. PICK i \in centers : m = n - i
      BY <3>2
    <3>4. \A j \in centers : n - i <= n - j /\ j \in Int /\ i \in Int
      BY <1>1, <3>2, <3>3
    <3>5. P(i)
      BY <1>1, <3>4
    <3> QED BY <3>5
  <2>2. P(CHOOSE i : P(i))
    BY <2>1
  <2>3. (CHOOSE i \in centers : \A j \in centers : j <= i) = (CHOOSE i : P(i))
    OBVIOUS
  <2>4. PICK k \in centers : CaptureCenter(samples) = samples[k].place
    BY <1>3, <2>2, <2>3 DEF CaptureCenter
  <2> QED BY <1>1, <2>4, SampleIs
<1> QED BY <1>2, <1>3

LEMMA EdgesAre ==
  ASSUME NEW samples \in Samples
  PROVE  /\ CaptureEdges(samples) \subseteq 1..Len(samples)
         /\ IsFiniteSet(CaptureEdges(samples)) /\ Cardinality(CaptureEdges(samples)) \in Nat
         /\ \A i \in CaptureEdges(samples) : CaptureDistance(samples, i) \in Nat
<1>1. Len(samples) \in Nat /\ DOMAIN samples = 1..Len(samples)
  BY DEF Samples
<1>2. CaptureEdges(samples) \in SUBSET (1..Len(samples))
  BY <1>1 DEF CaptureEdges
<1>3. IsFiniteSet(CaptureEdges(samples)) /\ Cardinality(CaptureEdges(samples)) \in Nat
  <2>1. IsFiniteSet(1..Len(samples))
    BY <1>1, FS_Interval
  <2> QED BY <1>2, <2>1, FS_Subset, FS_CardinalityType
<1>4. ASSUME NEW i \in CaptureEdges(samples) PROVE CaptureDistance(samples, i) \in Nat
  <2>1. i \in 1..Len(samples) /\ Len(samples) >= 1
    BY <1>1, <1>2
  <2>2. samples[i].place[1] \in Int /\ CaptureCenter(samples)[1] \in Int
    BY <2>1, SampleIs, CenterIs
  <2> QED BY <2>2 DEF CaptureDistance, Abs
<1> QED BY <1>2, <1>3, <1>4

\* The sums that Total chooses exist, and are what their equations say.
LEMMA TotalIs ==
  ASSUME NEW samples \in Samples
  PROVE  \E sum :
           /\ Total(samples) = sum[Len(samples)] /\ sum[0] = 0
           /\ \A i \in 1..Len(samples) :
                sum[i] = IF i \in CaptureEdges(samples)
                         THEN sum[i - 1] + CaptureDistance(samples, i) ELSE sum[i - 1]
<1> DEFINE n == Len(samples)
           E == CaptureEdges(samples)
           Next1(g, i) == IF i \in E THEN g[i - 1] + CaptureDistance(samples, i) ELSE g[i - 1]
           Sums(g, m) == g = [i \in 0..m |-> IF i = 0 THEN 0
                                             ELSE IF i \in E THEN g[i - 1] + CaptureDistance(samples, i)
                                             ELSE g[i - 1]]
           S == {m \in Nat : \E g : Sums(g, m)}
<1>0. n \in Nat
  BY DEF Samples
<1>1. 0 \in S
  <2> DEFINE g == [i \in 0..0 |-> 0]
  <2>1. Sums(g, 0)
    OBVIOUS
  <2> QED BY <2>1
<1>2. ASSUME NEW m \in Nat, m \in S PROVE m + 1 \in S
  <2>1. PICK g : Sums(g, m)
    BY <1>2
  <2> HIDE DEF E
  <2> DEFINE h == [i \in 0..(m + 1) |-> IF i = m + 1 THEN Next1(g, i) ELSE g[i]]
  <2>2. g[0] = 0 /\ \A i \in 1..m : g[i] = Next1(g, i)
    BY <2>1
  <2>3. \A i \in 1..(m + 1) : h[i - 1] = g[i - 1]
    OBVIOUS
  <2>4. ASSUME NEW i \in 0..(m + 1) PROVE h[i] = IF i = 0 THEN 0 ELSE Next1(h, i)
    <3>1. CASE i = 0
      BY <2>2, <3>1
    <3>2. CASE i \in 1..m
      <4>1. h[i] = g[i] /\ h[i - 1] = g[i - 1] /\ i # 0
        BY <2>3, <3>2
      <4> QED BY <2>2, <3>2, <4>1
    <3>3. CASE i = m + 1
      <4>1. h[i] = Next1(g, i) /\ h[i - 1] = g[i - 1] /\ i # 0
        BY <2>3, <3>3
      <4> QED BY <4>1
    <3> QED BY <3>1, <3>2, <3>3
  <2>5. h = [i \in 0..(m + 1) |-> h[i]]
    OBVIOUS
  <2> HIDE DEF h
  <2>6. Sums(h, m + 1)
    BY <2>4, <2>5
  <2> QED BY <2>6
<1>3. n \in S
  BY <1>0, <1>1, <1>2, AllNaturals
<1> DEFINE sum == CHOOSE g : Sums(g, n)
<1>4. Sums(sum, n)
  BY <1>3
<1>5. Total(samples) = sum[n]
  BY DEF Total
<1> HIDE DEF sum, E
<1>6. sum[0] = 0 /\ \A i \in 1..n : sum[i] = Next1(sum, i)
  BY <1>0, <1>4
<1> QED BY <1>5, <1>6 DEF E

\* Were every sample nearer than the average, so would the average be.
LEMMA AverageReached ==
  ASSUME NEW samples \in Samples, NEW k, k = Cardinality(CaptureEdges(samples)),
         Total(samples) > 0
  PROVE  \E i \in CaptureEdges(samples) : Total(samples) <= CaptureDistance(samples, i) * k
<1> DEFINE n == Len(samples)
           E == CaptureEdges(samples)
           D(i) == CaptureDistance(samples, i)
           T == Total(samples)
           upto(m) == Cardinality(E \cap (1..m))
<1>0. n \in Nat
  BY DEF Samples
<1>1. E \subseteq 1..n /\ IsFiniteSet(E) /\ k \in Nat /\ \A i \in E : D(i) \in Nat
  BY EdgesAre
<1>2. PICK sum : /\ T = sum[n] /\ sum[0] = 0
                 /\ \A i \in 1..n : sum[i] = IF i \in E THEN sum[i - 1] + D(i) ELSE sum[i - 1]
  BY TotalIs
<1> HIDE DEF n, E, D, T
<1>3. ASSUME NEW m \in Nat
      PROVE  /\ upto(m) \in Nat
             /\ upto(m + 1) = IF m + 1 \in E THEN upto(m) + 1 ELSE upto(m)
  <2>1. IsFiniteSet(E \cap (1..m)) /\ Cardinality(E \cap (1..m)) \in Nat
    BY <1>1, FS_Intersection, FS_CardinalityType
  <2>2. m + 1 \notin E \cap (1..m)
    OBVIOUS
  <2>3. CASE m + 1 \in E
    <3>1. E \cap (1..(m + 1)) = (E \cap (1..m)) \cup {m + 1}
      BY <1>1, <2>3
    <3>2. Cardinality((E \cap (1..m)) \cup {m + 1})
            = IF m + 1 \in E \cap (1..m) THEN upto(m) ELSE upto(m) + 1
      BY <2>1, FS_AddElement
    <3> QED BY <2>1, <2>2, <2>3, <3>1, <3>2
  <2>4. CASE m + 1 \notin E
    <3>1. E \cap (1..(m + 1)) = E \cap (1..m)
      BY <1>1, <2>4
    <3> QED BY <2>1, <2>4, <3>1
  <2> QED BY <2>3, <2>4
<1>4. upto(0) = 0 /\ upto(n) = k
  <2>1. 1..0 = {}
    OBVIOUS
  <2>2. E \cap {} = {} /\ E \cap (1..n) = E
    BY <1>1
  <2>3. upto(0) = Cardinality({}) /\ upto(n) = Cardinality(E)
    BY <2>1, <2>2
  <2>4. Cardinality({}) = 0
    BY FS_EmptySet
  <2> QED BY <2>3, <2>4 DEF E
<1> HIDE DEF upto
<1>5. ASSUME NEW m \in Nat
      PROVE  m + 1 <= n => /\ (m + 1) - 1 = m
                           /\ sum[m + 1] = IF m + 1 \in E THEN sum[m] + D(m + 1) ELSE sum[m]
  <2> SUFFICES ASSUME m + 1 <= n
               PROVE  sum[m + 1] = IF m + 1 \in E THEN sum[m] + D(m + 1) ELSE sum[m]
    OBVIOUS
  <2>1. m + 1 \in 1..n /\ (m + 1) - 1 = m
    BY <1>0
  <2> QED BY <1>2, <2>1
<1>6. T \in Int
  <2> DEFINE S == {m \in Nat : m <= n => sum[m] \in Int}
  <2>1. 0 \in S
    BY <1>2
  <2>2. ASSUME NEW m \in Nat, m \in S PROVE m + 1 \in S
    <3>1. CASE m + 1 <= n
      <4>1. sum[m] \in Int /\ (m + 1 \in E => D(m + 1) \in Int)
        BY <1>0, <1>1, <2>2, <3>1
      <4> QED BY <1>5, <3>1, <4>1
    <3>2. CASE ~(m + 1 <= n)
      BY <3>2
    <3> QED BY <3>1, <3>2
  <2>3. n \in S
    BY <1>0, <2>1, <2>2, AllNaturals
  <2> QED BY <1>0, <1>2, <2>3
<1> SUFFICES ASSUME \A i \in E : D(i) * k < T
             PROVE  FALSE
  <2>1. \A i \in E : D(i) * k \in Int
    BY <1>1
  <2> QED BY <1>6, <2>1 DEF E, D, T
<1>7. \A i \in E : D(i) * k <= T - 1 /\ D(i) * k \in Int
  BY <1>1, <1>6
\* So is what was summed by then.
<1> DEFINE S == {m \in Nat : m <= n => sum[m] \in Int /\ k * sum[m] <= upto(m) * (T - 1)}
<1>8. 0 \in S
  BY <1>1, <1>2, <1>4, <1>6
<1>9. ASSUME NEW m \in Nat, m \in S PROVE m + 1 \in S
  <2>1. CASE m + 1 <= n
    <3>1. sum[m] \in Int /\ k * sum[m] <= upto(m) * (T - 1)
      BY <1>0, <1>9, <2>1
    <3>2. upto(m) \in Nat /\ upto(m + 1) = IF m + 1 \in E THEN upto(m) + 1 ELSE upto(m)
      BY <1>3
    <3>3. sum[m + 1] = IF m + 1 \in E THEN sum[m] + D(m + 1) ELSE sum[m]
      BY <1>5, <2>1
    <3>4. CASE m + 1 \in E
      <4>1. PICK x, y, u, t, kk \in Int :
              x = sum[m] /\ y = D(m + 1) /\ u = upto(m) /\ t = T - 1 /\ kk = k
        BY <1>1, <1>6, <3>1, <3>2, <3>4
      <4>2. kk * x <= u * t /\ y * kk <= t
        BY <1>7, <3>1, <3>4, <4>1
      <4>3. kk * (x + y) = kk * x + y * kk /\ (u + 1) * t = u * t + t
        BY <4>1
      <4>4. kk * x \in Int /\ y * kk \in Int /\ u * t \in Int
        BY <4>1
      <4>5. kk * (x + y) <= (u + 1) * t
        BY <4>1, <4>2, <4>3, <4>4
      <4>6. sum[m + 1] = x + y /\ upto(m + 1) = u + 1 /\ x + y \in Int
        BY <3>2, <3>3, <3>4, <4>1
      <4> QED BY <4>1, <4>5, <4>6
    <3>5. CASE m + 1 \notin E
      BY <3>1, <3>2, <3>3, <3>5
    <3> QED BY <3>4, <3>5
  <2>2. CASE ~(m + 1 <= n)
    BY <2>2
  <2> QED BY <2>1, <2>2
<1>10. n \in S
  BY <1>0, <1>8, <1>9, AllNaturals
<1>11. k * T <= k * (T - 1)
  BY <1>0, <1>2, <1>4, <1>10
<1>12. k = 0
  <2>1. k * (T - 1) = k * T - k /\ k * T \in Int
    BY <1>1, <1>6
  <2> QED BY <1>1, <1>11, <2>1
\* Without samples nothing was summed.
<1>13. E = {}
  BY <1>1, <1>12, FS_EmptySet DEF E
<1> DEFINE Z == {m \in Nat : m <= n => sum[m] = 0}
<1>14. 0 \in Z
  BY <1>2
<1>15. ASSUME NEW m \in Nat, m \in Z PROVE m + 1 \in Z
  <2>1. CASE m + 1 <= n
    <3>1. sum[m] = 0 /\ sum[m + 1] = sum[m]
      BY <1>0, <1>5, <1>13, <1>15, <2>1
    <3> QED BY <3>1
  <2>2. CASE ~(m + 1 <= n)
    BY <2>2
  <2> QED BY <2>1, <2>2
<1>16. n \in Z
  BY <1>0, <1>14, <1>15, AllNaturals
<1> QED BY <1>0, <1>2, <1>16 DEF T

\* Rows of fewer places are rows of more.
LEMMA RowsOf ==
  ASSUME NEW S, NEW T, S \subseteq T, NEW rows \in Seq([place : S, role : {"center", "edge"}])
  PROVE  rows \in Seq([place : T, role : {"center", "edge"}])
<1>1. [place : S, role : {"center", "edge"}] \subseteq [place : T, role : {"center", "edge"}]
  OBVIOUS
<1> QED BY <1>1, SeqMonotonic

-----------------------------------------------------------------------------
(* What is captured                                                        *)

\* What the state knows.
GInv ==
  /\ captured \in Seq([place : Points, role : {"center", "edge"}]) /\ Len(captured) <= MaxPoints
  /\ shape \in {"polygon", "circle"}

LEMMA PlacesIs ==
  ASSUME GeometryAssumption, GInv
  PROVE  Places \in Seq(PlaneCell) /\ Len(Places) = Len(captured)
<1>1. ASSUME NEW i \in 1..Len(captured)
      PROVE  captured[i].place \in Points
  <2>1. captured[i] \in [place : Points, role : {"center", "edge"}]
    BY ElementOfSeq DEF GInv
  <2> QED BY <2>1
<1>2. Points \subseteq PlaneCell
  BY DEF GeometryAssumption, PlaneCell
<1>3. Len(captured) \in Nat /\ DOMAIN captured = 1..Len(captured)
  BY DEF GInv
<1>4. Places = [i \in 1..Len(captured) |-> captured[i].place]
  BY <1>3 DEF Places
<1>5. Places \in Seq(PlaneCell)
  BY <1>1, <1>2, <1>3, <1>4, IsASeq
<1> QED BY <1>3, <1>4, <1>5

LEMMA Accepted ==
  ASSUME GeometryAssumption, GInv, NEW p \in Points, NEW k \in DOMAIN Presets, NEW accuracy \in 1..8, Drawn(3),
         Ring(Places) # <<>>, ClockInAccepted(Ring(Places), p, accuracy, Presets[k]),
         ~PointInPolygonRing(Ring(Places), p)
  PROVE  \E i, j \in DOMAIN Places :
           /\ i = j \/ j = (i % Len(Places)) + 1
           /\ Near(Places[i], Places[j], p, FenceBuffer(Presets[k]))
<1> DEFINE b == FenceBuffer(Presets[k])
           s == AccuracyBuffer(accuracy, b)
<1>1. /\ Places \in Seq(PlaneCell) /\ Len(Places) >= 1
      /\ DOMAIN Places = 1..Len(Places) /\ p \in PlaneCell
  BY PlacesIs DEF Drawn, GInv, GeometryAssumption, PlaneCell
<1>2. b \in Nat /\ s \in Nat /\ s <= b
  <2>1. b \in Nat /\ accuracy \in Nat
    BY BoundsGrow
  <2> QED BY <2>1, BufferIs
<1>3. PICK m \in DOMAIN Ring(Places) :
        SegmentWithin(Ring(Places)[m], Ring(Places)[(m % Len(Ring(Places))) + 1], p, s)
  BY DEF ClockInAccepted, PointInFenceWithAccuracy, PolygonRingWithin
<1>4. PICK i, j \in DOMAIN Places :
        /\ i = j \/ j = (i % Len(Places)) + 1
        /\ Ring(Places)[m] = Places[i]
        /\ Ring(Places)[(m % Len(Ring(Places))) + 1] = Places[j]
  BY <1>1, RingEdges
<1>5. Places[i] \in PlaneCell /\ Places[j] \in PlaneCell
  BY <1>1, ElementOfSeq
<1>6. SegmentWithin(Places[i], Places[j], p, b)
  BY <1>1, <1>2, <1>3, <1>4, <1>5, WithinMore
<1> QED BY <1>1, <1>2, <1>4, <1>5, <1>6, WithinIsNear

LEMMA AcceptedNear == ASSUME GeometryAssumption, GInv PROVE AcceptedIsNear
<1> SUFFICES ASSUME Drawn(3), Ring(Places) # <<>>, NEW p \in Points, NEW k \in DOMAIN Presets,
                    NEW accuracy \in 1..8,
                    ClockInAccepted(Ring(Places), p, accuracy, Presets[k]),
                    ~PointInPolygonRing(Ring(Places), p)
             PROVE  LET b == FenceBuffer(Presets[k])
                    IN  \E i, j \in DOMAIN Places :
                 /\ i = j \/ j = (i % Len(Places)) + 1
                 /\ \/ DistanceMeters2(Places[i], p) <= b * b
                    \/ /\ Dot(Places[i], Places[j], p) > 0 /\ Dot(Places[j], Places[i], p) > 0
                       /\ Cross(Places[i], Places[j], p) * Cross(Places[i], Places[j], p)
                            <= b * b * DistanceMeters2(Places[i], Places[j])
  BY DEF AcceptedIsNear
<1>1. PICK i, j \in DOMAIN Places :
           /\ i = j \/ j = (i % Len(Places)) + 1
           /\ Near(Places[i], Places[j], p, FenceBuffer(Presets[k]))
  BY Accepted
<1>2. CASE DistanceMeters2(Places[j], p) <= FenceBuffer(Presets[k]) * FenceBuffer(Presets[k])
  BY <1>2
<1> QED BY <1>1, <1>2 DEF Near

LEMMA LaxerMore == ASSUME GeometryAssumption, GInv PROVE LaxerAcceptsMore
<1> SUFFICES ASSUME Drawn(3), NEW p \in Points, NEW k \in 1..3, NEW accuracy \in 1..8,
                    ClockInAccepted(Ring(Places), p, accuracy, Presets[k])
             PROVE  ClockInAccepted(Ring(Places), p, accuracy, Presets[k + 1])
  BY DEF LaxerAcceptsMore
<1> DEFINE b == FenceBuffer(Presets[k])
           c == FenceBuffer(Presets[k + 1])
           s == AccuracyBuffer(accuracy, b)
           t == AccuracyBuffer(accuracy, c)
<1>1. /\ Places \in Seq(PlaneCell) /\ Len(Places) >= 1 /\ p \in PlaneCell
  BY PlacesIs DEF Drawn, GInv, GeometryAssumption, PlaneCell
<1>2. k \in 1..4 /\ k + 1 \in 1..4 /\ accuracy \in Nat
  OBVIOUS
<1>3. b \in Nat /\ c \in Nat /\ b <= c
  BY <1>2, BoundsGrow
<1>4. s \in Nat /\ t \in Nat /\ s <= t
  BY <1>2, <1>3, BufferIs
<1>5. ValidateStrictLocationReport(accuracy, MaxAccuracy(Presets[k + 1]))
  BY <1>2, BoundsGrow DEF ClockInAccepted, ValidateStrictLocationReport
<1>6. CASE PointInPolygonRing(Ring(Places), p)
  BY <1>5, <1>6 DEF ClockInAccepted, PointInFenceWithAccuracy
<1>7. CASE s > 0 /\ Ring(Places) # <<>> /\ PolygonRingWithin(Ring(Places), p, s)
  <2>1. PICK m \in DOMAIN Ring(Places) :
          SegmentWithin(Ring(Places)[m], Ring(Places)[(m % Len(Ring(Places))) + 1], p, s)
    BY <1>7 DEF PolygonRingWithin
  <2>2. PICK i, j \in DOMAIN Places :
          /\ Ring(Places)[m] = Places[i]
          /\ Ring(Places)[(m % Len(Ring(Places))) + 1] = Places[j]
    BY <1>1, <1>7, RingEdges
  <2>3. Places[i] \in PlaneCell /\ Places[j] \in PlaneCell
    BY <1>1, ElementOfSeq
  <2>4. PolygonRingWithin(Ring(Places), p, t)
    BY <1>1, <1>4, <2>1, <2>2, <2>3, WithinMore DEF PolygonRingWithin
  <2> QED BY <1>4, <1>5, <1>7, <2>4 DEF ClockInAccepted, PointInFenceWithAccuracy
<1> QED BY <1>6, <1>7 DEF ClockInAccepted, PointInFenceWithAccuracy

LEMMA CircleBounded == ASSUME GeometryAssumption, GInv PROVE CircleWithinSamples
<1> SUFFICES ASSUME shape = "circle", CircleResolves(captured),
                    CircleRadius(captured).num # CircleRadius(captured).den
             PROVE  \E i \in CaptureEdges(captured) :
                      CircleRadius(captured).num <= CaptureDistance(captured, i) * CircleRadius(captured).den
  BY DEF CircleWithinSamples
<1>1. captured \in Samples /\ Total(captured) > 0
  <2>1. Points \subseteq PlaneCell
    BY DEF GeometryAssumption, PlaneCell
  <2>2. captured \in Samples
    BY <2>1, RowsOf DEF GInv, Samples
  <2> QED BY <2>2 DEF CircleResolves
<1>2. PICK k : k = Cardinality(CaptureEdges(captured))
  OBVIOUS
<1>3. CircleRadius(captured).num = Total(captured) /\ CircleRadius(captured).den = k
  BY <1>2 DEF CircleRadius
<1>4. \E i \in CaptureEdges(captured) : Total(captured) <= CaptureDistance(captured, i) * k
  BY <1>1, <1>2, AverageReached
<1> QED BY <1>3, <1>4

LEMMA RayFinds == ASSUME GeometryAssumption, GInv PROVE RayFindsInside
<1> SUFFICES ASSUME Len(captured) = 3, Cardinality(Range(Places)) = 3, NEW p \in Points
             PROVE  /\ InsideTriangle(Places[1], Places[2], Places[3], p) => PointInPolygonRing(Ring(Places), p)
                    /\ OutsideTriangle(Places[1], Places[2], Places[3], p) => ~PointInPolygonRing(Ring(Places), p)
  BY DEF RayFindsInside
<1>1. Places \in Seq(PlaneCell) /\ Len(Places) = 3
  BY PlacesIs
<1>2. p \in PlaneCell
  BY DEF GeometryAssumption, PlaneCell
<1> QED BY <1>1, <1>2, TriangleFound

LEMMA PartsAdd == ASSUME GeometryAssumption, GInv PROVE PartsAddUp
<1> SUFFICES ASSUME Drawn(4), NEW p \in Points
             PROVE  PointInPolygonRing(Places, p)
                      = (PointInPolygonRing(SubSeq(Places, 1, 3), p)
                         # PointInPolygonRing(<<Places[1]>> \o SubSeq(Places, 3, Len(Places)), p))
  BY DEF PartsAddUp
<1>1. Places \in Seq(PlaneCell) /\ Len(Places) >= 4
  BY PlacesIs DEF Drawn
<1>2. p \in PlaneCell
  BY DEF GeometryAssumption, PlaneCell
<1>3. PICK n \in Nat : n = Len(Places) /\ n >= 4
  BY <1>1
<1>4. PICK first, rest : /\ first = SubSeq(Places, 1, 3)
                         /\ rest = <<Places[1]>> \o SubSeq(Places, 3, Len(Places))
  OBVIOUS
<1>5. /\ first \in Seq(PlaneCell) /\ Len(first) = 3 /\ \A i \in 1..3 : first[i] = Places[i]
      /\ rest \in Seq(PlaneCell) /\ Len(rest) = n - 1 /\ rest[1] = Places[1]
      /\ \A i \in 2..(n - 1) : rest[i] = Places[i + 1]
  BY <1>1, <1>3, <1>4, PartsAre
<1>6. PICK ps \in Seq(PlaneCell) : ps = Places
  BY <1>1
<1>9. n = Len(ps) /\ rest[1] = ps[1]
  BY <1>3, <1>5, <1>6
<1>10. \A i \in 1..3 : first[i] = ps[i]
  BY <1>5, <1>6
<1>11. \A i \in 2..(n - 1) : rest[i] = ps[i + 1]
  BY <1>5, <1>6
<1>12. first \in Seq(PlaneCell) /\ Len(first) = 3 /\ rest \in Seq(PlaneCell) /\ Len(rest) = n - 1 /\ n >= 4
  BY <1>3, <1>5
<1>8. PointInPolygonRing(ps, p) <=> ~(PointInPolygonRing(first, p) <=> PointInPolygonRing(rest, p))
  BY ONLY <1>2, <1>9, <1>10, <1>11, <1>12, Cut
<1>7. /\ PointInPolygonRing(Places, p) \in BOOLEAN
      /\ PointInPolygonRing(first, p) \in BOOLEAN /\ PointInPolygonRing(rest, p) \in BOOLEAN
  BY DEF PointInPolygonRing
<1>13. PointInPolygonRing(Places, p) = (PointInPolygonRing(first, p) # PointInPolygonRing(rest, p))
  BY <1>6, <1>7, <1>8
<1> QED BY <1>4, <1>13

LEMMA ClosingSame == ASSUME GeometryAssumption, GInv PROVE ClosingChangesNothing
<1> SUFFICES ASSUME Drawn(3), Ring(Places) # <<>>, NEW p \in Points
             PROVE  /\ PointInPolygonRing(Ring(Places), p) = PointInPolygonRing(Places, p)
                    /\ \A r \in 0..2 : PolygonRingWithin(Ring(Places), p, r) = PolygonRingWithin(Places, p, r)
  BY DEF ClosingChangesNothing
<1>1. Places \in Seq(PlaneCell) /\ Len(Places) >= 3
  BY PlacesIs DEF Drawn
<1>2. p \in PlaneCell
  BY DEF GeometryAssumption, PlaneCell
<1>3. CASE Ring(Places) = Places
  BY <1>3
<1>4. CASE Ring(Places) = Append(Places, Places[1])
  <2>1. PICK ring, ps : ps = Places /\ ring = Append(ps, ps[1]) /\ Ring(Places) = ring
    BY <1>4
  <2>2. ps \in Seq(PlaneCell) /\ Len(ps) >= 3 /\ Len(ps) >= 1
    BY <1>1, <2>1
  <2>3. Cardinality(CrossedBy(ring, p)) = Cardinality(CrossedBy(ps, p))
    BY <1>2, <2>1, <2>2, ClosedCrossings
  <2>4. Len(ring) >= 3
    BY <2>1, <2>2
  <2>5. PointInPolygonRing(ring, p) = PointInPolygonRing(ps, p)
    BY <2>2, <2>3, <2>4 DEF PointInPolygonRing, CrossedBy
  <2>6. ASSUME NEW r \in 0..2 PROVE PolygonRingWithin(ring, p, r) = PolygonRingWithin(ps, p, r)
    <3>1. r \in Nat
      OBVIOUS
    <3>2. PolygonRingWithin(ring, p, r) <=> PolygonRingWithin(ps, p, r)
      BY <1>2, <2>1, <2>2, <3>1, ClosedWithin
    <3>3. PolygonRingWithin(ring, p, r) \in BOOLEAN /\ PolygonRingWithin(ps, p, r) \in BOOLEAN
      BY DEF PolygonRingWithin
    <3> QED BY <3>2, <3>3
  <2> QED BY <2>1, <2>5, <2>6
<1>5. Len(Places) >= 1
  BY <1>1
<1> QED BY <1>1, <1>3, <1>4, <1>5, RingIs

LEMMA Types == ASSUME GeometryAssumption, GInv PROVE TypeOK
<1>1. Drawn(3) /\ Cardinality(Range(Places)) >= 3 => Len(Ring(Places)) >= 4
  BY PlacesIs, RingLength DEF Drawn
<1> QED BY <1>1 DEF TypeOK, GInv

LEMMA Run == ASSUME GeometryAssumption PROVE Spec => []GInv
<1>1. Init => GInv
  BY EmptySeq DEF Init, GInv, GeometryAssumption
<1>2. GInv /\ [Next]_vars => GInv'
  <2> SUFFICES ASSUME GInv, [Next]_vars PROVE GInv'
    OBVIOUS
  <2>1. CASE Capture
    <3>1. PICK p \in Points, r \in {"center", "edge"} :
            captured' = Append(captured, [place |-> p, role |-> r])
      BY <2>1 DEF Capture, GeometryAssumption
    <3>2. captured' \in Seq([place : Points, role : {"center", "edge"}]) /\ Len(captured') = Len(captured) + 1
      BY <3>1, AppendProperties DEF GInv
    <3>3. Len(captured) \in Nat /\ MaxPoints \in Nat /\ Len(captured) < MaxPoints
      BY <2>1 DEF Capture, GInv, GeometryAssumption
    <3>4. Len(captured') <= MaxPoints
      BY <3>2, <3>3
    <3> QED BY <2>1, <3>2, <3>4 DEF Capture, GInv
  <2>2. CASE StartAgain
    BY <2>2, EmptySeq DEF StartAgain, GInv, GeometryAssumption
  <2>3. CASE UNCHANGED vars
    BY <2>3 DEF vars, GInv
  <2> QED BY <2>1, <2>2, <2>3 DEF Next
<1> QED BY <1>1, <1>2, PTL DEF Spec

\* Every way to draw a fence has the same inside: as the sides of its edges say, whether
\* the ring is closed or not, and without a gap or an overlap where two fences meet; and
\* a circle reaches no farther than its samples.
THEOREM FencesAreSound ==
  ASSUME GeometryAssumption
  PROVE  Spec => /\ []TypeOK /\ []RayFindsInside /\ []PartsAddUp
                 /\ []ClosingChangesNothing /\ []CircleWithinSamples
<1>1. GInv => TypeOK /\ RayFindsInside /\ PartsAddUp /\ ClosingChangesNothing /\ CircleWithinSamples
  BY Types, RayFinds, PartsAdd, ClosingSame, CircleBounded
<1>2. Spec => []GInv
  BY Run
<1> QED BY <1>1, <1>2, PTL

\* Whoever is let in is in the fence or, up to the buffer of the event, near it; and a more
\* forgiving tolerance lets in whoever a stricter one does.
THEOREM AcceptedReportsAreNear ==
  ASSUME GeometryAssumption PROVE Spec => []AcceptedIsNear /\ []LaxerAcceptsMore
<1>1. GInv => AcceptedIsNear /\ LaxerAcceptsMore
  BY AcceptedNear, LaxerMore
<1>2. Spec => []GInv
  BY Run
<1> QED BY <1>1, <1>2, PTL
===============================================================================
