------------------------------- MODULE Geometry -------------------------------
(***************************************************************************)
(* Where a fence is and who is in it.  An organizer captures points, from  *)
(* which a polygon or a circle is made; attendees report where they are,   *)
(* how accurate that is, and are let in or not by the tolerance of the     *)
(* event.  Points are on a plane, one unit is five meters, and distances   *)
(* are compared by their squares: the curvature of the earth and rounding  *)
(* are left out.  How points are collected is in FenceCapture.             *)
(***************************************************************************)
EXTENDS Integers, FiniteSets, SequencesExt

CONSTANTS
  Points,    \* places, pairs of a latitude and a longitude
  Line,      \* those of them with one longitude, for circles
  MaxPoints  \* bound on the points captured

\* What an instance has to satisfy: the code takes the origin for a report
\* without coordinates.
GeometryAssumption ==
  /\ Points \subseteq {p \in Int \X Int : p # <<0, 0>>}
  /\ Line \subseteq Points /\ \A p, q \in Line : p[2] = q[2]
  /\ MaxPoints \in Nat

VARIABLES
  shape,    \* what is captured
  captured  \* the points so far, with their roles

vars == <<shape, captured>>

Init == shape \in {"polygon", "circle"} /\ captured = <<>>

Capture ==
  /\ Len(captured) < MaxPoints
  /\ \E p \in IF shape = "circle" THEN Line ELSE Points :
     \E r \in IF shape = "circle" THEN {"center", "edge"} ELSE {"edge"} :
        captured' = Append(captured, [place |-> p, role |-> r])
  /\ UNCHANGED shape

\* A new capture session.
StartAgain ==
  /\ captured' = <<>>
  /\ shape' \in {"polygon", "circle"}

Next == Capture \/ StartAgain

Spec == Init /\ [][Next]_vars

-----------------------------------------------------------------------------
(* Distances                                                               *)

DistanceMeters2(p, q) == (p[1] - q[1]) * (p[1] - q[1]) + (p[2] - q[2]) * (p[2] - q[2])

Dot(a, b, p) == (p[1] - a[1]) * (b[1] - a[1]) + (p[2] - a[2]) * (b[2] - a[2])
Cross(a, b, p) == (b[1] - a[1]) * (p[2] - a[2]) - (b[2] - a[2]) * (p[1] - a[1])

\* Mutation: the line through a and b is measured.
LineWithin(a, b, p, r) ==
  IF a = b THEN DistanceMeters2(a, p) <= r * r
  ELSE Cross(a, b, p) * Cross(a, b, p) <= r * r * DistanceMeters2(a, b)

\* Whether the segment from a to b is at most r from p.
SegmentWithin(a, b, p, r) ==
  CASE a = b \/ Dot(a, b, p) < 0            -> DistanceMeters2(a, p) <= r * r
    [] Dot(a, b, p) > DistanceMeters2(a, b) -> DistanceMeters2(b, p) <= r * r
    [] OTHER -> Cross(a, b, p) * Cross(a, b, p) <= r * r * DistanceMeters2(a, b)

-----------------------------------------------------------------------------
(* Polygons                                                                *)

\* Mutation: the first coordinate closes the ring in front of the last.
BuildPolygonCrossed(points) == Front(points) \o <<points[1], Last(points)>>

\* A ring is closed unless it is already.
BuildPolygon(points) ==
  IF Last(points) = points[1] THEN points ELSE Append(points, points[1])

\* Three coordinates are no ring.
ParsePolygonRing(ring) == IF Len(ring) < 4 THEN <<>> ELSE ring

Before(ring, i) == IF i = 1 THEN Len(ring) ELSE i - 1

\* Mutation: an edge reaches both of its ends.
CrossesBoth(ring, i, p) ==
  LET a == ring[i]
      b == ring[Before(ring, i)]
      run == b[2] - a[2]
  IN  /\ (a[2] >= p[2] /\ b[2] <= p[2]) \/ (a[2] <= p[2] /\ b[2] >= p[2])
      /\ run # 0
      /\ IF run > 0 THEN (p[1] - a[1]) * run < (b[1] - a[1]) * (p[2] - a[2])
                    ELSE (p[1] - a[1]) * run > (b[1] - a[1]) * (p[2] - a[2])

\* Whether the ray from p towards higher latitudes meets the edge that ends in corner i.
Crosses(ring, i, p) ==
  LET a == ring[i]
      b == ring[Before(ring, i)]
      run == b[2] - a[2]
  IN  /\ (a[2] > p[2]) # (b[2] > p[2])
      /\ IF run > 0 THEN (p[1] - a[1]) * run < (b[1] - a[1]) * (p[2] - a[2])
                    ELSE (p[1] - a[1]) * run > (b[1] - a[1]) * (p[2] - a[2])

\* Mutation: inside is who sees a single edge.
PointInConvexRing(ring, p) ==
  Len(ring) >= 3 /\ Cardinality({i \in DOMAIN ring : Crosses(ring, i, p)}) = 1

PointInPolygonRing(ring, p) ==
  Len(ring) >= 3 /\ Cardinality({i \in DOMAIN ring : Crosses(ring, i, p)}) % 2 = 1

PolygonRingWithin(ring, p, r) ==
  \E i \in DOMAIN ring : SegmentWithin(ring[i], ring[(i % Len(ring)) + 1], p, r)

\* The ring that is stored for the points, as it is read back.
Ring(points) == ParsePolygonRing(BuildPolygon(points))

-----------------------------------------------------------------------------
(* Circles                                                                 *)

Abs(x) == IF x < 0 THEN -x ELSE x

CaptureCenter(samples) ==
  LET centers == {i \in DOMAIN samples : samples[i].role = "center"}
  IN  samples[IF centers = {} THEN 1 ELSE CHOOSE i \in centers : \A j \in centers : j <= i].place

\* The samples of the radius; without a center the first point stands for it.
CaptureEdges(samples) ==
  IF \E i \in DOMAIN samples : samples[i].role = "center"
  THEN {i \in DOMAIN samples : samples[i].role # "center"}
  ELSE 2..Len(samples)

\* Every sample is on the line of the center.
CaptureDistance(samples, i) == Abs(samples[i].place[1] - CaptureCenter(samples)[1])

\* The distances of the samples, summed one after the other.
Total(samples) ==
  LET upTo[i \in 0..Len(samples)] ==
        IF i = 0 THEN 0
        ELSE IF i \in CaptureEdges(samples) THEN upTo[i - 1] + CaptureDistance(samples, i)
        ELSE upTo[i - 1]
  IN  upTo[Len(samples)]

\* Points of which none is away from the center are an error.
CircleResolves(samples) == Len(samples) >= 2 /\ Total(samples) > 0

\* Mutation: the center is counted as a sample, too.
CircleRadiusOfAll(samples) ==
  [num |-> Total(samples) * Len(samples), den |-> Cardinality(CaptureEdges(samples))]

\* The radius is at least one unit; it is the fraction of the two numbers.
CircleRadius(samples) ==
  LET n == Cardinality(CaptureEdges(samples))
  IN  [num |-> IF Total(samples) < n THEN n ELSE Total(samples), den |-> n]

-----------------------------------------------------------------------------
(* Who is let in                                                           *)

\* From the strictest to the most forgiving.
Presets == <<"none", "strict", "default", "forgiving">>

\* Mutation: strict has the buffer of default.
MaxAccuracySwapped(preset) ==
  CASE preset = "none" -> 2 [] preset = "strict" -> 4 [] preset = "forgiving" -> 7 [] OTHER -> 2

MaxAccuracy(preset) ==
  CASE preset \in {"none", "strict"} -> 2 [] preset = "forgiving" -> 7 [] OTHER -> 4

FenceBuffer(preset) ==
  CASE preset = "none" -> 0 [] preset = "strict" -> 2 [] preset = "forgiving" -> 7 [] OTHER -> 4

\* A report that is not mocked and has coordinates.
ValidateStrictLocationReport(accuracy, bound) == 0 < accuracy /\ accuracy <= bound

AccuracyBuffer(accuracy, bound) ==
  IF accuracy <= 0 \/ bound <= 0 THEN 0 ELSE IF accuracy > bound THEN bound ELSE accuracy

PointInFenceWithAccuracy(ring, p, accuracy, bound) ==
  \/ PointInPolygonRing(ring, p)
  \/ /\ AccuracyBuffer(accuracy, bound) > 0 /\ ring # <<>>
     /\ PolygonRingWithin(ring, p, AccuracyBuffer(accuracy, bound))

\* What the clock-in handler asks of a report for a polygon.
ClockInAccepted(ring, p, accuracy, preset) ==
  /\ ValidateStrictLocationReport(accuracy, MaxAccuracy(preset))
  /\ PointInFenceWithAccuracy(ring, p, accuracy, FenceBuffer(preset))

-----------------------------------------------------------------------------
Places == [i \in DOMAIN captured |-> captured[i].place]
Drawn(n) == shape = "polygon" /\ Len(captured) >= n

\* The points have the role that their shape knows; a polygon that is built from three
\* different points is read back.
TypeOK ==
  /\ shape \in {"polygon", "circle"} /\ Len(captured) <= MaxPoints
  /\ captured \in Seq([place : Points, role : {"center", "edge"}])
  /\ Drawn(3) /\ Cardinality(Range(Places)) >= 3 => Len(Ring(Places)) >= 4

\* Strictly on the inner side of every edge of a triangle.
InsideTriangle(a, b, c, p) ==
  LET sides == {Cross(a, b, p), Cross(b, c, p), Cross(c, a, p)}
  IN  (\A s \in sides : s > 0) \/ (\A s \in sides : s < 0)

OutsideTriangle(a, b, c, p) ==
  LET sides == {Cross(a, b, p), Cross(b, c, p), Cross(c, a, p)}
  IN  (\E s \in sides : s > 0) /\ (\E s \in sides : s < 0)

\* Casting a ray finds who is in a triangle, whatever the order of its corners.
RayFindsInside ==
  Drawn(3) /\ Len(captured) = 3 /\ Cardinality(Range(Places)) = 3 =>
    \A p \in Points :
      /\ InsideTriangle(Places[1], Places[2], Places[3], p) => PointInPolygonRing(Ring(Places), p)
      /\ OutsideTriangle(Places[1], Places[2], Places[3], p) => ~PointInPolygonRing(Ring(Places), p)

\* Two fences that share an edge share no point of it: cutting a polygon along a diagonal,
\* a point is in the whole if and only if it is in one part and not in the other,
\* on edges and corners, too, even if edges of the polygon cross.
PartsAddUp ==
  Drawn(4) =>
    LET first == SubSeq(Places, 1, 3)
        rest == <<Places[1]>> \o SubSeq(Places, 3, Len(Places))
    IN  \A p \in Points :
          PointInPolygonRing(Places, p) = (PointInPolygonRing(first, p) # PointInPolygonRing(rest, p))

\* The repeated first coordinate changes nothing: neither who is in, nor how far the
\* others are from the polygon.
ClosingChangesNothing ==
  Drawn(3) /\ Ring(Places) # <<>> =>
    \A p \in Points :
      /\ PointInPolygonRing(Ring(Places), p) = PointInPolygonRing(Places, p)
      /\ \A r \in 0..2 : PolygonRingWithin(Ring(Places), p, r) = PolygonRingWithin(Places, p, r)

\* Whoever is let in is in the fence or, up to the buffer of the event, near one of its
\* corners or across one of its edges.
AcceptedIsNear ==
  Drawn(3) /\ Ring(Places) # <<>> =>
    \A p \in Points, k \in DOMAIN Presets, accuracy \in 1..8 :
      ClockInAccepted(Ring(Places), p, accuracy, Presets[k]) =>
        \/ PointInPolygonRing(Ring(Places), p)
        \/ LET b == FenceBuffer(Presets[k])
           IN  \E i, j \in DOMAIN Places :
                 /\ i = j \/ j = (i % Len(Places)) + 1
                 /\ \/ DistanceMeters2(Places[i], p) <= b * b
                    \/ /\ Dot(Places[i], Places[j], p) > 0 /\ Dot(Places[j], Places[i], p) > 0
                       /\ Cross(Places[i], Places[j], p) * Cross(Places[i], Places[j], p)
                            <= b * b * DistanceMeters2(Places[i], Places[j])

\* A report that clocks in under one tolerance clocks in under every more forgiving one.
LaxerAcceptsMore ==
  Drawn(3) =>
    \A p \in Points, accuracy \in 1..8, k \in 1..3 :
      ClockInAccepted(Ring(Places), p, accuracy, Presets[k])
        => ClockInAccepted(Ring(Places), p, accuracy, Presets[k + 1])

\* However a circle was sampled, it reaches no farther than its farthest sample, or five meters.
CircleWithinSamples ==
  shape = "circle" /\ CircleResolves(captured) =>
    LET r == CircleRadius(captured)
    IN  \/ r.num = r.den
        \/ \E i \in CaptureEdges(captured) : r.num <= CaptureDistance(captured, i) * r.den
=============================================================================
