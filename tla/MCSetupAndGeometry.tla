-------------------------- MODULE MCSetupAndGeometry --------------------------
(***************************************************************************)
(* Setting an event up, and the geometry of what is captured.  EventSetup  *)
(* has the roles of points and Geometry their places; they share no state, *)
(* so that a behaviour is about one of them, its part, and the other stays *)
(* as it began.                                                            *)
(***************************************************************************)
EXTENDS MCEventSetup

CONSTANTS
  Grid,        \* the places that are captured and reported
  GridLine,    \* those of them that circles are captured of
  MaxCaptured  \* bound on the points of a shape

VARIABLES
  part, \* what the behaviour is about
  gShape, gCaptured

gVars == <<gShape, gCaptured>>

\* Geometry, with what is proved of it.
Plane ==
  INSTANCE GeometryProofs WITH
    Points <- Grid, Line <- GridLine, MaxPoints <- MaxCaptured,
    shape <- gShape, captured <- gCaptured

\* A grid on which edges run straight, diagonally and at another slope.
MCGrid == (1..3) \X (1..3)
MCGridLine == (1..3) \X {1}

ASSUME PartsAssumption == Plane!GeometryAssumption

PartsInit ==
  /\ part \in {"setup", "geometry"}
  /\ Init /\ Plane!Init
  /\ part = "setup" => gShape = "circle"

PartsNext ==
  \/ part = "setup" /\ Next /\ UNCHANGED <<part, gVars>>
  \/ part = "geometry" /\ Plane!Next /\ UNCHANGED <<part, vars>>

PartsSpec == PartsInit /\ [][PartsNext]_<<part, vars, gVars>>

\* While requests run one at a time, a point that was accepted stays in its capture,
\* and a closed capture takes no more.
AcceptedPointsStay == AcceptedPointsKept /\ ClosedFrozen

\* Every way to draw a fence has the same inside: no gap and no overlap where fences
\* meet, whether the ring is closed or not, as the sides of its edges say; and a
\* circle reaches no farther than its samples.  Rows keep their types.
ShapesAreSound ==
  /\ TypeOK /\ Plane!TypeOK /\ Plane!RayFindsInside /\ Plane!PartsAddUp
  /\ Plane!ClosingChangesNothing /\ Plane!CircleWithinSamples

\* A report that is accepted was made near the fence, and a more forgiving tolerance
\* accepts whatever a stricter one does.
ReportsAreSound == Plane!AcceptedIsNear /\ Plane!LaxerAcceptsMore
=============================================================================
