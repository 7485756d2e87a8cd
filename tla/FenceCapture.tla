----------------------------- MODULE FenceCapture -----------------------------
(***************************************************************************)
(* Fence capture: an organizer opens a capture for an event, a phone sends *)
(* GPS points through its link, and the organizer turns the points into a  *)
(* fence.  The link's token is random and stands for the id of its row.    *)
(* Of a point only its role is kept; points that coincide, which no fence  *)
(* can be made of, end the request like an aborted one.                    *)
(***************************************************************************)
EXTENDS FenceSetup

CONSTANTS
  fenceCaptureTTL, \* how long a capture accepts points
  MaxPoints        \* bounds on the points of a capture, by shape

ASSUME FenceCaptureAssumption ==
  /\ fenceCaptureTTL \in Nat
  /\ MaxPoints \in [Shapes -> Nat]

Roles == {"center", "edge"}

CaptureRow == [id : Nat, event : Events, shape : Shapes, status : {"active", "applied", "expired"},
               points : Seq(Roles), expires : Nat]

CaptureUnchanged == UNCHANGED <<now, events, schedule, fences, raced>>

\* UPDATE fence_capture_sessions SET status WHERE id.
SetStatus(id, status) ==
  captures' = {IF c.id = id THEN [c EXCEPT !.status = status] ELSE c : c \in captures}

Active(e) == {c \in captures : c.event = e /\ c.status = "active"}

\* The capture that a token leads to, unless it is closed or too old.
Accepting(id) == {c \in captures : c.id = id /\ c.status = "active" /\ now <= c.expires}

-----------------------------------------------------------------------------
(* POST /v1/events/{id}/fence-capture                                      *)

CreateCapture(w) ==
  /\ \E e \in KnownEvents, s \in Shapes :
        Begin(w, "CreateCapture", "create_event", [NoRequest EXCEPT !.event = e, !.shape = s])
  /\ Unwritten

CreateCaptureEvent(w) ==
  /\ At(w, "create_event")
  /\ IF req[w].event \in events
     THEN Step(w, "create_expire", [req[w] EXCEPT !.at = now])
     ELSE Reply(w)
  /\ OnlyRead

\* The captures before it expire; an error of this UPDATE is ignored.
CreateCaptureExpire(w) ==
  /\ At(w, "create_expire")
  /\ \/ captures' = {IF c \in Active(req[w].event) THEN [c EXCEPT !.status = "expired"] ELSE c :
                       c \in captures}
     \/ UNCHANGED captures
  /\ Goto(w, "create_insert")
  /\ UNCHANGED lastId /\ CaptureUnchanged

CreateCaptureInsert(w) ==
  /\ At(w, "create_insert")
  /\ NewId
  /\ captures' = captures \cup
       {[id |-> lastId', event |-> req[w].event, shape |-> req[w].shape, status |-> "active",
         points |-> <<>>, expires |-> req[w].at + fenceCaptureTTL]}
  /\ Reply(w)
  /\ CaptureUnchanged

-----------------------------------------------------------------------------
(* GET /v1/events/{id}/fence-capture: expires the latest active capture    *)
(* when its time is over.                                                  *)

GetActive(w) ==
  /\ \E e \in KnownEvents :
        Begin(w, "GetActive", "get_active", [NoRequest EXCEPT !.event = e])
  /\ Unwritten

GetActiveRead(w) ==
  /\ At(w, "get_active")
  /\ \/ Active(req[w].event) = {} /\ Reply(w)
     \/ \E c \in Active(req[w].event) :
          /\ \A d \in Active(req[w].event) : d.expires <= c.expires
          /\ IF now > c.expires
             THEN Step(w, "get_expire", [req[w] EXCEPT !.capture = c.id])
             ELSE Reply(w)
  /\ OnlyRead

\* Whatever the status is by now.
GetActiveExpire(w) ==
  /\ At(w, "get_expire")
  /\ SetStatus(req[w].capture, "expired")
  /\ Reply(w)
  /\ UNCHANGED lastId /\ CaptureUnchanged

-----------------------------------------------------------------------------
(* POST /v1/public/fence-capture/{token}/points                            *)

AppendPoint(w) ==
  /\ \E id \in 1..lastId, role \in Roles :
        Begin(w, "AppendPoint", "append_read",
              [NoRequest EXCEPT !.capture = id, !.role = role])
  /\ Unwritten

Snapshot(r, c) == [r EXCEPT !.event = c.event, !.shape = c.shape, !.points = c.points]

\* Mutation: the link of a closed capture still accepts points.
AppendReadAnyStatus(w) ==
  /\ At(w, "append_read")
  /\ \/ (\A c \in captures : c.id # req[w].capture) /\ Reply(w)
     \/ \E c \in captures :
          /\ c.id = req[w].capture
          /\ Len(c.points) < MaxPoints[c.shape]
          /\ Step(w, "append_write", Snapshot(req[w], c))
  /\ OnlyRead

AppendRead(w) ==
  /\ At(w, "append_read")
  /\ \/ Accepting(req[w].capture) = {} /\ Reply(w)
     \/ \E c \in Accepting(req[w].capture) :
          /\ Len(c.points) < MaxPoints[c.shape]
          /\ Step(w, "append_write", Snapshot(req[w], c))
  /\ OnlyRead

IsEdge(role) == role = "edge"
EdgesOf(points) == {i \in DOMAIN points : IsEdge(points[i])}

\* Mutation: the center before it stays.
AppendedUnfiltered(r) == Append(r.points, IF r.shape = "circle" THEN r.role ELSE "edge")

\* Mutation: the filter keeps the center and drops the others.
AppendedInverted(r) ==
  IF r.shape = "circle" /\ r.role = "center"
  THEN <<"center">>
  ELSE Append(r.points, "edge")

\* A new center replaces the one before and the edge points, which are alike here, stay;
\* the roles of a polygon are dropped.
Appended(r) ==
  IF r.shape = "circle" /\ r.role = "center"
  THEN Append([i \in 1..Cardinality(EdgesOf(r.points)) |-> "edge"], "center")
  ELSE Append(r.points, "edge")

\* Mutation: the whole row is saved as it was when it was read.
AppendWriteRow(w) ==
  /\ At(w, "append_write")
  /\ captures' = {IF c.id = req[w].capture
                  THEN [c EXCEPT !.points = Appended(req[w]), !.status = "active"] ELSE c :
                    c \in captures}
  /\ Reply(w)
  /\ UNCHANGED lastId /\ CaptureUnchanged

\* points_json is replaced by the points that were read and the new one.
AppendWrite(w) ==
  /\ At(w, "append_write")
  /\ captures' = {IF c.id = req[w].capture THEN [c EXCEPT !.points = Appended(req[w])] ELSE c :
                    c \in captures}
  /\ Reply(w)
  /\ UNCHANGED lastId /\ CaptureUnchanged

-----------------------------------------------------------------------------
(* POST /v1/events/{id}/fence-capture/apply                                *)

Apply(w) ==
  /\ \E c \in captures, t \in FenceTimes :
        Begin(w, "Apply", "apply_read",
              [NoRequest EXCEPT !.event = c.event, !.capture = c.id, !.times = t])
  /\ Unwritten

\* The status is tested, the age is not.
ApplyRead(w) ==
  /\ At(w, "apply_read")
  /\ \/ (\A c \in captures : c.id = req[w].capture => c.status # "active") /\ Reply(w)
     \/ \E c \in captures :
          /\ c.id = req[w].capture /\ c.status = "active"
          /\ Step(w, "apply_event", Snapshot(req[w], c))
  /\ OnlyRead

\* A circle needs a center, or else its first point, and a radius point.
EnoughPoints(shape, ps) ==
  IF shape = "circle"
  THEN Len(ps) >= 2 /\ EdgesOf(ps) # {}
  ELSE Len(ps) >= 3

ApplyEvent(w) ==
  /\ At(w, "apply_event")
  /\ IF /\ req[w].event \in events
        /\ FenceScheduleFits(schedule[req[w].event], req[w].times)
        /\ EnoughPoints(req[w].shape, req[w].points)
     THEN Step(w, "add_fence_event", Resolved(req[w]))
     ELSE Reply(w)
  /\ OnlyRead

\* An error of AddFence is assigned to the err of the switch clause; the err
\* tested after the switch is nil.
AddFenceFails(w) ==
  /\ pc[w] \in {"add_fence_event", "add_fence_insert"}
  /\ req[w].capture # NoCapture
  /\ FenceAdded(w)
  /\ OnlyRead

\* An error of this UPDATE is ignored; then the reply is the same.
ApplyMark(w) ==
  /\ At(w, "apply_mark")
  /\ SetStatus(req[w].capture, "applied")
  /\ Reply(w)
  /\ UNCHANGED lastId /\ CaptureUnchanged

CaptureStep(w) ==
  \/ CreateCapture(w) \/ CreateCaptureEvent(w) \/ CreateCaptureExpire(w) \/ CreateCaptureInsert(w)
  \/ GetActive(w) \/ GetActiveRead(w) \/ GetActiveExpire(w)
  \/ AppendPoint(w) \/ AppendRead(w) \/ AppendWrite(w)
  \/ Apply(w) \/ ApplyRead(w) \/ ApplyEvent(w) \/ AddFenceFails(w) \/ ApplyMark(w)
=============================================================================
