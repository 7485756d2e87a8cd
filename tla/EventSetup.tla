------------------------------ MODULE EventSetup ------------------------------
(***************************************************************************)
(* The organizer's side of an event together: its schedule, its fences and *)
(* its fence captures, and what can be relied on.                          *)
(***************************************************************************)
EXTENDS FenceCapture

Init ==
  /\ now = 1
  /\ events = {} /\ schedule = [e \in Events |-> NoTimes]
  /\ fences = {} /\ captures = {} /\ lastId = 0 /\ raced = FALSE
  /\ pc = [w \in Workers |-> "idle"]
  /\ req = [w \in Workers |-> NoRequest]

Next ==
  \/ \E w \in Workers : SetupStep(w) \/ CaptureStep(w) \/ AbortRequest(w)
  \/ CreateEvent
  \/ Tick

Spec == Init /\ [][Next]_vars

-----------------------------------------------------------------------------
Labels ==
  {"idle", "fence_event", "add_fence_event", "add_fence_insert", "update_read",
   "update_fences", "update_write", "delete_fence_event", "delete_fence_row",
   "delete_event_read", "delete_event_rows", "create_event", "create_expire",
   "create_insert", "get_active", "get_expire", "append_read", "append_write",
   "apply_read", "apply_event", "apply_mark"}

Request == [event : Events \cup {Nil}, times : Schedule, fence : Nat, capture : Nat,
            shape : {"circle", "polygon"}, role : Roles, points : Seq(Roles), at : Nat]

\* The types of the tables and the requests: every row has an id that was given
\* out, and a stored fence has both bounds.
TypeOK ==
  /\ now \in 1..MaxTime
  /\ events \subseteq KnownEvents
  /\ schedule \in [Events -> Schedules \cup {NoTimes}]
  /\ fences \subseteq FenceRow /\ captures \subseteq CaptureRow
  /\ lastId \in 0..MaxId /\ raced \in BOOLEAN
  /\ \A row \in fences \cup captures : row.id \in 1..lastId
  /\ pc \in [Workers -> Labels] /\ req \in [Workers -> Request]

-----------------------------------------------------------------------------
(* While requests run one at a time.                                       *)

\* Creating and applying a fence check it against the event, rescheduling checks
\* the event against its fences: every fence lies within its event.
FencesInWindow ==
  ~raced => \A f \in fences : f.event \in events => FenceScheduleFits(schedule[f.event], f)

\* A point that the phone was told was accepted stays in its capture; only a
\* center is replaced, by another center.
AcceptedPointsKept ==
  [][~raced => \A c \in captures, d \in captures' : c.id = d.id =>
       /\ Cardinality(EdgesOf(c.points)) <= Cardinality(EdgesOf(d.points))
       /\ "center" \in {c.points[i] : i \in DOMAIN c.points} =>
            "center" \in {d.points[i] : i \in DOMAIN d.points}]_vars

\* A capture that was applied, or replaced by a newer one, collects no more points.
ClosedFrozen ==
  [][~raced => \A c \in captures, d \in captures' :
       c.id = d.id /\ c.status # "active" => d.points = c.points]_vars

-----------------------------------------------------------------------------
(* However requests interleave.                                            *)

\* However the points of several phones overwrite each other, a capture has at
\* most one center.
AtMostOneCenter ==
  \A c \in captures : \A i, j \in DOMAIN c.points :
    c.points[i] = "center" /\ c.points[j] = "center" => i = j

\* A capture that was closed never becomes active again, although points,
\* expiry and application write the same row without looking at its status.
NeverReactivated ==
  [][\A c \in captures, d \in captures' :
       c.id = d.id /\ c.status # "active" => d.status # "active"]_vars

-----------------------------------------------------------------------------
(* What the code tests for and does not achieve.                           *)

\* ApplyFenceCaptureSession returns the error of AddFence before it marks the
\* session: a session that is applied has its fence.
AppliedHasFence ==
  \A c \in captures : c.status = "applied" => \E f \in fences : f.from = c.id
=============================================================================
