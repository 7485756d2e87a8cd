------------------------------ MODULE FenceProofs ------------------------------
(***************************************************************************)
(* Proofs about EventSetup, for any number of requests, events, fences and *)
(* captures, any clock and any bound on the points of a capture.           *)
(* FencesInWindow, AcceptedPointsKept and ClosedFrozen hold while requests *)
(* run one at a time, the types, AtMostOneCenter and NeverReactivated      *)
(* however they interleave.  None of them is inductive: a handler writes   *)
(* what it checked or read some statements before, so what a request knows *)
(* is carried along (Knows, PointsKnown), and that nothing happened in     *)
(* between (Alone).                                                        *)
(***************************************************************************)
EXTENDS MCSetupAndGeometry, FiniteSetTheorems, SequenceTheorems, TLAPS

\* A row of fence_capture_sessions, its points aside, of an event that was created.
IsCapture(c) ==
  /\ c = [id |-> c.id, event |-> c.event, shape |-> c.shape, status |-> c.status,
          points |-> c.points, expires |-> c.expires]
  /\ c.id \in 1..lastId
  /\ c.event \in KnownEvents

\* What a request carries, its points aside.
IsRequest(r) ==
  /\ r = [event |-> r.event, times |-> r.times, fence |-> r.fence, capture |-> r.capture,
          shape |-> r.shape, role |-> r.role, points |-> r.points, at |-> r.at]
  /\ r.times \in Schedule
  /\ r.capture \in Nat

\* The tables: rows belong to events that were created, and ids are given out once.
Tables ==
  /\ lastId \in Nat /\ raced \in BOOLEAN
  /\ schedule \in [Events -> Schedules \cup {NoTimes}]
  /\ events \subseteq KnownEvents
  /\ fences \subseteq FenceRow
  /\ \A f \in fences : f.event \in KnownEvents
  /\ \A c \in captures : IsCapture(c)
  /\ \A c, d \in captures : c.id = d.id => c = d

AddingFence == {"add_fence_event", "add_fence_insert"}
Updating == {"update_read", "update_fences", "update_write"}

\* What a request has found by statement l, and what still holds of it while no
\* other request is in flight.
Knows(l, r) ==
  /\ IsRequest(r)
  /\ l \notin {"idle", "append_read"} => r.event \in KnownEvents
  /\ l \in AddingFence => EventHasSchedule(r.times)
  /\ l \in Updating => r.times \in Schedules
  /\ ~raced =>
       /\ l \in AddingFence /\ r.event \in events =>
            FenceScheduleFits(schedule[r.event], r.times)
       /\ l = "update_write" =>
            \A f \in fences : f.event = r.event => FenceScheduleFits(r.times, f)
       /\ l = "append_write" =>
            \A c \in captures : c.id = r.capture => c.status = "active"

Requesting ==
  /\ pc \in [Workers -> Labels]
  /\ req = [w \in Workers |-> req[w]]
  /\ \A w \in Workers : Knows(pc[w], req[w])

\* Until requests have overlapped, one is in flight at most.
Alone == ~raced => \A v, w \in Workers : ~Idle(v) /\ ~Idle(w) => v = w

IInv == Tables /\ Requesting /\ Alone /\ FencesInWindow

-----------------------------------------------------------------------------
(* Schedules                                                               *)

\* NoTimes is no schedule that organizers choose, and both kinds are schedules.
LEMMA SchedulesAreTimes ==
  /\ NoTimes \in Schedule /\ NoTimes \notin Schedules
  /\ \A s \in Schedules \cup {NoTimes} : s \in Schedule
BY FenceSetupAssumption DEF NoTimes, Schedule, ValidateEventSchedule, EventHasSchedule, ZeroTime

\* A fence that fits was given both bounds, and its resolved times fit as well.
LEMMA ResolvedFits ==
  ASSUME NEW ev \in Schedule, NEW t \in Schedule, FenceScheduleFits(ev, t)
  PROVE  LET s == InheritSchedule(ev, t)
         IN  s \in Schedule /\ EventHasSchedule(s) /\ FenceScheduleFits(ev, s)
BY DEF Schedule, FenceScheduleFits, InheritSchedule, ValidateEventSchedule, EventHasSchedule, ZeroTime

\* A fence's row fits when the times it was made of do.
LEMMA RowFits ==
  ASSUME NEW ev \in Schedule, NEW t \in Schedule, NEW f, f.start = t.start, f.end = t.end,
         FenceScheduleFits(ev, t)
  PROVE  FenceScheduleFits(ev, f)
BY DEF Schedule, FenceScheduleFits, InheritSchedule, ValidateEventSchedule, EventHasSchedule, ZeroTime

-----------------------------------------------------------------------------
(* Requests                                                                *)

\* What setting a field leaves of a request.
LEMMA FieldSet ==
  ASSUME NEW r, IsRequest(r), NEW x
  PROVE  /\ LET q == [r EXCEPT !.event = x]
            IN  IsRequest(q) /\ q.event = x /\ q.times = r.times /\ q.capture = r.capture
         /\ LET q == [r EXCEPT !.times = x]
            IN  x \in Schedule =>
                  IsRequest(q) /\ q.event = r.event /\ q.times = x /\ q.capture = r.capture
         /\ LET q == [r EXCEPT !.capture = x]
            IN  x \in Nat =>
                  IsRequest(q) /\ q.event = r.event /\ q.times = r.times /\ q.capture = x
         /\ LET q == [r EXCEPT !.fence = x]
            IN  IsRequest(q) /\ q.event = r.event /\ q.times = r.times /\ q.capture = r.capture
         /\ LET q == [r EXCEPT !.shape = x]
            IN  IsRequest(q) /\ q.event = r.event /\ q.times = r.times /\ q.capture = r.capture
         /\ LET q == [r EXCEPT !.role = x]
            IN  IsRequest(q) /\ q.event = r.event /\ q.times = r.times /\ q.capture = r.capture
         /\ LET q == [r EXCEPT !.points = x]
            IN  IsRequest(q) /\ q.event = r.event /\ q.times = r.times /\ q.capture = r.capture
         /\ LET q == [r EXCEPT !.at = x]
            IN  IsRequest(q) /\ q.event = r.event /\ q.times = r.times /\ q.capture = r.capture
BY DEF IsRequest

LEMMA NoRequestIs == IsRequest(NoRequest)
BY SchedulesAreTimes DEF IsRequest, NoRequest, NoCapture

\* The requests that handlers are called with.
LEMMA Calls ==
  ASSUME NEW e, NEW t \in Schedule, NEW x, NEW id \in Nat
  PROVE  /\ LET r == [NoRequest EXCEPT !.event = e] IN IsRequest(r) /\ r.event = e
         /\ LET r == [NoRequest EXCEPT !.event = e, !.times = t]
            IN  IsRequest(r) /\ r.event = e /\ r.times = t
         /\ LET r == [NoRequest EXCEPT !.event = e, !.fence = x]
            IN  IsRequest(r) /\ r.event = e
         /\ LET r == [NoRequest EXCEPT !.event = e, !.shape = x]
            IN  IsRequest(r) /\ r.event = e
         /\ LET r == [NoRequest EXCEPT !.event = e, !.capture = id, !.times = t]
            IN  IsRequest(r) /\ r.event = e
         /\ IsRequest([NoRequest EXCEPT !.capture = id, !.role = x])
<1> DEFINE q == [NoRequest EXCEPT !.event = e]
           c == [q EXCEPT !.capture = id]
           d == [NoRequest EXCEPT !.capture = id]
<1>1. IsRequest(q) /\ q.event = e
  BY NoRequestIs, FieldSet
<1>2. IsRequest(d)
  BY NoRequestIs, FieldSet
<1> HIDE DEF q
<1>3. IsRequest(c) /\ c.event = e
  BY <1>1, FieldSet
<1>4. LET r == [q EXCEPT !.times = t] IN IsRequest(r) /\ r.event = e /\ r.times = t
  BY <1>1, FieldSet
<1>5. LET r == [q EXCEPT !.fence = x] IN IsRequest(r) /\ r.event = e
  BY <1>1, FieldSet
<1>6. LET r == [q EXCEPT !.shape = x] IN IsRequest(r) /\ r.event = e
  BY <1>1, FieldSet
<1> HIDE DEF c, d
<1>7. LET r == [c EXCEPT !.times = t] IN IsRequest(r) /\ r.event = e
  BY <1>3, FieldSet
<1>8. IsRequest([d EXCEPT !.role = x])
  BY <1>2, FieldSet
<1> QED BY <1>1, <1>4, <1>5, <1>6, <1>7, <1>8 DEF q, c, d

\* A worker that takes a step moves, the others stay.
LEMMA StepMoves ==
  ASSUME Requesting, NEW w \in Workers, NEW l \in Labels, NEW r, Step(w, l, r)
  PROVE  /\ pc' \in [Workers -> Labels]
         /\ req' = [v \in Workers |-> req'[v]]
         /\ \A v \in Workers : pc'[v] = IF v = w THEN l ELSE pc[v]
         /\ \A v \in Workers : req'[v] = IF v = w THEN r ELSE req[v]
BY DEF Requesting, Step

\* A worker without a request knows nothing.
LEMMA IdleKnows == Knows("idle", NoRequest) /\ Knows("idle", NoRequest)'
BY SchedulesAreTimes DEF Knows, IsRequest, NoRequest, NoCapture, AddingFence, Updating

\* A step that changes no table keeps the invariant when the moving worker knows
\* enough and, if others are in flight, this counts as racing.
LEMMA MoveKeeps ==
  ASSUME IInv, Unwritten, NEW w \in Workers, NEW l \in Labels, NEW r, Step(w, l, r),
         Knows(l, r),
         (OnlyRead /\ ~Idle(w)) \/ Overlap
  PROVE  IInv'
<1>1. raced' \in BOOLEAN /\ (raced => raced')
  BY DEF IInv, Tables, OnlyRead, Overlap
<1>2. UNCHANGED <<events, schedule, fences, captures, lastId>>
  BY DEF Unwritten
<1>3. KnownEvents' = KnownEvents
  BY <1>2 DEF KnownEvents
<1>4. Tables'
  BY <1>1, <1>2, <1>3 DEF IInv, Tables, IsCapture
<1>5. \A k, q : Knows(k, q) => Knows(k, q)'
  BY <1>1, <1>2, <1>3 DEF Knows, IsRequest
<1>6. /\ pc' \in [Workers -> Labels]
      /\ req' = [v \in Workers |-> req'[v]]
      /\ \A v \in Workers : pc'[v] = IF v = w THEN l ELSE pc[v]
      /\ \A v \in Workers : req'[v] = IF v = w THEN r ELSE req[v]
  BY StepMoves DEF IInv
<1>7. Requesting'
  <2>1. \A v \in Workers : Knows(pc'[v], req'[v])
    BY <1>6 DEF IInv, Requesting
  <2>2. \A v \in Workers : Knows(pc[v], req[v])'
    BY <2>1, <1>5
  <2> QED BY <1>6, <2>2 DEF Requesting
<1>8. Alone'
  BY <1>1, <1>6 DEF IInv, Alone, Idle, OnlyRead, Overlap
<1>9. FencesInWindow'
  BY <1>1, <1>2 DEF IInv, FencesInWindow
<1> QED BY <1>4, <1>7, <1>8, <1>9 DEF IInv

LEMMA ReplyKeeps ==
  ASSUME IInv, NEW w \in Workers, ~Idle(w), Reply(w), OnlyRead
  PROVE  IInv'
<1>1. "idle" \in Labels /\ Unwritten /\ Step(w, "idle", NoRequest)
  BY DEF Labels, OnlyRead, Reply
<1> QED BY <1>1, IdleKnows, MoveKeeps

LEMMA GotoKeeps ==
  ASSUME IInv, NEW w \in Workers, ~Idle(w), NEW l \in Labels, Goto(w, l), OnlyRead,
         Knows(l, req[w])
  PROVE  IInv'
<1>1. Step(w, l, req[w]) /\ Unwritten
  BY DEF Goto, Step, IInv, Requesting, OnlyRead
<1> QED BY <1>1, MoveKeeps

LEMMA BeginKeeps ==
  ASSUME IInv, NEW w \in Workers, NEW h, NEW l \in Labels, NEW r, Begin(w, h, l, r),
         Unwritten, Knows(l, r)
  PROVE  IInv'
<1>1. Step(w, l, r) /\ Overlap
  BY DEF Begin, Start
<1> QED BY <1>1, MoveKeeps

\* A statement that writes keeps the invariant when the tables stay sound, the
\* fences stay in their windows and the request knows enough to go on: unless
\* requests have overlapped, the others are idle.
LEMMA WriteKeeps ==
  ASSUME IInv, NEW w \in Workers, ~Idle(w), NEW l \in Labels, NEW r, Step(w, l, r),
         UNCHANGED raced, KnownEvents \subseteq KnownEvents',
         Tables', FencesInWindow', Knows(l, r)'
  PROVE  IInv'
<1>1. /\ pc' \in [Workers -> Labels]
      /\ req' = [v \in Workers |-> req'[v]]
      /\ \A v \in Workers : pc'[v] = IF v = w THEN l ELSE pc[v]
      /\ \A v \in Workers : req'[v] = IF v = w THEN r ELSE req[v]
  BY StepMoves DEF IInv
<1>2. Alone'
  BY <1>1 DEF IInv, Alone, Idle
<1>3. ASSUME NEW v \in Workers, v # w
      PROVE  Knows(pc[v], req[v])'
  <2>1. pc'[v] = pc[v] /\ req'[v] = req[v] /\ Knows(pc[v], req[v])
    BY <1>1, <1>3 DEF IInv, Requesting
  <2>2. ~raced => pc[v] = "idle"
    BY <1>3 DEF IInv, Alone, Idle
  <2> QED BY <2>1, <2>2 DEF Knows, IsRequest, AddingFence, Updating
<1>4. Knows(pc[w], req[w])'
  BY <1>1
<1> QED BY <1>1, <1>2, <1>3, <1>4 DEF IInv, Requesting

\* What the request of a busy worker knows, and where it is.
LEMMA Busy ==
  ASSUME IInv, NEW w \in Workers, NEW l, At(w, l), l # "idle"
  PROVE  ~Idle(w) /\ l \in Labels /\ Knows(l, req[w])
BY DEF IInv, Requesting, At, Idle

-----------------------------------------------------------------------------
(* Tables                                                                  *)

\* Statements that rewrite captures row by row keep ids and events.
LEMMA RowsRewritten ==
  ASSUME Tables, UNCHANGED <<events, schedule, fences, lastId, raced>>, NEW upd,
         captures' = {upd[c] : c \in captures},
         \A c \in captures : IsCapture(upd[c]) /\ upd[c].id = c.id
  PROVE  Tables'
<1>1. KnownEvents' = KnownEvents
  BY DEF KnownEvents
<1>2. \A d \in captures' : IsCapture(d)'
  BY <1>1 DEF IsCapture
<1>3. \A c, d \in captures' : c.id = d.id => c = d
  BY DEF Tables
<1> QED BY <1>1, <1>2, <1>3 DEF Tables

LEMMA StatusSet ==
  ASSUME Tables, UNCHANGED <<events, schedule, fences, lastId, raced>>, NEW id, NEW s,
         SetStatus(id, s)
  PROVE  Tables'
<1> DEFINE upd == [c \in captures |-> IF c.id = id THEN [c EXCEPT !.status = s] ELSE c]
<1>1. captures' = {upd[c] : c \in captures}
  BY DEF SetStatus
<1>2. \A c \in captures : IsCapture(upd[c]) /\ upd[c].id = c.id
  BY DEF Tables, IsCapture
<1> QED BY <1>1, <1>2, RowsRewritten

-----------------------------------------------------------------------------
(* The handlers of FenceSetup, one step per action                         *)

\* Requests start knowing what they were called with.
LEMMA BeginningsKeep ==
  ASSUME IInv, NEW w \in Workers,
         \/ CreateFence(w) \/ UpdateEvent(w) \/ DeleteFence(w) \/ DeleteEvent(w)
         \/ CreateCapture(w) \/ GetActive(w) \/ AppendPoint(w) \/ Apply(w)
  PROVE  IInv'
<1> USE DEF Labels
<1>1. CASE CreateFence(w)
  <2>1. PICK e \in KnownEvents, t \in FenceTimes :
          Begin(w, "CreateFence", "fence_event", [NoRequest EXCEPT !.event = e, !.times = t])
    BY <1>1 DEF CreateFence
  <2>2. Knows("fence_event", [NoRequest EXCEPT !.event = e, !.times = t])
    BY FenceSetupAssumption, Calls, SchedulesAreTimes DEF Knows, AddingFence, Updating
  <2> QED BY <1>1, <2>1, <2>2, BeginKeeps DEF CreateFence
<1>2. CASE UpdateEvent(w)
  <2>1. PICK e \in KnownEvents, s \in Schedules :
          Begin(w, "UpdateEvent", "update_read", [NoRequest EXCEPT !.event = e, !.times = s])
    BY <1>2 DEF UpdateEvent
  <2>2. Knows("update_read", [NoRequest EXCEPT !.event = e, !.times = s])
    BY FenceSetupAssumption, Calls, SchedulesAreTimes DEF Knows, AddingFence, Updating
  <2> QED BY <1>2, <2>1, <2>2, BeginKeeps DEF UpdateEvent
<1>3. CASE DeleteFence(w)
  <2>1. PICK f \in fences :
          Begin(w, "DeleteFence", "delete_fence_event",
                [NoRequest EXCEPT !.event = f.event, !.fence = f.id])
    BY <1>3 DEF DeleteFence
  <2>2. f.event \in KnownEvents
    BY DEF IInv, Tables
  <2>3. Knows("delete_fence_event", [NoRequest EXCEPT !.event = f.event, !.fence = f.id])
    BY <2>2, Calls, SchedulesAreTimes DEF Knows, AddingFence, Updating
  <2> QED BY <1>3, <2>1, <2>3, BeginKeeps DEF DeleteFence
<1>4. CASE DeleteEvent(w)
  <2>1. PICK e \in KnownEvents :
          Begin(w, "DeleteEvent", "delete_event_read", [NoRequest EXCEPT !.event = e])
    BY <1>4 DEF DeleteEvent
  <2>2. Knows("delete_event_read", [NoRequest EXCEPT !.event = e])
    BY FenceSetupAssumption, Calls, SchedulesAreTimes DEF Knows, AddingFence, Updating
  <2> QED BY <1>4, <2>1, <2>2, BeginKeeps DEF DeleteEvent
<1>5. CASE CreateCapture(w)
  <2>1. PICK e \in KnownEvents, s \in Shapes :
          Begin(w, "CreateCapture", "create_event", [NoRequest EXCEPT !.event = e, !.shape = s])
    BY <1>5 DEF CreateCapture
  <2>2. Knows("create_event", [NoRequest EXCEPT !.event = e, !.shape = s])
    BY FenceSetupAssumption, Calls, SchedulesAreTimes DEF Knows, AddingFence, Updating
  <2> QED BY <1>5, <2>1, <2>2, BeginKeeps DEF CreateCapture
<1>6. CASE GetActive(w)
  <2>1. PICK e \in KnownEvents :
          Begin(w, "GetActive", "get_active", [NoRequest EXCEPT !.event = e])
    BY <1>6 DEF GetActive
  <2>2. Knows("get_active", [NoRequest EXCEPT !.event = e])
    BY FenceSetupAssumption, Calls, SchedulesAreTimes DEF Knows, AddingFence, Updating
  <2> QED BY <1>6, <2>1, <2>2, BeginKeeps DEF GetActive
<1>7. CASE AppendPoint(w)
  <2>1. PICK id \in 1..lastId, role \in Roles :
          Begin(w, "AppendPoint", "append_read",
                [NoRequest EXCEPT !.capture = id, !.role = role])
    BY <1>7 DEF AppendPoint
  <2>2. id \in Nat
    BY DEF IInv, Tables
  <2>3. Knows("append_read", [NoRequest EXCEPT !.capture = id, !.role = role])
    BY <2>2, Calls, SchedulesAreTimes DEF Knows, AddingFence, Updating
  <2> QED BY <1>7, <2>1, <2>3, BeginKeeps DEF AppendPoint
<1>8. CASE Apply(w)
  <2>1. PICK c \in captures, t \in FenceTimes :
          Begin(w, "Apply", "apply_read",
                [NoRequest EXCEPT !.event = c.event, !.capture = c.id, !.times = t])
    BY <1>8 DEF Apply
  <2>2. c.event \in KnownEvents /\ c.id \in Nat /\ t \in Schedule
    BY FenceSetupAssumption DEF IInv, Tables, IsCapture
  <2>3. Knows("apply_read", [NoRequest EXCEPT !.event = c.event, !.capture = c.id, !.times = t])
    BY <2>2, Calls DEF Knows, AddingFence, Updating
  <2> QED BY <1>8, <2>1, <2>3, BeginKeeps DEF Apply
<1> QED BY <1>1, <1>2, <1>3, <1>4, <1>5, <1>6, <1>7, <1>8

\* Reading the event: the times of the fence are resolved and fit.
LEMMA ResolvedKnown ==
  ASSUME IInv, NEW w \in Workers, NEW l, At(w, l), l \in {"fence_event", "apply_event"},
         req[w].event \in events, FenceScheduleFits(schedule[req[w].event], req[w].times)
  PROVE  Knows("add_fence_event", Resolved(req[w]))
<1> DEFINE r == req[w]  ev == schedule[r.event]
<1>1. Knows(l, r) /\ IsRequest(r)
  BY Busy DEF Knows
<1>2. r.event \in KnownEvents
  BY <1>1 DEF Knows
<1>3. ev \in Schedule
  BY <1>2, SchedulesAreTimes DEF IInv, Tables, KnownEvents
<1>4. LET s == InheritSchedule(ev, r.times)
      IN  s \in Schedule /\ EventHasSchedule(s) /\ FenceScheduleFits(ev, s)
  BY <1>1, <1>3, ResolvedFits DEF IsRequest
<1>5. Resolved(r) = [r EXCEPT !.times = InheritSchedule(ev, r.times)]
  BY DEF Resolved
<1> HIDE DEF r, ev
<1>6. IsRequest(Resolved(r)) /\ Resolved(r).event = r.event
      /\ Resolved(r).times = InheritSchedule(ev, r.times)
  BY <1>1, <1>4, <1>5 DEF IsRequest
<1>7. ev = schedule[r.event]
  BY DEF r, ev
<1> QED BY <1>2, <1>4, <1>6, <1>7 DEF Knows, AddingFence, Updating, r

\* AddFence has returned: a request of CreateFence ends, one of Apply goes on.
LEMMA AddedKeeps ==
  ASSUME IInv, NEW w \in Workers, ~Idle(w), pc[w] \in AddingFence, FenceAdded(w), OnlyRead
  PROVE  IInv'
<1>1. CASE Reply(w)
  BY <1>1, ReplyKeeps
<1>2. CASE Goto(w, "apply_mark")
  <2>1. Knows(pc[w], req[w])
    BY DEF IInv, Requesting
  <2>2. Knows("apply_mark", req[w])
    BY <2>1 DEF Knows, AddingFence, Updating
  <2> QED BY <1>2, <2>2, GotoKeeps DEF Labels
<1> QED BY <1>1, <1>2 DEF FenceAdded

LEMMA AddFenceInsertKeeps ==
  ASSUME IInv, NEW w \in Workers, AddFenceInsert(w)
  PROVE  IInv'
<1>0. PICK r : r = req[w]
  OBVIOUS
<1> DEFINE row == [id |-> lastId', event |-> r.event, from |-> r.capture,
                   start |-> r.times.start, end |-> r.times.end]
<1>1. ~Idle(w) /\ pc[w] = "add_fence_insert" /\ Knows("add_fence_insert", r)
  BY <1>0, Busy DEF AddFenceInsert, At
<1>2. /\ IsRequest(r) /\ r.event \in KnownEvents /\ EventHasSchedule(r.times)
      /\ ~raced /\ r.event \in events => FenceScheduleFits(schedule[r.event], r.times)
  BY <1>1 DEF Knows, AddingFence
<1>3. /\ lastId \in Nat /\ lastId' = lastId + 1
      /\ UNCHANGED <<events, schedule, captures, raced>>
      /\ fences' = fences \cup {row}
  BY <1>0 DEF AddFenceInsert, NewId, IInv, Tables
<1>4. KnownEvents' = KnownEvents
  BY <1>3 DEF KnownEvents
<1>5. row \in FenceRow
  BY <1>2, <1>3 DEF FenceRow, IsRequest, Schedule, EventHasSchedule, KnownEvents
<1>6. Tables'
  <2>1. \A c \in captures' : IsCapture(c)'
    BY <1>3, <1>4 DEF IInv, Tables, IsCapture
  <2>2. fences' \subseteq FenceRow /\ \A f \in fences' : f.event \in KnownEvents'
    BY <1>2, <1>3, <1>4, <1>5 DEF IInv, Tables
  <2> QED BY <2>1, <2>2, <1>3, <1>4 DEF IInv, Tables
<1>7. FencesInWindow'
  <2>1. ASSUME ~raced, r.event \in events
        PROVE  FenceScheduleFits(schedule[r.event], row)
    <3>1. schedule[r.event] \in Schedule /\ r.times \in Schedule
      BY <1>2, SchedulesAreTimes DEF IInv, Tables, KnownEvents, IsRequest
    <3>2. row.start = r.times.start /\ row.end = r.times.end
      OBVIOUS
    <3> QED BY <2>1, <1>2, <3>1, <3>2, RowFits
  <2>2. row.event = r.event
    OBVIOUS
  <2> QED BY <2>1, <2>2, <1>3 DEF IInv, FencesInWindow
<1>8. CASE Reply(w)
  <2>1. Step(w, "idle", NoRequest) /\ "idle" \in Labels
    BY <1>8 DEF Reply, Labels
  <2> QED BY <2>1, <1>1, <1>3, <1>4, <1>6, <1>7, IdleKnows, WriteKeeps
<1>9. CASE Goto(w, "apply_mark")
  <2>1. Step(w, "apply_mark", r) /\ "apply_mark" \in Labels
    BY <1>0, <1>9 DEF Goto, Step, Labels, IInv, Requesting
  <2>2. Knows("apply_mark", r)'
    BY <1>2, <1>4 DEF Knows, AddingFence, Updating, IsRequest
  <2> QED BY <2>1, <2>2, <1>1, <1>3, <1>4, <1>6, <1>7, WriteKeeps
<1> QED BY <1>8, <1>9 DEF AddFenceInsert, FenceAdded

LEMMA UpdateEventWriteKeeps ==
  ASSUME IInv, NEW w \in Workers, UpdateEventWrite(w)
  PROVE  IInv'
<1> DEFINE e == req[w].event  s == req[w].times
<1>1. ~Idle(w) /\ Knows("update_write", req[w])
  BY Busy DEF UpdateEventWrite
<1>2. /\ e \in KnownEvents /\ s \in Schedules
      /\ ~raced => \A f \in fences : f.event = e => FenceScheduleFits(s, f)
  BY <1>1 DEF Knows, Updating
<1>3. /\ Step(w, "idle", NoRequest) /\ "idle" \in Labels
      /\ UNCHANGED <<events, fences, captures, lastId, raced>>
      /\ schedule' = IF e \in events THEN [schedule EXCEPT ![e] = s] ELSE schedule
  BY DEF UpdateEventWrite, Reply, Labels
<1>4. /\ schedule' \in [Events -> Schedules \cup {NoTimes}]
      /\ \A d \in Events : schedule'[d] = IF d = e /\ e \in events THEN s ELSE schedule[d]
  BY <1>2, <1>3 DEF IInv, Tables
<1>5. KnownEvents' = KnownEvents
  BY <1>2, <1>4, SchedulesAreTimes DEF KnownEvents
<1>6. Tables'
  BY <1>3, <1>4, <1>5 DEF IInv, Tables, IsCapture
<1>7. FencesInWindow'
  <2> SUFFICES ASSUME ~raced, NEW f \in fences, f.event \in events
               PROVE  FenceScheduleFits(schedule'[f.event], f)
    BY <1>3 DEF FencesInWindow
  <2>1. f.event \in Events
    BY DEF IInv, Tables, KnownEvents
  <2> QED BY <2>1, <1>2, <1>4 DEF IInv, FencesInWindow
<1> QED BY <1>1, <1>3, <1>5, <1>6, <1>7, IdleKnows, WriteKeeps

LEMMA DeletesKeep ==
  ASSUME IInv, NEW w \in Workers, DeleteFenceRow(w) \/ DeleteEventRows(w)
  PROVE  IInv'
<1>1. /\ ~Idle(w) /\ Step(w, "idle", NoRequest) /\ "idle" \in Labels
      /\ UNCHANGED <<schedule, lastId, raced>>
      /\ events' \subseteq events /\ fences' \subseteq fences /\ captures' \subseteq captures
  BY Busy DEF DeleteFenceRow, DeleteEventRows, Reply, Labels, OnlyRead, Unwritten
<1>2. KnownEvents' = KnownEvents
  BY <1>1 DEF KnownEvents
<1>3. Tables'
  BY <1>1, <1>2 DEF IInv, Tables, IsCapture
<1>4. FencesInWindow'
  BY <1>1 DEF IInv, FencesInWindow
<1> QED BY <1>1, <1>2, <1>3, <1>4, IdleKnows, WriteKeeps

LEMMA SetupStepKeeps ==
  ASSUME IInv, NEW w \in Workers, SetupStep(w)
  PROVE  IInv'
<1> USE DEF Labels
<1>1. CASE CreateFence(w) \/ UpdateEvent(w) \/ DeleteFence(w) \/ DeleteEvent(w)
  BY <1>1, BeginningsKeep
<1>2. CASE FenceEvent(w)
  <2>1. ~Idle(w) /\ At(w, "fence_event") /\ OnlyRead
    BY <1>2, Busy DEF FenceEvent
  <2>2. CASE Reply(w)
    BY <2>1, <2>2, ReplyKeeps
  <2>3. CASE /\ req[w].event \in events
             /\ FenceScheduleFits(schedule[req[w].event], req[w].times)
             /\ Step(w, "add_fence_event", Resolved(req[w]))
    BY <2>1, <2>3, ResolvedKnown, MoveKeeps DEF OnlyRead
  <2> QED BY <1>2, <2>2, <2>3 DEF FenceEvent
<1>3. CASE AddFenceEvent(w)
  <2>1. ~Idle(w) /\ pc[w] = "add_fence_event" /\ OnlyRead /\ Knows("add_fence_event", req[w])
    BY <1>3, Busy DEF AddFenceEvent, At
  <2>2. CASE Goto(w, "add_fence_insert")
    BY <2>1, <2>2, GotoKeeps DEF Knows, AddingFence, Updating
  <2>3. CASE FenceAdded(w)
    BY <2>1, <2>3, AddedKeeps DEF AddingFence
  <2> QED BY <1>3, <2>2, <2>3 DEF AddFenceEvent
<1>4. CASE AddFenceInsert(w)
  BY <1>4, AddFenceInsertKeeps
<1>5. CASE UpdateEventRead(w)
  <2>1. ~Idle(w) /\ OnlyRead /\ Knows("update_read", req[w])
    BY <1>5, Busy DEF UpdateEventRead, Check
  <2>2. CASE Goto(w, "update_fences")
    BY <2>1, <2>2, GotoKeeps DEF Knows, AddingFence, Updating
  <2> QED BY <1>5, <2>1, <2>2, ReplyKeeps DEF UpdateEventRead, Check
<1>6. CASE UpdateEventFences(w)
  <2>1. ~Idle(w) /\ OnlyRead /\ Knows("update_fences", req[w])
    BY <1>6, Busy DEF UpdateEventFences, Check
  <2>2. CASE /\ \A f \in fences : f.event = req[w].event => FenceScheduleFits(req[w].times, f)
             /\ Goto(w, "update_write")
    BY <2>1, <2>2, GotoKeeps DEF Knows, AddingFence, Updating
  <2> QED BY <1>6, <2>1, <2>2, ReplyKeeps DEF UpdateEventFences, Check
<1>7. CASE UpdateEventWrite(w)
  BY <1>7, UpdateEventWriteKeeps
<1>8. CASE DeleteFenceEvent(w)
  <2>1. ~Idle(w) /\ OnlyRead /\ Knows("delete_fence_event", req[w])
    BY <1>8, Busy DEF DeleteFenceEvent, Check
  <2>2. CASE Goto(w, "delete_fence_row")
    BY <2>1, <2>2, GotoKeeps DEF Knows, AddingFence, Updating
  <2> QED BY <1>8, <2>1, <2>2, ReplyKeeps DEF DeleteFenceEvent, Check
<1>9. CASE DeleteEventRead(w)
  <2>1. ~Idle(w) /\ OnlyRead /\ Knows("delete_event_read", req[w])
    BY <1>9, Busy DEF DeleteEventRead, Check
  <2>2. CASE Goto(w, "delete_event_rows")
    BY <2>1, <2>2, GotoKeeps DEF Knows, AddingFence, Updating
  <2> QED BY <1>9, <2>1, <2>2, ReplyKeeps DEF DeleteEventRead, Check
<1>10. CASE DeleteFenceRow(w) \/ DeleteEventRows(w)
  BY <1>10, DeletesKeep
<1> QED
  BY <1>1, <1>2, <1>3, <1>4, <1>5, <1>6, <1>7, <1>8, <1>9, <1>10 DEF SetupStep

-----------------------------------------------------------------------------
(* The handlers of FenceCapture, one step per action                       *)

\* What a request has read of a capture belongs to an event that was created.
LEMMA SnapshotIs ==
  ASSUME NEW r, IsRequest(r), NEW c
  PROVE  LET q == Snapshot(r, c)
         IN  IsRequest(q) /\ q.event = c.event /\ q.capture = r.capture
<1> DEFINE a == [r EXCEPT !.event = c.event]
           b == [a EXCEPT !.shape = c.shape]
<1>1. IsRequest(a) /\ a.event = c.event /\ a.capture = r.capture
  BY DEF IsRequest
<1> HIDE DEF a
<1>2. IsRequest(b) /\ b.event = c.event /\ b.capture = r.capture
  BY <1>1 DEF IsRequest
<1> HIDE DEF b
<1>3. LET q == [b EXCEPT !.points = c.points]
      IN  IsRequest(q) /\ q.event = c.event /\ q.capture = r.capture
  BY <1>2 DEF IsRequest
<1> QED BY <1>3 DEF Snapshot, a, b

\* The last statement of a handler that rewrites captures.
LEMMA CapturesWritten ==
  ASSUME IInv, NEW w \in Workers, ~Idle(w), Reply(w), CaptureUnchanged, UNCHANGED lastId, Tables'
  PROVE  IInv'
<1>1. /\ Step(w, "idle", NoRequest) /\ "idle" \in Labels
      /\ UNCHANGED <<events, schedule, fences, raced>>
  BY DEF Reply, Labels, CaptureUnchanged
<1>2. KnownEvents' = KnownEvents /\ FencesInWindow'
  BY <1>1 DEF KnownEvents, IInv, FencesInWindow
<1> QED BY <1>1, <1>2, IdleKnows, WriteKeeps

LEMMA CreateCaptureKeeps ==
  ASSUME IInv, NEW w \in Workers,
         CreateCaptureEvent(w) \/ CreateCaptureExpire(w) \/ CreateCaptureInsert(w)
  PROVE  IInv'
<1>1. CASE CreateCaptureEvent(w)
  <2>1. ~Idle(w) /\ OnlyRead /\ Unwritten /\ Knows("create_event", req[w])
    BY <1>1, Busy DEF CreateCaptureEvent, OnlyRead
  <2>2. CASE Step(w, "create_expire", [req[w] EXCEPT !.at = now])
    <3>1. Knows("create_expire", [req[w] EXCEPT !.at = now]) /\ "create_expire" \in Labels
      BY <2>1, FieldSet DEF Knows, AddingFence, Updating, Labels
    <3> QED BY <2>1, <2>2, <3>1, MoveKeeps
  <2> QED BY <1>1, <2>1, <2>2, ReplyKeeps DEF CreateCaptureEvent
<1>2. CASE CreateCaptureExpire(w)
  <2>0. PICK r : r = req[w]
    OBVIOUS
  <2>1. ~Idle(w) /\ Knows("create_expire", r)
    BY <1>2, <2>0, Busy DEF CreateCaptureExpire
  <2>2. UNCHANGED <<events, schedule, fences, raced, lastId>>
    BY <1>2 DEF CreateCaptureExpire, CaptureUnchanged
  <2>3. KnownEvents' = KnownEvents /\ FencesInWindow'
    BY <2>2 DEF KnownEvents, IInv, FencesInWindow
  <2>4. Tables'
    <3> DEFINE upd == [c \in captures |-> IF c \in Active(r.event)
                                          THEN [c EXCEPT !.status = "expired"] ELSE c]
    <3>1. CASE UNCHANGED captures
      BY <3>1, <2>2, <2>3 DEF IInv, Tables, IsCapture
    <3>2. CASE captures' = {upd[c] : c \in captures}
      <4>1. \A c \in captures : IsCapture(upd[c]) /\ upd[c].id = c.id
        BY DEF IInv, Tables, IsCapture
      <4> HIDE DEF upd
      <4> QED BY <3>2, <4>1, <2>2, RowsRewritten DEF IInv
    <3> QED BY <1>2, <2>0, <3>1, <3>2 DEF CreateCaptureExpire
  <2>5. Step(w, "create_insert", r) /\ "create_insert" \in Labels
    BY <1>2, <2>0 DEF CreateCaptureExpire, Goto, Step, Labels, IInv, Requesting
  <2>6. Knows("create_insert", r)'
    BY <2>1, <2>3 DEF Knows, AddingFence, Updating, IsRequest
  <2> QED BY <2>1, <2>2, <2>3, <2>4, <2>5, <2>6, WriteKeeps
<1>3. CASE CreateCaptureInsert(w)
  <2>0. PICK row : row = [id |-> lastId', event |-> req[w].event, shape |-> req[w].shape,
                          status |-> "active", points |-> <<>>,
                          expires |-> req[w].at + fenceCaptureTTL]
    OBVIOUS
  <2>1. ~Idle(w) /\ req[w].event \in KnownEvents
    BY <1>3, Busy DEF CreateCaptureInsert, Knows
  <2>2. /\ lastId \in Nat /\ lastId' = lastId + 1
        /\ UNCHANGED <<events, schedule, fences, raced>>
        /\ captures' = captures \cup {row}
        /\ Step(w, "idle", NoRequest) /\ "idle" \in Labels
    BY <1>3, <2>0 DEF CreateCaptureInsert, NewId, CaptureUnchanged, IInv, Tables, Reply, Labels
  <2>3. KnownEvents' = KnownEvents /\ FencesInWindow'
    BY <2>2 DEF KnownEvents, IInv, FencesInWindow
  <2>4. Tables'
    <3>1. IsCapture(row)' /\ row.id = lastId'
      BY <2>0, <2>1, <2>2, <2>3 DEF IsCapture
    <3>2. \A c \in captures : IsCapture(c)' /\ c.id # lastId'
      BY <2>2, <2>3 DEF IInv, Tables, IsCapture
    <3> QED BY <2>2, <2>3, <3>1, <3>2 DEF IInv, Tables
  <2> QED BY <2>1, <2>2, <2>3, <2>4, IdleKnows, WriteKeeps
<1> QED BY <1>1, <1>2, <1>3

LEMMA GetActiveKeeps ==
  ASSUME IInv, NEW w \in Workers, GetActiveRead(w) \/ GetActiveExpire(w)
  PROVE  IInv'
<1>1. CASE GetActiveRead(w)
  <2>1. ~Idle(w) /\ OnlyRead /\ Unwritten /\ Knows("get_active", req[w])
    BY <1>1, Busy DEF GetActiveRead, OnlyRead
  <2>2. ASSUME NEW c \in captures, Step(w, "get_expire", [req[w] EXCEPT !.capture = c.id])
        PROVE  IInv'
    <3>1. c.id \in Nat
      BY DEF IInv, Tables, IsCapture
    <3>2. Knows("get_expire", [req[w] EXCEPT !.capture = c.id]) /\ "get_expire" \in Labels
      BY <2>1, <3>1 DEF Knows, IsRequest, AddingFence, Updating, Labels
    <3> QED BY <2>1, <2>2, <3>2, MoveKeeps
  <2> QED BY <1>1, <2>1, <2>2, ReplyKeeps DEF GetActiveRead, Active
<1>2. CASE GetActiveExpire(w)
  <2>1. ~Idle(w)
    BY <1>2, Busy DEF GetActiveExpire
  <2>2. Tables'
    BY <1>2, StatusSet DEF GetActiveExpire, CaptureUnchanged, IInv
  <2> QED BY <1>2, <2>1, <2>2, CapturesWritten DEF GetActiveExpire
<1> QED BY <1>1, <1>2

LEMMA AppendKeeps ==
  ASSUME IInv, NEW w \in Workers, AppendRead(w) \/ AppendWrite(w)
  PROVE  IInv'
<1>1. CASE AppendRead(w)
  <2>1. ~Idle(w) /\ OnlyRead /\ Unwritten /\ Knows("append_read", req[w])
    BY <1>1, Busy DEF AppendRead, OnlyRead
  <2>2. ASSUME NEW c \in Accepting(req[w].capture),
               Step(w, "append_write", Snapshot(req[w], c))
        PROVE  IInv'
    <3>1. c \in captures /\ c.id = req[w].capture /\ c.status = "active"
      BY DEF Accepting
    <3>2. LET q == Snapshot(req[w], c)
          IN  IsRequest(q) /\ q.event = c.event /\ q.capture = req[w].capture
      BY <2>1, SnapshotIs DEF Knows
    <3>3. Knows("append_write", Snapshot(req[w], c))
      BY <3>1, <3>2 DEF Knows, AddingFence, Updating, IInv, Tables, IsCapture
    <3> QED BY <2>1, <2>2, <3>3, MoveKeeps DEF Labels
  <2> QED BY <1>1, <2>1, <2>2, ReplyKeeps DEF AppendRead
<1>2. CASE AppendWrite(w)
  <2>1. ~Idle(w)
    BY <1>2, Busy DEF AppendWrite
  <2>2. Tables'
    <3>0. PICK r : r = req[w]
      OBVIOUS
    <3> DEFINE upd == [c \in captures |-> IF c.id = r.capture
                                          THEN [c EXCEPT !.points = Appended(r)] ELSE c]
    <3>1. captures' = {upd[c] : c \in captures}
      BY <1>2, <3>0 DEF AppendWrite
    <3>2. \A c \in captures : IsCapture(upd[c]) /\ upd[c].id = c.id
      BY DEF IInv, Tables, IsCapture
    <3> HIDE DEF upd
    <3> QED BY <1>2, <3>1, <3>2, RowsRewritten DEF AppendWrite, CaptureUnchanged, IInv
  <2> QED BY <1>2, <2>1, <2>2, CapturesWritten DEF AppendWrite
<1> QED BY <1>1, <1>2

LEMMA ApplyKeeps ==
  ASSUME IInv, NEW w \in Workers,
         ApplyRead(w) \/ ApplyEvent(w) \/ AddFenceFails(w) \/ ApplyMark(w)
  PROVE  IInv'
<1>1. CASE ApplyRead(w)
  <2>1. ~Idle(w) /\ OnlyRead /\ Unwritten /\ Knows("apply_read", req[w])
    BY <1>1, Busy DEF ApplyRead, OnlyRead
  <2>2. ASSUME NEW c \in captures, Step(w, "apply_event", Snapshot(req[w], c))
        PROVE  IInv'
    <3>1. LET q == Snapshot(req[w], c)
          IN  IsRequest(q) /\ q.event = c.event /\ q.capture = req[w].capture
      BY <2>1, SnapshotIs DEF Knows
    <3>2. Knows("apply_event", Snapshot(req[w], c))
      BY <3>1 DEF Knows, AddingFence, Updating, IInv, Tables, IsCapture
    <3> QED BY <2>1, <2>2, <3>2, MoveKeeps DEF Labels
  <2> QED BY <1>1, <2>1, <2>2, ReplyKeeps DEF ApplyRead
<1>2. CASE ApplyEvent(w)
  <2>1. ~Idle(w) /\ At(w, "apply_event") /\ OnlyRead
    BY <1>2, Busy DEF ApplyEvent
  <2>2. CASE /\ req[w].event \in events
             /\ FenceScheduleFits(schedule[req[w].event], req[w].times)
             /\ Step(w, "add_fence_event", Resolved(req[w]))
    BY <2>1, <2>2, ResolvedKnown, MoveKeeps DEF OnlyRead, Labels
  <2> QED BY <1>2, <2>1, <2>2, ReplyKeeps DEF ApplyEvent
<1>3. CASE AddFenceFails(w)
  <2>1. ~Idle(w) /\ pc[w] \in AddingFence /\ FenceAdded(w) /\ OnlyRead
    BY <1>3 DEF AddFenceFails, AddingFence, Idle
  <2> QED BY <2>1, AddedKeeps
<1>4. CASE ApplyMark(w)
  <2>1. ~Idle(w)
    BY <1>4, Busy DEF ApplyMark
  <2>2. Tables'
    BY <1>4, StatusSet DEF ApplyMark, CaptureUnchanged, IInv
  <2> QED BY <1>4, <2>1, <2>2, CapturesWritten DEF ApplyMark
<1> QED BY <1>1, <1>2, <1>3, <1>4

LEMMA CaptureStepKeeps ==
  ASSUME IInv, NEW w \in Workers, CaptureStep(w)
  PROVE  IInv'
BY BeginningsKeep, CreateCaptureKeeps, GetActiveKeeps, AppendKeeps, ApplyKeeps DEF CaptureStep

-----------------------------------------------------------------------------
(* The specification                                                       *)

LEMMA CreateEventKeeps ==
  ASSUME IInv, CreateEvent
  PROVE  IInv'
<1>1. PICK e \in Events \ KnownEvents, s \in Schedules :
        events' = events \cup {e} /\ schedule' = [schedule EXCEPT ![e] = s]
  BY DEF CreateEvent
<1>2. /\ UNCHANGED <<fences, captures, lastId, pc, req>>
      /\ raced' \in BOOLEAN /\ (raced => raced')
      /\ ~raced' => \A w \in Workers : Idle(w)
  BY DEF CreateEvent, workers, Overlap, IInv, Tables
<1>3. /\ schedule' \in [Events -> Schedules \cup {NoTimes}]
      /\ \A d \in Events : schedule'[d] = IF d = e THEN s ELSE schedule[d]
  BY <1>1 DEF IInv, Tables
<1>4. KnownEvents' = KnownEvents \cup {e}
  BY <1>3, SchedulesAreTimes DEF KnownEvents
<1>5. Tables'
  BY <1>1, <1>2, <1>3, <1>4 DEF IInv, Tables, IsCapture
<1>6. Requesting'
  <2>1. ASSUME NEW w \in Workers PROVE Knows(pc[w], req[w])'
    BY <1>2, <1>4 DEF IInv, Requesting, Knows, IsRequest, Idle, AddingFence, Updating
  <2> QED BY <2>1, <1>2 DEF IInv, Requesting
<1>7. Alone'
  BY <1>2 DEF IInv, Alone, Idle
<1>8. FencesInWindow'
  <2> SUFFICES ASSUME ~raced, NEW f \in fences, f.event \in events'
               PROVE  FenceScheduleFits(schedule'[f.event], f)
    BY <1>2 DEF FencesInWindow
  <2>1. f.event \in KnownEvents /\ f.event # e /\ f.event \in Events
    BY DEF IInv, Tables, KnownEvents
  <2> QED BY <2>1, <1>1, <1>3 DEF IInv, FencesInWindow
<1> QED BY <1>5, <1>6, <1>7, <1>8 DEF IInv

LEMMA TickKeeps ==
  ASSUME IInv, UNCHANGED <<events, schedule, fences, captures, lastId, raced, pc, req>>
  PROVE  IInv'
<1>1. KnownEvents' = KnownEvents
  BY DEF KnownEvents
<1>2. Tables' /\ FencesInWindow' /\ Alone'
  BY <1>1 DEF IInv, Tables, IsCapture, FencesInWindow, Alone, Idle
<1>3. Requesting'
  BY <1>1 DEF IInv, Requesting, Knows, IsRequest
<1> QED BY <1>2, <1>3 DEF IInv

LEMMA NextKeeps ==
  ASSUME IInv, [Next]_vars
  PROVE  IInv'
<1>1. CASE \E w \in Workers : SetupStep(w) \/ CaptureStep(w)
  BY <1>1, SetupStepKeeps, CaptureStepKeeps
<1>2. CASE \E w \in Workers : AbortRequest(w)
  BY <1>2, ReplyKeeps DEF AbortRequest
<1>3. CASE CreateEvent
  BY <1>3, CreateEventKeeps
<1>4. CASE Tick \/ UNCHANGED vars
  BY <1>4, TickKeeps DEF Tick, vars, workers
<1> QED BY <1>1, <1>2, <1>3, <1>4 DEF Next

LEMMA InitHolds ==
  ASSUME Init
  PROVE  IInv
<1>1. Tables
  BY SchedulesAreTimes DEF Init, Tables, KnownEvents
<1>2. Requesting
  BY IdleKnows DEF Init, Requesting, Labels
<1>3. Alone /\ FencesInWindow
  BY DEF Init, Alone, Idle, FencesInWindow
<1> QED BY <1>1, <1>2, <1>3 DEF IInv

LEMMA Invariance == Spec => []IInv
<1>1. Init => IInv
  BY InitHolds
<1>2. IInv /\ [Next]_vars => IInv'
  BY NextKeeps
<1> QED BY <1>1, <1>2, PTL DEF Spec

\* Creating and applying a fence check it against the event, rescheduling checks the
\* event against its fences: as long as requests run one at a time, every fence
\* lies within its event, whatever was created, moved or deleted before.
THEOREM FencesStayInWindow == Spec => []FencesInWindow
<1>1. IInv => FencesInWindow
  BY DEF IInv
<1> QED BY <1>1, Invariance, PTL

-----------------------------------------------------------------------------
(* Captures from one state to the next                                     *)

\* What a step may do to the row of a capture that was closed.
StaysClosed(c, d) ==
  c.status # "active" => d.status # "active" /\ (~raced => d.points = c.points)

\* A step that rewrites no row, and deletes some at most, closes nothing and opens nothing.
LEMMA FewRowsChange ==
  ASSUME IInv, captures' \subseteq captures,
         NEW c \in captures, NEW d \in captures', c.id = d.id
  PROVE  StaysClosed(c, d)
BY DEF IInv, Tables, StaysClosed

LEMMA StatusCloses ==
  ASSUME IInv, NEW id, NEW s \in {"applied", "expired"}, SetStatus(id, s),
         NEW c \in captures, NEW d \in captures', c.id = d.id
  PROVE  StaysClosed(c, d)
<1>1. PICK b \in captures : d = IF b.id = id THEN [b EXCEPT !.status = s] ELSE b
  BY DEF SetStatus
<1>2. d.id = b.id /\ d.points = b.points /\ d.status \in {b.status, s}
  BY <1>1 DEF IInv, Tables, IsCapture
<1>3. b = c
  BY <1>2 DEF IInv, Tables
<1> QED BY <1>2, <1>3 DEF StaysClosed

\* The organizer's other handlers delete captures and do not rewrite them.
LEMMA SetupLeavesCaptures ==
  ASSUME NEW w \in Workers, SetupStep(w)
  PROVE  captures' \subseteq captures
<1>1. CASE DeleteEventRows(w)
  BY <1>1 DEF DeleteEventRows, OnlyRead, Unwritten
<1>2. CASE ~DeleteEventRows(w)
  BY <1>2 DEF SetupStep, OnlyRead, Unwritten, CreateFence, FenceEvent, AddFenceEvent,
       AddFenceInsert, UpdateEvent, UpdateEventRead, UpdateEventFences, UpdateEventWrite,
       DeleteFence, DeleteFenceEvent, DeleteFenceRow, DeleteEvent, DeleteEventRead
<1> QED BY <1>1, <1>2

LEMMA CaptureStepCloses ==
  ASSUME IInv, NEW w \in Workers, CaptureStep(w),
         NEW c \in captures, NEW d \in captures', c.id = d.id
  PROVE  StaysClosed(c, d)
<1>1. CASE CreateCaptureExpire(w)
  <2>1. CASE UNCHANGED captures
    BY <2>1, FewRowsChange
  <2>2. CASE captures' = {IF b \in Active(req[w].event) THEN [b EXCEPT !.status = "expired"]
                          ELSE b : b \in captures}
    <3>1. PICK b \in captures :
            d = IF b \in Active(req[w].event) THEN [b EXCEPT !.status = "expired"] ELSE b
      BY <2>2
    <3>2. d.id = b.id /\ d.points = b.points /\ d.status \in {b.status, "expired"}
      BY <3>1 DEF IInv, Tables, IsCapture
    <3>3. b = c
      BY <3>2 DEF IInv, Tables
    <3> QED BY <3>2, <3>3 DEF StaysClosed
  <2> QED BY <1>1, <2>1, <2>2 DEF CreateCaptureExpire
<1>2. CASE CreateCaptureInsert(w)
  <2>1. PICK row : captures' = captures \cup {row} /\ row.id = lastId' /\ lastId' = lastId + 1
    BY <1>2 DEF CreateCaptureInsert, NewId
  <2>2. d \in captures
    BY <2>1 DEF IInv, Tables, IsCapture
  <2>3. d = c
    BY <2>2 DEF IInv, Tables
  <2> QED BY <2>3 DEF StaysClosed
<1>3. CASE GetActiveExpire(w)
  BY <1>3, StatusCloses DEF GetActiveExpire
<1>4. CASE AppendWrite(w)
  <2>1. PICK b \in captures :
          d = IF b.id = req[w].capture THEN [b EXCEPT !.points = Appended(req[w])] ELSE b
    BY <1>4 DEF AppendWrite
  <2>2. d.id = b.id /\ d.status = b.status
    BY <2>1 DEF IInv, Tables, IsCapture
  <2>3. b = c
    BY <2>2 DEF IInv, Tables
  <2>4. ~raced /\ c.id = req[w].capture => c.status = "active"
    BY <1>4, Busy DEF AppendWrite, Knows
  <2> QED BY <2>1, <2>2, <2>3, <2>4 DEF StaysClosed
<1>5. CASE ApplyMark(w)
  BY <1>5, StatusCloses DEF ApplyMark
<1>6. CASE \/ CreateCapture(w) \/ CreateCaptureEvent(w) \/ GetActive(w) \/ GetActiveRead(w)
           \/ AppendPoint(w) \/ AppendRead(w)
           \/ Apply(w) \/ ApplyRead(w) \/ ApplyEvent(w) \/ AddFenceFails(w)
  <2>1. UNCHANGED captures
    BY <1>6 DEF OnlyRead, Unwritten, CreateCapture, CreateCaptureEvent, GetActive,
         GetActiveRead, AppendPoint, AppendRead, Apply, ApplyRead, ApplyEvent, AddFenceFails
  <2> QED BY <2>1, FewRowsChange
<1> QED BY <1>1, <1>2, <1>3, <1>4, <1>5, <1>6 DEF CaptureStep

LEMMA ClosedRowsStayClosed ==
  ASSUME IInv, [Next]_vars, NEW c \in captures, NEW d \in captures', c.id = d.id
  PROVE  StaysClosed(c, d)
<1>1. CASE \E w \in Workers : SetupStep(w)
  BY <1>1, SetupLeavesCaptures, FewRowsChange
<1>2. CASE \E w \in Workers : CaptureStep(w)
  BY <1>2, CaptureStepCloses
<1>3. CASE \/ \E w \in Workers : AbortRequest(w)
           \/ CreateEvent \/ Tick \/ UNCHANGED vars
  <2>1. UNCHANGED captures
    BY <1>3 DEF AbortRequest, OnlyRead, Unwritten, CreateEvent, Tick, vars
  <2> QED BY <2>1, FewRowsChange
<1> QED BY <1>1, <1>2, <1>3 DEF Next

\* Points, expiry and application write the same row without looking at its status:
\* however requests interleave, a capture that was closed never becomes active again.
THEOREM ClosedCapturesStayClosed == Spec => NeverReactivated
<1>1. IInv /\ [Next]_vars =>
        [\A c \in captures, d \in captures' :
           c.id = d.id /\ c.status # "active" => d.status # "active"]_vars
  BY ClosedRowsStayClosed DEF StaysClosed
<1> QED BY <1>1, Invariance, PTL DEF Spec, NeverReactivated

\* A capture that was applied, or replaced by a newer one, collects no more points,
\* as long as requests run one at a time.
THEOREM ClosedCapturesAreFrozen == Spec => ClosedFrozen
<1>1. IInv /\ [Next]_vars =>
        [~raced => \A c \in captures, d \in captures' :
           c.id = d.id /\ c.status # "active" => d.points = c.points]_vars
  BY ClosedRowsStayClosed DEF StaysClosed
<1> QED BY <1>1, Invariance, PTL DEF Spec, ClosedFrozen

-----------------------------------------------------------------------------
(* Types                                                                   *)

Creating == {"create_event", "create_expire", "create_insert"}

\* A capture is created with a shape that it may have.
ShapesFit == \A w \in Workers : pc[w] \in Creating => req[w].shape \in Shapes

TInv == IInv /\ TypeOK /\ ShapesFit

\* Where a statement takes its request.  Points are only read by a request that is
\* about to add one.
Goes(w, l, r) ==
  /\ Step(w, l, r) /\ l \in Labels /\ r \in Request
  /\ l \in Creating => r.shape \in Shapes
  /\ l = "append_write" =>
       UNCHANGED captures /\ \E c \in captures : c.id = r.capture /\ c.points = r.points
  /\ IF Idle(w) THEN Overlap ELSE UNCHANGED raced

LEMMA NoRequestType == NoRequest \in Request
<1>1. <<>> \in Seq(Roles)
  OBVIOUS
<1> QED BY <1>1, SchedulesAreTimes DEF NoRequest, Request, NoCapture, Roles

LEMMA ReplyGoes ==
  ASSUME NEW w \in Workers, ~Idle(w), Reply(w), UNCHANGED raced
  PROVE  Goes(w, "idle", NoRequest)
BY NoRequestType DEF Goes, Reply, Labels, Creating

LEMMA GotoGoes ==
  ASSUME TInv, NEW w \in Workers, ~Idle(w), NEW l \in Labels \ {"append_write"}, Goto(w, l),
         UNCHANGED raced, l \in Creating => pc[w] \in Creating
  PROVE  Goes(w, l, req[w])
<1>1. Step(w, l, req[w])
  BY DEF Goto, Step, TInv, TypeOK
<1> QED BY <1>1 DEF Goes, TInv, TypeOK, ShapesFit

\* The requests that handlers are called with.
LEMMA BeginningsGo ==
  ASSUME TInv, NEW w \in Workers,
         \/ CreateFence(w) \/ UpdateEvent(w) \/ DeleteFence(w) \/ DeleteEvent(w)
         \/ CreateCapture(w) \/ GetActive(w) \/ AppendPoint(w) \/ Apply(w)
  PROVE  \E l, r : Goes(w, l, r)
<1> DEFINE Called(h, l, r) == Begin(w, h, l, r) /\ r \in Request
                            /\ l \in Labels \ {"append_write"} /\ (l \in Creating => r.shape \in Shapes)
<1>0. \A h, l, r : Called(h, l, r) => Goes(w, l, r)
  BY DEF Begin, Start, Goes
<1>1. KnownEvents \subseteq Events
  BY DEF KnownEvents
<1>2. NoRequest \in Request
  BY NoRequestType
<1>3. \A s \in Schedules \cup FenceTimes : s \in Schedule
  BY FenceSetupAssumption
<1>4. CASE CreateFence(w)
  <2>1. PICK e \in KnownEvents, t \in FenceTimes :
          Begin(w, "CreateFence", "fence_event", [NoRequest EXCEPT !.event = e, !.times = t])
    BY <1>4 DEF CreateFence
  <2>2. [NoRequest EXCEPT !.event = e, !.times = t] \in Request
    BY <1>1, <1>2, <1>3 DEF Request
  <2> QED BY <1>0, <2>1, <2>2 DEF Labels, Creating
<1>5. CASE UpdateEvent(w)
  <2>1. PICK e \in KnownEvents, s \in Schedules :
          Begin(w, "UpdateEvent", "update_read", [NoRequest EXCEPT !.event = e, !.times = s])
    BY <1>5 DEF UpdateEvent
  <2>2. [NoRequest EXCEPT !.event = e, !.times = s] \in Request
    BY <1>1, <1>2, <1>3 DEF Request
  <2> QED BY <1>0, <2>1, <2>2 DEF Labels, Creating
<1>6. CASE DeleteFence(w)
  <2>1. PICK f \in fences : Begin(w, "DeleteFence", "delete_fence_event",
                                  [NoRequest EXCEPT !.event = f.event, !.fence = f.id])
    BY <1>6 DEF DeleteFence
  <2>2. f.event \in Events /\ f.id \in Nat
    BY DEF TInv, TypeOK, FenceRow
  <2>3. [NoRequest EXCEPT !.event = f.event, !.fence = f.id] \in Request
    BY <1>2, <2>2 DEF Request
  <2> QED BY <1>0, <2>1, <2>3 DEF Labels, Creating
<1>7. CASE DeleteEvent(w)
  <2>1. PICK e \in KnownEvents :
          Begin(w, "DeleteEvent", "delete_event_read", [NoRequest EXCEPT !.event = e])
    BY <1>7 DEF DeleteEvent
  <2>2. [NoRequest EXCEPT !.event = e] \in Request
    BY <1>1, <1>2 DEF Request
  <2> QED BY <1>0, <2>1, <2>2 DEF Labels, Creating
<1>8. CASE CreateCapture(w)
  <2>1. PICK e \in KnownEvents, s \in Shapes :
          Begin(w, "CreateCapture", "create_event", [NoRequest EXCEPT !.event = e, !.shape = s])
    BY <1>8 DEF CreateCapture
  <2>2. LET r == [NoRequest EXCEPT !.event = e, !.shape = s] IN r \in Request /\ r.shape \in Shapes
    BY <1>1, <1>2, FenceSetupAssumption DEF Request
  <2> QED BY <1>0, <2>1, <2>2 DEF Labels, Creating
<1>9. CASE GetActive(w)
  <2>1. PICK e \in KnownEvents :
          Begin(w, "GetActive", "get_active", [NoRequest EXCEPT !.event = e])
    BY <1>9 DEF GetActive
  <2>2. [NoRequest EXCEPT !.event = e] \in Request
    BY <1>1, <1>2 DEF Request
  <2> QED BY <1>0, <2>1, <2>2 DEF Labels, Creating
<1>10. CASE AppendPoint(w)
  <2>1. PICK id \in 1..lastId, role \in Roles :
          Begin(w, "AppendPoint", "append_read", [NoRequest EXCEPT !.capture = id, !.role = role])
    BY <1>10 DEF AppendPoint
  <2>0. id \in Nat
    BY FenceSetupAssumption DEF TInv, TypeOK
  <2>2. [NoRequest EXCEPT !.capture = id, !.role = role] \in Request
    BY <1>2, <2>0 DEF Request
  <2> QED BY <1>0, <2>1, <2>2 DEF Labels, Creating
<1>11. CASE Apply(w)
  <2>1. PICK c \in captures, t \in FenceTimes :
          Begin(w, "Apply", "apply_read",
                [NoRequest EXCEPT !.event = c.event, !.capture = c.id, !.times = t])
    BY <1>11 DEF Apply
  <2>2. c.event \in Events /\ c.id \in Nat
    BY DEF TInv, TypeOK, CaptureRow
  <2>3. [NoRequest EXCEPT !.event = c.event, !.capture = c.id, !.times = t] \in Request
    BY <1>2, <1>3, <2>2 DEF Request
  <2> QED BY <1>0, <2>1, <2>3 DEF Labels, Creating
<1> QED BY <1>4, <1>5, <1>6, <1>7, <1>8, <1>9, <1>10, <1>11

\* The times of a fence that were resolved are times.
LEMMA ResolvedType ==
  ASSUME TInv, NEW w \in Workers, req[w].event \in events
  PROVE  Resolved(req[w]) \in Request
<1>1. req[w].event \in Events /\ req[w] \in Request
  BY DEF TInv, TypeOK, KnownEvents
<1>2. schedule[req[w].event] \in Schedule /\ req[w].times \in Schedule
  BY <1>1, SchedulesAreTimes DEF TInv, TypeOK, Request
<1>3. InheritSchedule(schedule[req[w].event], req[w].times) \in Schedule
  BY <1>2 DEF InheritSchedule, Schedule
<1> QED BY <1>1, <1>3 DEF Resolved, Request

LEMMA SetupStepGoes ==
  ASSUME TInv, NEW w \in Workers, SetupStep(w)
  PROVE  \E l, r : Goes(w, l, r)
<1>1. CASE CreateFence(w) \/ UpdateEvent(w) \/ DeleteFence(w) \/ DeleteEvent(w)
  BY <1>1, BeginningsGo
<1>2. CASE \/ FenceEvent(w) \/ AddFenceEvent(w) \/ UpdateEventRead(w) \/ UpdateEventFences(w)
           \/ DeleteFenceEvent(w) \/ DeleteEventRead(w)
  <2>1. ~Idle(w) /\ UNCHANGED raced
    BY <1>2 DEF FenceEvent, AddFenceEvent, UpdateEventRead, UpdateEventFences, DeleteFenceEvent,
         DeleteEventRead, Check, At, Idle, OnlyRead
  <2>2. CASE Reply(w)
    BY <2>1, <2>2, ReplyGoes
  <2>3. CASE \E l \in {"add_fence_insert", "apply_mark", "update_fences", "update_write",
                       "delete_fence_row", "delete_event_rows"} : Goto(w, l)
    BY <2>1, <2>3, GotoGoes DEF Labels, Creating
  <2>4. CASE req[w].event \in events /\ Step(w, "add_fence_event", Resolved(req[w]))
    BY <2>1, <2>4, ResolvedType DEF Goes, Labels, Creating
  <2> QED BY <1>2, <2>2, <2>3, <2>4
          DEF FenceEvent, AddFenceEvent, UpdateEventRead, UpdateEventFences, DeleteFenceEvent,
              DeleteEventRead, Check, FenceAdded
<1>3. CASE AddFenceInsert(w) \/ UpdateEventWrite(w) \/ DeleteFenceRow(w) \/ DeleteEventRows(w)
  <2>1. ~Idle(w) /\ UNCHANGED raced
    BY <1>3 DEF AddFenceInsert, UpdateEventWrite, DeleteFenceRow, DeleteEventRows, At, Idle, OnlyRead
  <2>2. Reply(w) \/ Goto(w, "apply_mark")
    BY <1>3 DEF AddFenceInsert, UpdateEventWrite, DeleteFenceRow, DeleteEventRows, FenceAdded
  <2> QED BY <2>1, <2>2, ReplyGoes, GotoGoes DEF Labels, Creating
<1> QED BY <1>1, <1>2, <1>3 DEF SetupStep

LEMMA SnapshotType ==
  ASSUME TInv, NEW w \in Workers, NEW c \in captures
  PROVE  /\ Snapshot(req[w], c) \in Request
         /\ Snapshot(req[w], c).points = c.points /\ Snapshot(req[w], c).capture = req[w].capture
<1>1. req[w] \in Request /\ c.event \in Events /\ c.points \in Seq(Roles)
      /\ c.shape \in {"circle", "polygon"}
  BY FenceSetupAssumption DEF TInv, TypeOK, CaptureRow
<1> QED BY <1>1 DEF Snapshot, Request

LEMMA CaptureStepGoes ==
  ASSUME TInv, NEW w \in Workers, CaptureStep(w)
  PROVE  \E l, r : Goes(w, l, r)
<1>1. CASE CreateCapture(w) \/ GetActive(w) \/ AppendPoint(w) \/ Apply(w)
  BY <1>1, BeginningsGo
<1>2. CASE ~(CreateCapture(w) \/ GetActive(w) \/ AppendPoint(w) \/ Apply(w))
  <2>0. req[w] \in Request
    BY DEF TInv, TypeOK
  <2>1. ~Idle(w) /\ UNCHANGED raced
    BY <1>2 DEF CaptureStep, CreateCaptureEvent, CreateCaptureExpire, CreateCaptureInsert,
         GetActiveRead, GetActiveExpire, AppendRead, AppendWrite, ApplyRead, ApplyEvent,
         AddFenceFails, ApplyMark, At, Idle, OnlyRead, CaptureUnchanged
  <2>2. CASE Reply(w)
    BY <2>1, <2>2, ReplyGoes
  <2>3. CASE (CreateCaptureExpire(w) /\ Goto(w, "create_insert")) \/ Goto(w, "apply_mark")
    BY <2>1, <2>3, GotoGoes DEF Labels, CreateCaptureExpire, At, Creating
  <2>4. CASE CreateCaptureEvent(w) /\ Step(w, "create_expire", [req[w] EXCEPT !.at = now])
    <3>0. now \in Nat
      BY FenceSetupAssumption DEF TInv, TypeOK
    <3>1. req[w].shape \in Shapes
      BY <2>4 DEF CreateCaptureEvent, At, TInv, ShapesFit, Creating
    <3>2. LET r == [req[w] EXCEPT !.at = now] IN r \in Request /\ r.shape = req[w].shape
      BY <2>0, <3>0 DEF Request
    <3> QED BY <2>1, <2>4, <3>1, <3>2 DEF Goes, Labels, Creating
  <2>5. CASE \E c \in captures : Step(w, "get_expire", [req[w] EXCEPT !.capture = c.id])
    <3>1. PICK c \in captures : Step(w, "get_expire", [req[w] EXCEPT !.capture = c.id])
      BY <2>5
    <3>2. [req[w] EXCEPT !.capture = c.id] \in Request
      BY <2>0 DEF TInv, TypeOK, Request, CaptureRow
    <3> QED BY <2>1, <3>1, <3>2 DEF Goes, Labels, Creating
  <2>6. CASE AppendRead(w) /\ ~Reply(w)
    <3>1. PICK c \in captures : /\ c.id = req[w].capture
                                /\ Step(w, "append_write", Snapshot(req[w], c))
      BY <2>6 DEF AppendRead, Accepting
    <3>2. UNCHANGED captures
      BY <2>6 DEF AppendRead, OnlyRead, Unwritten
    <3> QED BY <2>1, <3>1, <3>2, SnapshotType DEF Goes, Labels, Creating
  <2>7. CASE ApplyRead(w) /\ ~Reply(w)
    <3>1. PICK c \in captures : Step(w, "apply_event", Snapshot(req[w], c))
      BY <2>7 DEF ApplyRead
    <3> QED BY <2>1, <3>1, SnapshotType DEF Goes, Labels, Creating
  <2>8. CASE ApplyEvent(w) /\ ~Reply(w)
    <3>1. req[w].event \in events /\ Step(w, "add_fence_event", Resolved(req[w]))
      BY <2>8 DEF ApplyEvent
    <3> QED BY <2>1, <3>1, ResolvedType DEF Goes, Labels, Creating
  <2> QED BY <1>2, <2>2, <2>3, <2>4, <2>5, <2>6, <2>7, <2>8
          DEF CaptureStep, CreateCaptureEvent, CreateCaptureExpire, CreateCaptureInsert,
              GetActiveRead, Active, GetActiveExpire, AppendWrite, AddFenceFails, FenceAdded, ApplyMark
<1> QED BY <1>1, <1>2

LEMMA StepGoes ==
  ASSUME TInv, NEW w \in Workers, SetupStep(w) \/ CaptureStep(w) \/ AbortRequest(w)
  PROVE  \E l, r : Goes(w, l, r)
<1>1. CASE AbortRequest(w)
  BY <1>1, ReplyGoes DEF AbortRequest, OnlyRead
<1> QED BY <1>1, SetupStepGoes, CaptureStepGoes

\* A worker that goes on moves, the others stay.
LEMMA GoesMoves ==
  ASSUME TInv, NEW w \in Workers, NEW l, NEW r, Goes(w, l, r)
  PROVE  /\ pc' \in [Workers -> Labels] /\ req' \in [Workers -> Request]
         /\ \A v \in Workers : /\ pc'[v] = IF v = w THEN l ELSE pc[v]
                               /\ req'[v] = IF v = w THEN r ELSE req[v]
BY DEF TInv, TypeOK, Goes, Step

\* Points that are added are points.
LEMMA AppendedType ==
  ASSUME NEW r \in Request
  PROVE  Appended(r) \in Seq(Roles)
<1>1. r.points \in Seq(Roles) /\ "edge" \in Roles /\ "center" \in Roles
  BY DEF Request, Roles
<1>2. Cardinality(EdgesOf(r.points)) \in Nat
  <2>1. EdgesOf(r.points) \in SUBSET (1..Len(r.points)) /\ Len(r.points) \in Nat
    BY <1>1 DEF EdgesOf
  <2>2. IsFiniteSet(1..Len(r.points))
    BY <2>1, FS_Interval
  <2> QED BY <2>1, <2>2, FS_Subset, FS_CardinalityType
<1>3. [i \in 1..Cardinality(EdgesOf(r.points)) |-> "edge"] \in Seq(Roles)
  BY <1>1, <1>2, IsASeq
<1> QED BY <1>1, <1>3, AppendProperties DEF Appended

\* A captured row keeps its types but for the points.
LEMMA RowsStayTyped ==
  ASSUME TInv, NEW b \in captures, NEW s \in {"active", "applied", "expired"}, NEW ps \in Seq(Roles)
  PROVE  [b EXCEPT !.status = s] \in CaptureRow /\ [b EXCEPT !.points = ps] \in CaptureRow
<1>1. b \in CaptureRow
  BY DEF TInv, TypeOK
<1> QED BY <1>1 DEF CaptureRow

LEMMA CapturesStayTyped ==
  ASSUME TInv, NEW w \in Workers, SetupStep(w) \/ CaptureStep(w) \/ AbortRequest(w)
  PROVE  captures' \subseteq CaptureRow
<1>0. captures \subseteq CaptureRow /\ req[w] \in Request
  BY DEF TInv, TypeOK
<1>1. CASE captures' \subseteq captures
  BY <1>0, <1>1
<1>2. ASSUME NEW id, NEW s \in {"applied", "expired"}, SetStatus(id, s)
      PROVE  captures' \subseteq CaptureRow
  <2>1. \A c \in captures : [c EXCEPT !.status = s] \in CaptureRow
    BY <1>2, RowsStayTyped, EmptySeq
  <2> QED BY <1>0, <1>2, <2>1 DEF SetStatus
<1>3. CASE captures' = {IF c \in Active(req[w].event) THEN [c EXCEPT !.status = "expired"] ELSE c :
                          c \in captures}
  <2>1. \A c \in captures : [c EXCEPT !.status = "expired"] \in CaptureRow
    BY RowsStayTyped, EmptySeq
  <2> QED BY <1>0, <1>3, <2>1
<1>4. CASE CreateCaptureInsert(w)
  <2>1. PICK row : /\ captures' = captures \cup {row}
                   /\ row = [id |-> lastId', event |-> req[w].event, shape |-> req[w].shape,
                             status |-> "active", points |-> <<>>,
                             expires |-> req[w].at + fenceCaptureTTL]
    BY <1>4 DEF CreateCaptureInsert
  <2>2. lastId' \in Nat
    BY <1>4, FenceSetupAssumption DEF CreateCaptureInsert, NewId, TInv, TypeOK
  <2>3. req[w].event \in Events
    BY <1>4, Busy DEF CreateCaptureInsert, Knows, KnownEvents, TInv
  <2>4. req[w].shape \in Shapes
    BY <1>4 DEF CreateCaptureInsert, At, TInv, ShapesFit, Creating
  <2>5. req[w].at + fenceCaptureTTL \in Nat
    BY <1>0, FenceCaptureAssumption DEF Request
  <2>6. row \in CaptureRow
    BY <2>1, <2>2, <2>3, <2>4, <2>5, EmptySeq DEF CaptureRow
  <2> QED BY <1>0, <2>1, <2>6
<1>5. CASE AppendWrite(w)
  BY <1>0, <1>5, AppendedType, RowsStayTyped DEF AppendWrite
<1>6. CASE CaptureStep(w)
  <2>1. CASE CreateCaptureExpire(w)
    BY <1>1, <1>3, <2>1 DEF CreateCaptureExpire
  <2>2. CASE GetActiveExpire(w) \/ ApplyMark(w)
    BY <1>2, <2>2 DEF GetActiveExpire, ApplyMark
  <2>3. CASE \/ CreateCapture(w) \/ CreateCaptureEvent(w) \/ GetActive(w) \/ GetActiveRead(w)
             \/ AppendPoint(w) \/ AppendRead(w)
             \/ Apply(w) \/ ApplyRead(w) \/ ApplyEvent(w) \/ AddFenceFails(w)
    BY <1>1, <2>3 DEF OnlyRead, Unwritten, CreateCapture, CreateCaptureEvent, GetActive,
         GetActiveRead, AppendPoint, AppendRead, Apply, ApplyRead, ApplyEvent, AddFenceFails
  <2> QED BY <1>4, <1>5, <1>6, <2>1, <2>2, <2>3 DEF CaptureStep
<1>7. CASE SetupStep(w) \/ AbortRequest(w)
  BY <1>1, <1>7, SetupLeavesCaptures DEF AbortRequest, OnlyRead, Unwritten
<1> QED BY <1>6, <1>7

\* Ids are given out up to the bound, and no row has one that was not.
LEMMA RowIds ==
  ASSUME TInv, [Next]_vars
  PROVE  /\ lastId' \in 0..MaxId
         /\ \A row \in (fences \cup captures)' : row.id \in 1..lastId'
<1>0. lastId \in 0..MaxId /\ MaxId \in Nat
  BY FenceSetupAssumption DEF TInv, TypeOK
<1>1. lastId' = lastId \/ (lastId' = lastId + 1 /\ lastId < MaxId)
  <2>1. CASE \E w \in Workers : SetupStep(w)
    BY <2>1 DEF SetupStep, OnlyRead, Unwritten, CreateFence, FenceEvent, AddFenceEvent,
         AddFenceInsert, NewId, UpdateEvent, UpdateEventRead, UpdateEventFences, UpdateEventWrite,
         DeleteFence, DeleteFenceEvent, DeleteFenceRow, DeleteEvent, DeleteEventRead, DeleteEventRows
  <2>2. CASE \E w \in Workers : CaptureStep(w)
    BY <2>2 DEF CaptureStep, OnlyRead, Unwritten, CreateCapture, CreateCaptureEvent,
         CreateCaptureExpire, CreateCaptureInsert, NewId, GetActive, GetActiveRead,
         GetActiveExpire, AppendPoint, AppendRead, AppendWrite, Apply, ApplyRead, ApplyEvent,
         AddFenceFails, ApplyMark
  <2>3. CASE \/ \E w \in Workers : AbortRequest(w)
             \/ CreateEvent \/ Tick \/ UNCHANGED vars
    BY <2>3 DEF AbortRequest, OnlyRead, Unwritten, CreateEvent, Tick, vars
  <2> QED BY <2>1, <2>2, <2>3 DEF Next
<1>2. lastId' \in 0..MaxId
  BY <1>0, <1>1
<1>3. \A c \in captures' : c.id \in 1..lastId'
  BY NextKeeps DEF TInv, IInv, Tables, IsCapture
<1>4. \A f \in fences' : f \in fences \/ (f.id = lastId' /\ lastId' = lastId + 1)
  <2>1. CASE \E w \in Workers : SetupStep(w)
    <3>1. CASE \E w \in Workers : AddFenceInsert(w)
      BY <3>1 DEF AddFenceInsert, NewId
    <3>2. CASE \E w \in Workers : SetupStep(w) /\ ~AddFenceInsert(w)
      BY <3>2 DEF SetupStep, OnlyRead, Unwritten, CreateFence, FenceEvent, AddFenceEvent,
           UpdateEvent, UpdateEventRead, UpdateEventFences, UpdateEventWrite, DeleteFence,
           DeleteFenceEvent, DeleteFenceRow, DeleteEvent, DeleteEventRead, DeleteEventRows
    <3> QED BY <2>1, <3>1, <3>2
  <2>2. CASE \E w \in Workers : CaptureStep(w)
    BY <2>2 DEF CaptureStep, OnlyRead, Unwritten, CaptureUnchanged, CreateCapture,
         CreateCaptureEvent, CreateCaptureExpire, CreateCaptureInsert, GetActive, GetActiveRead,
         GetActiveExpire, AppendPoint, AppendRead, AppendWrite, Apply, ApplyRead, ApplyEvent,
         AddFenceFails, ApplyMark
  <2>3. CASE \/ \E w \in Workers : AbortRequest(w)
             \/ CreateEvent \/ Tick \/ UNCHANGED vars
    BY <2>3 DEF AbortRequest, OnlyRead, Unwritten, CreateEvent, Tick, vars
  <2> QED BY <2>1, <2>2, <2>3 DEF Next
<1>5. \A f \in fences : f.id \in 1..lastId
  BY DEF TInv, TypeOK
<1>6. \A f \in fences' : f.id \in 1..lastId'
  BY <1>0, <1>1, <1>4, <1>5
<1> QED BY <1>2, <1>3, <1>6

LEMMA NextKeepsTypes ==
  ASSUME TInv, [Next]_vars
  PROVE  TInv'
<1>1. IInv'
  BY NextKeeps DEF TInv
<1>2. now' \in 1..MaxTime
  <2>1. now' = now \/ (now' = now + 1 /\ now < MaxTime)
    <3>1. CASE \E w \in Workers : SetupStep(w)
      BY <3>1 DEF SetupStep, OnlyRead, Unwritten, CreateFence, FenceEvent, AddFenceEvent,
           AddFenceInsert, UpdateEvent, UpdateEventRead, UpdateEventFences, UpdateEventWrite,
           DeleteFence, DeleteFenceEvent, DeleteFenceRow, DeleteEvent, DeleteEventRead,
           DeleteEventRows
    <3>2. CASE \E w \in Workers : CaptureStep(w)
      BY <3>2 DEF CaptureStep, OnlyRead, Unwritten, CaptureUnchanged, CreateCapture,
           CreateCaptureEvent, CreateCaptureExpire, CreateCaptureInsert, GetActive, GetActiveRead,
           GetActiveExpire, AppendPoint, AppendRead, AppendWrite, Apply, ApplyRead, ApplyEvent,
           AddFenceFails, ApplyMark
    <3>3. CASE \/ \E w \in Workers : AbortRequest(w)
               \/ CreateEvent \/ Tick \/ UNCHANGED vars
      BY <3>3 DEF AbortRequest, OnlyRead, Unwritten, CreateEvent, Tick, vars
    <3> QED BY <3>1, <3>2, <3>3 DEF Next
  <2> QED BY <2>1, FenceSetupAssumption DEF TInv, TypeOK
<1>3. ASSUME NEW w \in Workers, SetupStep(w) \/ CaptureStep(w) \/ AbortRequest(w)
      PROVE  /\ pc' \in [Workers -> Labels] /\ req' \in [Workers -> Request]
             /\ \A v \in Workers : pc'[v] \in Creating => req'[v].shape \in Shapes
             /\ captures' \subseteq CaptureRow
  <2>1. PICK l, r : Goes(w, l, r)
    BY <1>3, StepGoes
  <2>2. \A v \in Workers : pc'[v] \in Creating => req'[v].shape \in Shapes
    BY <2>1, GoesMoves DEF Goes, TInv, ShapesFit
  <2> QED BY <1>3, <2>1, <2>2, GoesMoves, CapturesStayTyped
<1>5. /\ pc' \in [Workers -> Labels] /\ req' \in [Workers -> Request]
      /\ \A v \in Workers : pc'[v] \in Creating => req'[v].shape \in Shapes
      /\ captures' \subseteq CaptureRow
  <2>1. CASE \E w \in Workers : SetupStep(w) \/ CaptureStep(w) \/ AbortRequest(w)
    BY <1>3, <2>1
  <2>2. CASE CreateEvent \/ Tick \/ UNCHANGED vars
    BY <2>2 DEF CreateEvent, Tick, vars, workers, TInv, TypeOK, ShapesFit
  <2> QED BY <2>1, <2>2 DEF Next
<1>6. ShapesFit'
  BY <1>5 DEF ShapesFit, Creating
<1>7. TypeOK'
  BY <1>1, <1>2, <1>5, RowIds DEF TypeOK, IInv, Tables, Request, CaptureRow
<1> QED BY <1>1, <1>6, <1>7 DEF TInv

LEMMA InitTypes == ASSUME Init PROVE TInv
<1>1. TypeOK
  <2>1. now \in 1..MaxTime /\ lastId \in 0..MaxId /\ raced \in BOOLEAN
    <3>1. MaxTime \in Nat \ {0} /\ MaxId \in Nat
      BY FenceSetupAssumption
    <3>2. now = 1 /\ lastId = 0 /\ raced \in BOOLEAN
      BY DEF Init
    <3> QED BY <3>1, <3>2
  <2>2. events \subseteq KnownEvents /\ schedule \in [Events -> Schedules \cup {NoTimes}]
    BY DEF Init
  <2>3. pc \in [Workers -> Labels] /\ req \in [Workers -> Request]
    BY NoRequestType DEF Init, Labels
  <2>4. fences = {} /\ captures = {}
    BY DEF Init
  <2> QED BY <2>1, <2>2, <2>3, <2>4 DEF TypeOK
<1>2. ShapesFit
  BY DEF Init, ShapesFit, Creating
<1> QED BY <1>1, <1>2, InitHolds DEF TInv

-----------------------------------------------------------------------------
(* Points                                                                  *)

OneCenter(points) ==
  \A i, j \in DOMAIN points : points[i] = "center" /\ points[j] = "center" => i = j

\* What is about to be added to has one center as well; while requests run one at a time, it
\* is what the capture has.
PointsKnown ==
  /\ \A c \in captures : OneCenter(c.points)
  /\ \A w \in Workers : pc[w] = "append_write" =>
       /\ OneCenter(req[w].points)
       /\ ~raced => \A c \in captures : c.id = req[w].capture => c.points = req[w].points

PInv == TInv /\ PointsKnown

LEMMA EdgesCount ==
  ASSUME NEW s \in Seq(Roles)
  PROVE  IsFiniteSet(EdgesOf(s)) /\ Cardinality(EdgesOf(s)) \in Nat
<1>1. EdgesOf(s) \in SUBSET (1..Len(s)) /\ Len(s) \in Nat
  BY DEF EdgesOf
<1>2. IsFiniteSet(1..Len(s))
  BY <1>1, FS_Interval
<1> QED BY <1>1, <1>2, FS_Subset, FS_CardinalityType

\* Adding a point keeps the others but for a center, which only another one replaces.
LEMMA AppendKeepsPoints ==
  ASSUME NEW r \in Request, OneCenter(r.points)
  PROVE  LET t == Appended(r)
         IN  /\ OneCenter(t)
             /\ Cardinality(EdgesOf(r.points)) <= Cardinality(EdgesOf(t))
             /\ "center" \in {r.points[i] : i \in DOMAIN r.points} =>
                  "center" \in {t[i] : i \in DOMAIN t}
<1> DEFINE t == Appended(r)
           n == Cardinality(EdgesOf(r.points))
           edges == [i \in 1..n |-> "edge"]
<1>1. r.points \in Seq(Roles) /\ n \in Nat /\ IsFiniteSet(EdgesOf(r.points))
  BY EdgesCount DEF Request
<1>2. CASE r.shape = "circle" /\ r.role = "center"
  <2>1. edges \in Seq(Roles) /\ Len(edges) = n
    BY <1>1, IsASeq DEF Roles
  <2>2. t = Append(edges, "center")
    BY <1>2 DEF Appended
  <2>3. /\ DOMAIN t = 1..(n + 1) /\ t[n + 1] = "center"
        /\ \A i \in 1..n : t[i] = "edge"
    BY <1>1, <2>1, <2>2
  <2> HIDE DEF t, n
  <2>4. EdgesOf(t) = 1..n
    BY <1>1, <2>3 DEF EdgesOf, IsEdge
  <2>5. Cardinality(EdgesOf(t)) = n
    BY <1>1, <2>4, FS_Interval
  <2>6. OneCenter(t)
    BY <1>1, <2>3 DEF OneCenter
  <2> QED BY <1>1, <2>3, <2>5, <2>6 DEF t, n
<1>3. CASE ~(r.shape = "circle" /\ r.role = "center")
  <2>1. t = Append(r.points, "edge") /\ Len(r.points) \in Nat /\ DOMAIN r.points = 1..Len(r.points)
    BY <1>1, <1>3 DEF Appended
  <2>2. /\ DOMAIN t = 1..(Len(r.points) + 1) /\ t[Len(r.points) + 1] = "edge"
        /\ \A i \in DOMAIN r.points : t[i] = r.points[i]
    BY <1>1, <2>1
  <2> HIDE DEF t, n
  <2>3. EdgesOf(t) = EdgesOf(r.points) \cup {Len(r.points) + 1}
    BY <2>1, <2>2 DEF EdgesOf, IsEdge
  <2>4. Cardinality(EdgesOf(t)) = IF Len(r.points) + 1 \in EdgesOf(r.points) THEN n ELSE n + 1
    BY <1>1, <2>3, FS_AddElement DEF n
  <2>5. OneCenter(t)
    BY <2>1, <2>2 DEF OneCenter
  <2>6. "center" \in {r.points[i] : i \in DOMAIN r.points} => "center" \in {t[i] : i \in DOMAIN t}
    BY <2>1, <2>2
  <2> QED BY <1>1, <2>4, <2>5, <2>6 DEF t, n
<1> QED BY <1>2, <1>3

\* Where the row of a capture comes from.
LEMMA RowsComeFrom ==
  ASSUME TInv, NEW w \in Workers, SetupStep(w) \/ CaptureStep(w) \/ AbortRequest(w),
         NEW d \in captures'
  PROVE  \/ \E b \in captures : d.id = b.id /\ d.points = b.points
         \/ d.points = <<>> /\ d.id \notin {c.id : c \in captures}
         \/ /\ AppendWrite(w) /\ d.points = Appended(req[w])
            /\ \E b \in captures : d.id = b.id /\ b.id = req[w].capture
<1>0. \A b \in captures : b \in CaptureRow
  BY DEF TInv, TypeOK
<1>1. CASE d \in captures
  BY <1>1
<1>2. ASSUME NEW id, NEW s, SetStatus(id, s)
      PROVE  \E b \in captures : d.id = b.id /\ d.points = b.points
  <2>1. PICK b \in captures : d = IF b.id = id THEN [b EXCEPT !.status = s] ELSE b
    BY <1>2 DEF SetStatus
  <2> QED BY <1>0, <2>1 DEF CaptureRow
<1>3. CASE captures' = {IF c \in Active(req[w].event) THEN [c EXCEPT !.status = "expired"] ELSE c :
                          c \in captures}
  <2>1. PICK b \in captures :
          d = IF b \in Active(req[w].event) THEN [b EXCEPT !.status = "expired"] ELSE b
    BY <1>3
  <2> QED BY <1>0, <2>1 DEF CaptureRow
<1>4. CASE CreateCaptureInsert(w)
  <2>1. PICK row : captures' = captures \cup {row} /\ row.id = lastId + 1 /\ row.points = <<>>
    <3>1. PICK row : /\ row = [id |-> lastId', event |-> req[w].event, shape |-> req[w].shape,
                               status |-> "active", points |-> <<>>,
                               expires |-> req[w].at + fenceCaptureTTL]
                     /\ captures' = captures \cup {row}
      BY <1>4 DEF CreateCaptureInsert
    <3>2. row.id = lastId + 1 /\ row.points = <<>>
      BY <1>4, <3>1 DEF CreateCaptureInsert, NewId
    <3> QED BY <3>1, <3>2
  <2>2. \A c \in captures : c.id \in 1..lastId /\ lastId \in Nat
    BY DEF TInv, IInv, Tables, IsCapture
  <2>3. lastId + 1 \notin {c.id : c \in captures}
    BY <2>2
  <2> QED BY <1>1, <2>1, <2>3
<1>5. CASE AppendWrite(w)
  <2>1. PICK b \in captures :
          d = IF b.id = req[w].capture THEN [b EXCEPT !.points = Appended(req[w])] ELSE b
    BY <1>5 DEF AppendWrite
  <2> QED BY <1>0, <1>5, <2>1 DEF CaptureRow
<1>6. CASE CaptureStep(w)
  <2>1. CASE CreateCaptureExpire(w)
    BY <1>1, <1>3, <2>1 DEF CreateCaptureExpire
  <2>2. CASE GetActiveExpire(w) \/ ApplyMark(w)
    BY <1>2, <2>2 DEF GetActiveExpire, ApplyMark
  <2>3. CASE \/ CreateCapture(w) \/ CreateCaptureEvent(w) \/ GetActive(w) \/ GetActiveRead(w)
             \/ AppendPoint(w) \/ AppendRead(w)
             \/ Apply(w) \/ ApplyRead(w) \/ ApplyEvent(w) \/ AddFenceFails(w)
    BY <1>1, <2>3 DEF OnlyRead, Unwritten, CreateCapture, CreateCaptureEvent, GetActive,
         GetActiveRead, AppendPoint, AppendRead, Apply, ApplyRead, ApplyEvent, AddFenceFails
  <2> QED BY <1>4, <1>5, <1>6, <2>1, <2>2, <2>3 DEF CaptureStep
<1>7. CASE SetupStep(w) \/ AbortRequest(w)
  BY <1>1, <1>7, SetupLeavesCaptures DEF AbortRequest, OnlyRead, Unwritten
<1> QED BY <1>6, <1>7

LEMMA NextKeepsPoints ==
  ASSUME PInv, [Next]_vars
  PROVE  PointsKnown'
<1>1. ASSUME NEW w \in Workers, SetupStep(w) \/ CaptureStep(w) \/ AbortRequest(w)
      PROVE  PointsKnown'
  <2>1. PICK l, r : Goes(w, l, r)
    BY <1>1, StepGoes DEF PInv
  <2>2. \A v \in Workers : /\ pc'[v] = IF v = w THEN l ELSE pc[v]
                           /\ req'[v] = IF v = w THEN r ELSE req[v]
    BY <2>1, GoesMoves DEF PInv
  <2>3. ASSUME NEW d \in captures' PROVE OneCenter(d.points)
    <3>1. CASE \E b \in captures : d.id = b.id /\ d.points = b.points
      BY <3>1 DEF PInv, PointsKnown
    <3>2. CASE d.points = <<>>
      BY <3>2 DEF OneCenter
    <3>3. CASE AppendWrite(w) /\ d.points = Appended(req[w])
      <4>1. OneCenter(req[w].points) /\ req[w] \in Request
        BY <3>3 DEF AppendWrite, At, PInv, PointsKnown, TInv, TypeOK
      <4> QED BY <3>3, <4>1, AppendKeepsPoints
    <3> QED BY <1>1, <3>1, <3>2, <3>3, RowsComeFrom DEF PInv
  <2>4. ASSUME NEW v \in Workers, pc'[v] = "append_write"
        PROVE  /\ OneCenter(req'[v].points)
               /\ ~raced' => \A c \in captures' : c.id = req'[v].capture => c.points = req'[v].points
    <3>1. CASE v = w
      <4>1. UNCHANGED captures /\ \E c \in captures : c.id = r.capture /\ c.points = r.points
        BY <2>1, <2>2, <2>4, <3>1 DEF Goes
      <4>2. \A c, d \in captures : c.id = d.id => c = d
        BY DEF PInv, TInv, IInv, Tables
      <4> QED BY <2>2, <3>1, <4>1, <4>2 DEF PInv, PointsKnown
    <3>2. CASE v # w
      <4>1. pc[v] = "append_write" /\ req'[v] = req[v]
        BY <2>2, <2>4, <3>2
      <4>2. raced'
        BY <2>1, <3>2, <4>1 DEF Goes, Overlap, Idle, PInv, TInv, IInv, Alone
      <4> QED BY <4>1, <4>2 DEF PInv, PointsKnown
    <3> QED BY <3>1, <3>2
  <2> QED BY <2>3, <2>4 DEF PointsKnown, OneCenter
<1>2. CASE CreateEvent \/ Tick \/ UNCHANGED vars
  <2>0. raced \in BOOLEAN
    BY DEF PInv, TInv, TypeOK
  <2>1. pc' = pc /\ req' = req /\ captures' = captures /\ (raced => raced')
    <3>1. CASE CreateEvent
      BY <2>0, <3>1 DEF CreateEvent, Overlap, workers
    <3>2. CASE Tick \/ UNCHANGED vars
      BY <3>2 DEF Tick, vars, workers
    <3> QED BY <1>2, <3>1, <3>2
  <2> QED BY <2>1 DEF PInv, PointsKnown, OneCenter
<1> QED BY <1>1, <1>2 DEF Next

LEMMA PointsInvariance == Spec => []PInv
<1>1. Init => PInv
  BY InitTypes DEF Init, PInv, PointsKnown
<1>2. PInv /\ [Next]_vars => PInv'
  BY NextKeepsTypes, NextKeepsPoints DEF PInv
<1> QED BY <1>1, <1>2, PTL DEF Spec

\* The types of the tables and the requests, for any bounds.
THEOREM TypeInvariant == Spec => []TypeOK
<1>1. PInv => TypeOK
  BY DEF PInv, TInv
<1> QED BY <1>1, PointsInvariance, PTL

\* However the points of several phones overwrite each other, a capture has one center
\* at most.
THEOREM CapturesHaveOneCenter == Spec => []AtMostOneCenter
<1>1. PInv => AtMostOneCenter
  BY DEF PInv, PointsKnown, OneCenter, AtMostOneCenter
<1> QED BY <1>1, PointsInvariance, PTL

\* What a step leaves of the points of a capture, unless requests race.
LEMMA PointsAreKept ==
  ASSUME PInv, [Next]_vars, ~raced, NEW c \in captures, NEW d \in captures', c.id = d.id
  PROVE  /\ Cardinality(EdgesOf(c.points)) <= Cardinality(EdgesOf(d.points))
         /\ "center" \in {c.points[i] : i \in DOMAIN c.points} =>
              "center" \in {d.points[i] : i \in DOMAIN d.points}
<1>0. \A b \in captures : b.id = c.id => b = c
  BY DEF PInv, TInv, IInv, Tables
<1>1. CASE d.points = c.points
  <2>1. Cardinality(EdgesOf(c.points)) \in Nat
    BY EdgesCount DEF PInv, TInv, TypeOK, CaptureRow
  <2> QED BY <1>1, <2>1
<1>2. ASSUME NEW w \in Workers, SetupStep(w) \/ CaptureStep(w) \/ AbortRequest(w), d.points # c.points
      PROVE  AppendWrite(w) /\ d.points = Appended(req[w]) /\ c.id = req[w].capture
  BY <1>0, <1>2, RowsComeFrom DEF PInv
<1>3. ASSUME NEW w \in Workers, AppendWrite(w), d.points = Appended(req[w]), c.id = req[w].capture
      PROVE  /\ Cardinality(EdgesOf(c.points)) <= Cardinality(EdgesOf(d.points))
             /\ "center" \in {c.points[i] : i \in DOMAIN c.points} =>
                  "center" \in {d.points[i] : i \in DOMAIN d.points}
  <2>1. OneCenter(req[w].points) /\ c.points = req[w].points /\ req[w] \in Request
    BY <1>3 DEF AppendWrite, At, PInv, PointsKnown, TInv, TypeOK
  <2> QED BY <1>3, <2>1, AppendKeepsPoints
<1>4. CASE CreateEvent \/ Tick \/ UNCHANGED vars
  BY <1>0, <1>1, <1>4 DEF CreateEvent, Tick, vars
<1> QED BY <1>1, <1>2, <1>3, <1>4 DEF Next

\* As long as requests run one at a time, what a phone was told was accepted stays: only a
\* center is replaced, by another one.
LEMMA AcceptedPointsAreKept == Spec => AcceptedPointsKept
<1>1. PInv /\ [Next]_vars =>
        [~raced => \A c \in captures, d \in captures' : c.id = d.id =>
           /\ Cardinality(EdgesOf(c.points)) <= Cardinality(EdgesOf(d.points))
           /\ "center" \in {c.points[i] : i \in DOMAIN c.points} =>
                "center" \in {d.points[i] : i \in DOMAIN d.points}]_vars
  BY PointsAreKept
<1> QED BY <1>1, PointsInvariance, PTL DEF Spec, AcceptedPointsKept

\* A behaviour of the composition is one of EventSetup, which stands still while the
\* behaviour is about the geometry.
LEMMA PartsRun == PartsSpec => Spec
<1>1. PartsInit => Init
  BY DEF PartsInit
<1>2. [PartsNext]_<<part, vars, gVars>> => [Next]_vars
  BY DEF PartsNext
<1> QED BY <1>1, <1>2, PTL DEF PartsSpec, Spec

\* As long as requests run one at a time, a point that was accepted stays in its capture,
\* and a closed capture takes no more, whatever the points and however many.
THEOREM AcceptedPointsAreFinal == PartsSpec => AcceptedPointsStay
BY PartsRun, AcceptedPointsAreKept, ClosedCapturesAreFrozen DEF AcceptedPointsStay

-----------------------------------------------------------------------------
(* Where fences are: what GeometryProofs proves, of the part about it.     *)

LEMMA PlaneRuns == PartsSpec => Plane!Spec
<1>1. PartsInit => Plane!Init
  BY DEF PartsInit
<1>2. [PartsNext]_<<part, vars, gVars>> => [Plane!Next]_(Plane!vars)
  BY DEF PartsNext, gVars, Plane!vars
<1> QED BY <1>1, <1>2, PTL DEF PartsSpec, Plane!Spec

\* Wherever points are captured and whatever is reported, every way to draw a fence has
\* the same inside, and a circle reaches no farther than its samples; and whatever is
\* stored keeps its types.
THEOREM ShapesHold == PartsSpec => []ShapesAreSound
<1>1. Spec => []TypeOK
  BY TypeInvariant
<1>2. Plane!Spec => /\ []Plane!TypeOK /\ []Plane!RayFindsInside /\ []Plane!PartsAddUp
                    /\ []Plane!ClosingChangesNothing /\ []Plane!CircleWithinSamples
  BY PartsAssumption, Plane!FencesAreSound
<1> QED BY <1>1, <1>2, PartsRun, PlaneRuns, PTL DEF ShapesAreSound

\* An accepted report was made near the fence, and a more forgiving tolerance accepts
\* whatever a stricter one does.
THEOREM ReportsHold == PartsSpec => []ReportsAreSound
<1>1. Plane!Spec => []Plane!AcceptedIsNear /\ []Plane!LaxerAcceptsMore
  BY PartsAssumption, Plane!AcceptedReportsAreNear
<1> QED BY <1>1, PlaneRuns, PTL DEF ReportsAreSound
===============================================================================
