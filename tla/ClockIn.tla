------------------------------- MODULE ClockIn --------------------------------
(***************************************************************************)
(* Clocking in and out, marking present, and the trimming of old history.  *)
(* The location report is taken to be inside the fence and accurate, and   *)
(* the clock-in token to be the current one: requests that fail those      *)
(* tests are refused before any statement that changes a table.            *)
(***************************************************************************)
EXTENDS AttendanceTables

ClockInUnchanged == UNCHANGED <<now, eventTables, memberTables, alerts, job>>

-----------------------------------------------------------------------------
(* POST /v1/me/activity-history/clock-in: a series of reads, each of      *)
(* which may refuse the request, then one transaction.                     *)

ClockInRequests ==
  {r \in [user : users, event : Events \cup {Nil}, fence : Fences \cup {Nil}, source : Sources] :
     r.source = "qr_scan" => r.event # Nil}

RecordClockInHandler(w) ==
  /\ \E r \in ClockInRequests :
        Begin(w, "ClockIn",
              CASE r.event = Nil        -> "clock_in_stamp"
                [] r.source = "qr_scan" -> "gate_qr"
                [] OTHER                -> "gate_joined",
              [NoRequest EXCEPT !.user = r.user, !.event = r.event,
                                !.fence = r.fence, !.source = r.source])
  /\ UNCHANGED rowTables /\ ClockInUnchanged

GateQR(w) ==
  /\ Check(w, "gate_qr", req[w].event \in events \cap scan, "gate_joined")
  /\ UNCHANGED rowTables /\ ClockInUnchanged

GateJoined(w) ==
  /\ Check(w, "gate_joined", Joined(req[w].event, req[w].user), "gate_scan")
  /\ UNCHANGED rowTables /\ ClockInUnchanged

GateScan(w) ==
  /\ Check(w, "gate_scan",
           /\ req[w].event \in events
           /\ req[w].event \in scan => req[w].source = "qr_scan",
           "gate_template")
  /\ UNCHANGED rowTables /\ ClockInUnchanged

\* Mutation: the template is not asked whether it needs a consent.
GateTemplateSkipped(w) ==
  /\ At(w, "gate_template")
  /\ Goto(w, "gate_fence")
  /\ UNCHANGED rowTables /\ ClockInUnchanged

GateTemplate(w) ==
  /\ At(w, "gate_template")
  /\ Goto(w, IF NeedsConsent(req[w].event) THEN "gate_consent" ELSE "gate_fence")
  /\ UNCHANGED rowTables /\ ClockInUnchanged

GateConsent(w) ==
  /\ Check(w, "gate_consent", HasConsent(req[w].event, req[w].user), "gate_fence")
  /\ UNCHANGED rowTables /\ ClockInUnchanged

\* A manual clock-in, or one without a fence, is not checked against a fence.
GateFence(w) ==
  /\ Check(w, "gate_fence",
           \/ req[w].source = "manual"
           \/ req[w].fence = Nil
           \/ [event |-> req[w].event, fence |-> req[w].fence] \in fences,
           "clock_in_stamp")
  /\ UNCHANGED rowTables /\ ClockInUnchanged

\* RecordClockIn reads the clock before it opens its transaction.
ClockInStamp(w) ==
  /\ At(w, "clock_in_stamp")
  /\ Step(w, "clock_in_insert", [req[w] EXCEPT !.at = now])
  /\ UNCHANGED rowTables /\ ClockInUnchanged

\* The session and, for an event, the attendance row; both ids come from the
\* same stamp.
ClockInInsert(w) ==
  LET r == req[w]
  IN  /\ At(w, "clock_in_insert")
      /\ NewId
      /\ sessions' = sessions \cup
           {[id |-> lastId', user |-> r.user, event |-> r.event, fence |-> r.fence,
             source |-> r.source, in |-> r.at, out |-> Open]}
      /\ attendance' = IF r.event = Nil THEN attendance ELSE attendance \cup
           {[id |-> lastId', event |-> r.event, user |-> r.user, via |-> "clock_in", at |-> r.at]}
      /\ Reply(w)
      /\ ClockInUnchanged

-----------------------------------------------------------------------------
(* POST /v1/me/activity-history/clock-out, by session id or by event and  *)
(* fence.  The clock is read first.                                        *)

RecordClockOutHandler(w) ==
  /\ \E u \in users :
        \/ \E id \in 1..lastId :
              Begin(w, "ClockOut", "clock_out_select",
                    [NoRequest EXCEPT !.user = u, !.session = id, !.at = now])
        \/ \E e \in Events, f \in Fences :
              Begin(w, "ClockOut", "clock_out_select",
                    [NoRequest EXCEPT !.user = u, !.event = e, !.fence = f, !.at = now])
  /\ UNCHANGED rowTables /\ ClockInUnchanged

\* Mutation: closed sessions are found as well.
OpenOrClosedSessions(r) ==
  {s \in sessions :
     /\ s.user = r.user
     /\ IF r.session # 0 THEN s.id = r.session
        ELSE s.event = r.event /\ s.fence = r.fence}

OpenSessions(r) ==
  {s \in sessions :
     /\ s.user = r.user
     /\ s.out = Open
     /\ IF r.session # 0 THEN s.id = r.session
        ELSE s.event = r.event /\ s.fence = r.fence}

\* The open session with the latest clock-in.
ClockOutSelect(w) ==
  /\ At(w, "clock_out_select")
  /\ \/ /\ OpenSessions(req[w]) = {}
        /\ Reply(w)
     \/ \E s \in OpenSessions(req[w]) :
          /\ \A t \in OpenSessions(req[w]) : t.in <= s.in
          /\ Step(w, "clock_out_save", [req[w] EXCEPT !.row = s])
  /\ UNCHANGED rowTables /\ ClockInUnchanged

\* Mutation: the row is saved as it was read.
ClockOutSaveAsRead(w) ==
  /\ At(w, "clock_out_save")
  /\ sessions' = SaveSession(req[w].row)
  /\ Reply(w)
  /\ UNCHANGED <<attendance, lastId>> /\ ClockInUnchanged

ClockOutSave(w) ==
  /\ At(w, "clock_out_save")
  /\ sessions' = SaveSession([req[w].row EXCEPT !.out = req[w].at])
  /\ Reply(w)
  /\ UNCHANGED <<attendance, lastId>> /\ ClockInUnchanged

-----------------------------------------------------------------------------
(* POST /v1/events/{id}/attendance/mark-present: whether the user joined    *)
(* is not asked.                                                           *)

MarkPresent(w) ==
  /\ \E u \in users, e \in Events :
        Begin(w, "MarkPresent", "mark_event", [NoRequest EXCEPT !.user = u, !.event = e])
  /\ UNCHANGED rowTables /\ ClockInUnchanged

MarkEvent(w) ==
  /\ Check(w, "mark_event", req[w].event \in events, "mark_lookup")
  /\ UNCHANGED rowTables /\ ClockInUnchanged

\* Mutation: the rows that clock-ins wrote do not count.
MarkLookupOwnRows(w) ==
  /\ At(w, "mark_lookup")
  /\ IF \E a \in attendance : /\ a.event = req[w].event /\ a.user = req[w].user
                               /\ a.via = "mark_present"
     THEN Reply(w)
     ELSE Step(w, "mark_insert", [req[w] EXCEPT !.at = now])
  /\ UNCHANGED rowTables /\ ClockInUnchanged

\* A second mark is an error.  Else the clock is read for marked_at.
MarkLookup(w) ==
  /\ At(w, "mark_lookup")
  /\ IF HasPresent(req[w].event, req[w].user)
     THEN Reply(w)
     ELSE Step(w, "mark_insert", [req[w] EXCEPT !.at = now])
  /\ UNCHANGED rowTables /\ ClockInUnchanged

MarkInsert(w) ==
  /\ At(w, "mark_insert")
  /\ NewId
  /\ attendance' = attendance \cup
       {[id |-> lastId', event |-> req[w].event, user |-> req[w].user,
         via |-> "mark_present", at |-> req[w].at]}
  /\ Reply(w)
  /\ UNCHANGED sessions /\ ClockInUnchanged

-----------------------------------------------------------------------------
\* The daily job deletes by clock-in time, open sessions included.
TrimHistory ==
  /\ "TrimHistory" \in Handlers
  /\ sessions' = {s \in sessions : s.in + Retention >= now}
  /\ UNCHANGED <<attendance, lastId, workers>> /\ ClockInUnchanged

ClockInStep(w) ==
  \/ RecordClockInHandler(w) \/ GateQR(w) \/ GateJoined(w) \/ GateScan(w)
  \/ GateTemplate(w) \/ GateConsent(w) \/ GateFence(w)
  \/ ClockInStamp(w) \/ ClockInInsert(w)
  \/ RecordClockOutHandler(w) \/ ClockOutSelect(w) \/ ClockOutSave(w)
  \/ MarkPresent(w) \/ MarkEvent(w) \/ MarkLookup(w) \/ MarkInsert(w)
=============================================================================
