------------------------------ MODULE EventAdmin ------------------------------
(***************************************************************************)
(* What an organizer does to an event while attendees use it: switch the   *)
(* scan requirement, reschedule the event, delete a fence or the event.    *)
(***************************************************************************)
EXTENDS AttendanceTables

AdminUnchanged == UNCHANGED <<now, users, lastId, job>>

NothingWritten ==
  UNCHANGED <<eventTables, joins, consents, sessions, attendance, alerts>>

\* UpdateEventClockInSettings: what it writes depends on no earlier read.
SetScanRequired ==
  /\ "SetScanRequired" \in Handlers /\ SomeWorkerFree
  /\ \E e \in events : scan' \in {scan \cup {e}, scan \ {e}}
  /\ UNCHANGED <<events, schedule, goneLive, fences, templates, joins, consents,
                 sessions, attendance, alerts, workers>>
  /\ AdminUnchanged

-----------------------------------------------------------------------------
(* PATCH /v1/events/{id}: a live event keeps its times.  That its          *)
(* fences fit the new times is checked as well; where they do not, the     *)
(* request ends like an aborted one.                                       *)

UpdateEvent(w) ==
  /\ \E e \in events, s \in Schedules :
        Begin(w, "UpdateEvent", "update_event_read", [NoRequest EXCEPT !.event = e, !.times = s])
  /\ NothingWritten /\ AdminUnchanged

UpdateEventRead(w) ==
  /\ Check(w, "update_event_read",
           /\ req[w].event \in events
           /\ IsLive(req[w].event, now) => req[w].times = schedule[req[w].event],
           "update_event_write")
  /\ NothingWritten /\ AdminUnchanged

\* The mark of the go-live job stays.
UpdateEventWrite(w) ==
  /\ At(w, "update_event_write")
  /\ schedule' = IF req[w].event \in events
                 THEN [schedule EXCEPT ![req[w].event] = req[w].times] ELSE schedule
  /\ Reply(w)
  /\ UNCHANGED <<events, scan, goneLive, fences, templates, joins, consents,
                 sessions, attendance, alerts>>
  /\ AdminUnchanged

-----------------------------------------------------------------------------
(* Both deletions read the event and the clock, refuse a live event, and   *)
(* then delete; the clock may pass the start in between.                   *)

DeleteFence(w) ==
  /\ \E row \in fences :
        Begin(w, "DeleteFence", "delete_fence_event",
              [NoRequest EXCEPT !.event = row.event, !.fence = row.fence])
  /\ NothingWritten /\ AdminUnchanged

DeleteFenceEvent(w) ==
  /\ Check(w, "delete_fence_event",
           req[w].event \in events /\ ~IsLive(req[w].event, now), "delete_fence_row")
  /\ NothingWritten /\ AdminUnchanged

DeleteFenceRow(w) ==
  /\ At(w, "delete_fence_row")
  /\ fences' = fences \ {[event |-> req[w].event, fence |-> req[w].fence]}
  /\ Reply(w)
  /\ UNCHANGED <<events, scan, schedule, goneLive, templates, joins, consents,
                 sessions, attendance, alerts>>
  /\ AdminUnchanged

DeleteEvent(w) ==
  /\ \E e \in events :
        Begin(w, "DeleteEvent", "delete_event_read", [NoRequest EXCEPT !.event = e])
  /\ NothingWritten /\ AdminUnchanged

DeleteEventRead(w) ==
  /\ Check(w, "delete_event_read",
           req[w].event \in events /\ ~IsLive(req[w].event, now), "delete_event_rows")
  /\ NothingWritten /\ AdminUnchanged

\* Mutation: the transaction forgets the consents.
DeleteEventKeepsConsents(w) ==
  LET e == req[w].event
  IN  /\ At(w, "delete_event_rows")
      /\ Reply(w)
      /\ events' = events \ {e} /\ scan' = scan \ {e} /\ goneLive' = [goneLive EXCEPT ![e] = 0]
      /\ fences' = {f \in fences : f.event # e}
      /\ templates' = {t \in templates : t.event # e}
      /\ joins' = {j \in joins : j.event # e}
      /\ sessions' = {s \in sessions : s.event # e}
      /\ attendance' = {a \in attendance : a.event # e}
      /\ UNCHANGED <<schedule, consents, alerts>>
      /\ AdminUnchanged

\* One transaction over every table that refers to the event; it rolls back
\* when the event itself is no longer there.
DeleteEventRows(w) ==
  LET e == req[w].event
  IN  /\ At(w, "delete_event_rows")
      /\ Reply(w)
      /\ IF e \in events
         THEN /\ events' = events \ {e}
              /\ scan' = scan \ {e}
              /\ goneLive' = [goneLive EXCEPT ![e] = 0]
              /\ fences' = {f \in fences : f.event # e}
              /\ templates' = {t \in templates : t.event # e}
              /\ joins' = {j \in joins : j.event # e}
              /\ consents' = {c \in consents : c.event # e}
              /\ sessions' = {s \in sessions : s.event # e}
              /\ attendance' = {a \in attendance : a.event # e}
              /\ alerts' = [p \in DOMAIN alerts |-> IF p[1] = e THEN 0 ELSE alerts[p]]
              /\ UNCHANGED schedule
         ELSE NothingWritten
      /\ AdminUnchanged

AdminStep(w) ==
  \/ UpdateEvent(w) \/ UpdateEventRead(w) \/ UpdateEventWrite(w)
  \/ DeleteFence(w) \/ DeleteFenceEvent(w) \/ DeleteFenceRow(w)
  \/ DeleteEvent(w) \/ DeleteEventRead(w) \/ DeleteEventRows(w)
=============================================================================
