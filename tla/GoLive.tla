-------------------------------- MODULE GoLive --------------------------------
(***************************************************************************)
(* The background job that runs every minute and processes the events that *)
(* entered their live window: it closes the open sessions of the event,    *)
(* inserts one alert per join, and marks the event as processed.  Nothing  *)
(* of it is in a transaction; after a failure or a restart the next run    *)
(* starts the unmarked events again from the beginning.                    *)
(***************************************************************************)
EXTENDS AttendanceTables

CONSTANT MaxAlerts  \* the alerts of an event and user are counted up to this

ASSUME MaxAlertsAssumption == MaxAlerts \in Nat \ {0}

\* found is the time the run started with, at the stamp of its last clock-out.
JobIdle == [pc |-> "idle", found |-> 0, events |-> {}, event |-> Nil, at |-> 0, joins |-> {}]

JobState == [pc : {"idle", "next", "close", "list", "alert"},
             found : Nat, events : SUBSET Events, event : Events \cup {Nil},
             at : Nat, joins : SUBSET JoinRow]

GoLiveUnchanged ==
  UNCHANGED <<now, events, scan, schedule, fences, templates, memberTables, attendance, lastId, workers>>

\* Mutation: the start of the window is left out.
PendingAfterStart ==
  {e \in events : goneLive[e] = 0 /\ IsLive(e, now) /\ now # schedule[e].start}

PendingGoLive == {e \in events : goneLive[e] = 0 /\ IsLive(e, now)}

JobFind ==
  /\ "GoLive" \in Handlers
  /\ job.pc = "idle"
  /\ PendingGoLive # {}
  /\ job' = [JobIdle EXCEPT !.pc = "next", !.found = now, !.events = PendingGoLive]
  /\ UNCHANGED <<sessions, alerts, goneLive>> /\ GoLiveUnchanged

\* clockOutOpenSessionsForEvent reads the clock, then updates.
JobNext ==
  /\ job.pc = "next"
  /\ \E e \in job.events :
        job' = [job EXCEPT !.pc = "close", !.event = e, !.events = @ \ {e}, !.at = now]
  /\ UNCHANGED <<sessions, alerts, goneLive>> /\ GoLiveUnchanged

\* The mark is the time of the run; the UPDATE finds no row when the event was
\* deleted meanwhile.
Marked == IF job.event \in events THEN [goneLive EXCEPT ![job.event] = job.found] ELSE goneLive

\* Mutation: the event is marked before its alerts are inserted.
JobCloseAndStamp ==
  /\ job.pc = "close"
  /\ sessions' = {IF s.event = job.event /\ s.out = Open
                  THEN [s EXCEPT !.out = job.at] ELSE s : s \in sessions}
  /\ goneLive' = Marked
  /\ job' = [job EXCEPT !.pc = "list"]
  /\ UNCHANGED alerts /\ GoLiveUnchanged

JobClose ==
  /\ job.pc = "close"
  /\ sessions' = {IF s.event = job.event /\ s.out = Open
                  THEN [s EXCEPT !.out = job.at] ELSE s : s \in sessions}
  /\ job' = [job EXCEPT !.pc = "list"]
  /\ UNCHANGED <<alerts, goneLive>> /\ GoLiveUnchanged

JobList ==
  /\ job.pc = "list"
  /\ job' = [job EXCEPT !.pc = "alert", !.joins = {j \in joins : j.event = job.event}]
  /\ UNCHANGED <<sessions, alerts, goneLive>> /\ GoLiveUnchanged

JobAlert ==
  /\ job.pc = "alert"
  /\ \E j \in job.joins :
        /\ alerts' = [alerts EXCEPT ![<<j.event, j.user>>] = IF @ < MaxAlerts THEN @ + 1 ELSE @]
        /\ job' = [job EXCEPT !.joins = @ \ {j}]
  /\ UNCHANGED <<sessions, goneLive>> /\ GoLiveUnchanged

JobStamp ==
  /\ job.pc = "alert"
  /\ job.joins = {}
  /\ goneLive' = Marked
  /\ job' = IF job.events = {} THEN JobIdle
            ELSE [JobIdle EXCEPT !.pc = "next", !.found = job.found, !.events = job.events]
  /\ UNCHANGED <<sessions, alerts>> /\ GoLiveUnchanged

\* A statement fails (the run returns its error) or the process restarts.
JobAbort ==
  /\ job.pc # "idle"
  /\ job' = JobIdle
  /\ UNCHANGED <<sessions, alerts, goneLive>> /\ GoLiveUnchanged

JobWork == JobFind \/ JobNext \/ JobClose \/ JobList \/ JobAlert \/ JobStamp
=============================================================================
