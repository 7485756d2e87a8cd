------------------------------ MODULE Attendance ------------------------------
(***************************************************************************)
(* The attendance system: every handler over the shared tables together    *)
(* with the go-live job and the history trim, and what can be relied on.   *)
(***************************************************************************)
EXTENDS Membership, ClockIn, GoLive, EventAdmin

Init ==
  /\ now = 1
  /\ users = Users
  /\ events = Events
  /\ schedule = ScheduleOf /\ goneLive = [e \in Events |-> 0]
  /\ scan = {} /\ templates = {}
  /\ \E owner \in [Fences -> Events] :
        fences = {[event |-> owner[f], fence |-> f] : f \in Fences}
  /\ joins = {} /\ consents = {}
  /\ sessions = {} /\ attendance = {} /\ lastId = 0
  /\ alerts = [p \in Events \X Users |-> 0]
  /\ pc = [w \in Workers |-> "idle"]
  /\ req = [w \in Workers |-> NoRequest]
  /\ job = JobIdle

Next ==
  \/ \E w \in Workers : MembershipStep(w) \/ ClockInStep(w) \/ AdminStep(w) \/ AbortRequest(w)
  \/ LeaveEvent \/ DeleteAccount \/ SetScanRequired \/ TrimHistory
  \/ JobWork \/ JobAbort
  \/ Tick

Spec == Init /\ [][Next]_vars

\* The job's goroutine runs as long as the process does, and the clock goes on.
FairSpec == Spec /\ WF_vars(JobWork) /\ WF_vars(Tick)

-----------------------------------------------------------------------------
Labels ==
  {"idle", "join_event", "join_lookup", "join_insert", "consent_joined",
   "consent_template", "consent_lookup", "consent_insert", "consent_save",
   "template_event", "template_lookup", "template_insert", "template_save",
   "gate_qr", "gate_joined", "gate_scan", "gate_template", "gate_consent",
   "gate_fence", "clock_in_stamp", "clock_in_insert", "clock_out_select",
   "clock_out_save", "mark_event", "mark_lookup", "mark_insert",
   "update_event_read", "update_event_write", "delete_fence_event",
   "delete_fence_row", "delete_event_read", "delete_event_rows"}

\* The types of the tables, the requests and the job.
TypeOK ==
  /\ now \in 1..MaxTime
  /\ users \subseteq Users /\ events \subseteq Events
  /\ scan \subseteq events
  /\ schedule \in [Events -> Schedules]
  /\ goneLive \in [Events -> 0..MaxTime] /\ \A e \in Events \ events : goneLive[e] = 0
  /\ fences \subseteq [event : Events, fence : Fences]
  /\ templates \subseteq [event : Events, required : BOOLEAN]
  /\ joins \subseteq JoinRow /\ consents \subseteq ConsentRow
  /\ sessions \subseteq SessionRow /\ attendance \subseteq AttendanceRow
  /\ lastId \in 0..MaxId
  /\ alerts \in [Events \X Users -> 0..MaxAlerts]
  /\ pc \in [Workers -> Labels] /\ req \in [Workers -> Request]
  /\ job \in JobState

-----------------------------------------------------------------------------
(* With one request at a time.                                             *)

\* Scanning the join code again returns the join there is: an attendee has at
\* most one join row per event (JoinByQR looks before it inserts).
OneJoinRow ==
  \A j, k \in joins : j.event = k.event /\ j.user = k.user => j = k

\* No foreign key ties a row to its event.  The order of the checks in the
\* handlers and the transaction of DeleteEvent must make sure that no row
\* outlives its event.
NoOrphanRows ==
  /\ \A r \in joins \cup consents \cup attendance \cup templates \cup fences : r.event \in events
  /\ \A s \in sessions : s.event \in events \cup {Nil}

\* RecordClockIn writes two tables: every session of an event in the activity
\* history is backed by the attendance row of the same clock-in, whatever is
\* deleted, trimmed or closed afterwards.
SessionHasAttendance ==
  \A s \in sessions : s.event # Nil =>
    \E a \in attendance : a.id = s.id /\ a.event = s.event /\ a.user = s.user /\ a.at = s.in

\* mark-present counts an attendee once: it refuses when the event has a present
\* row of the attendee, also one that a clock-in wrote.
MarkPresentOnce ==
  \A a, b \in attendance :
    a.event = b.event /\ a.user = b.user /\ b.id < a.id => a.via # "mark_present"

\* A clock-in for an event is recorded only for an attendee who has joined it,
\* has consented if its template has fields, and has scanned if that is
\* required: the reads of the gate still hold when the row is written.
GateHonoured ==
  [][\A s \in sessions' \ sessions : s.id = lastId' /\ lastId' # lastId /\ s.event # Nil =>
       /\ Joined(s.event, s.user)
       /\ NeedsConsent(s.event) => HasConsent(s.event, s.user)
       /\ s.event \in scan => s.source = "qr_scan"]_vars

-----------------------------------------------------------------------------
(* With requests and jobs interleaved.                                     *)

LedgerOf(i) ==
  IF i > lastId THEN [state |-> "unused", in |-> 0, out |-> 0]
  ELSE IF \E s \in sessions : s.id = i
       THEN LET s == CHOOSE s \in sessions : s.id = i
            IN  [state |-> IF s.out = Open THEN "open" ELSE "closed",
                 in |-> s.in, out |-> s.out]
       ELSE [state |-> "removed", in |-> 0, out |-> 0]

Ledger == [i \in 1..MaxId |-> LedgerOf(i)]

Strict == INSTANCE SessionLedger WITH
            Ids <- 1..MaxId, Times <- 1..MaxTime, LateWrites <- FALSE, ledger <- Ledger
Late   == INSTANCE SessionLedger WITH
            Ids <- 1..MaxId, Times <- 1..MaxTime, LateWrites <- TRUE, ledger <- Ledger

\* One request at a time and no background job: a session is opened once, closed
\* once and not before its clock-in, and its clock-out time is final.
StrictLedger == Strict!Spec

\* Any interleaving: no session that was closed or deleted is open again,
\* although RecordClockOut saves a whole row that it read earlier.
LateLedger == Late!Spec

\* Whatever fails, restarts or is rescheduled, an event is marked as processed
\* only when every attendee who had joined before the run of the job that
\* processed it, and is still joined, has been alerted.
EarlyJoinersAlerted ==
  \A e \in Events : \A j \in joins :
    j.event = e /\ j.seen < goneLive[e] => alerts[<<e, j.user>>] > 0

\* If the job stops failing, an event that stays live is processed.
GoLiveProcessed ==
  (<>[][~JobAbort]_vars) =>
    \A e \in Events :
      <>[](e \in events /\ IsLive(e, now)) => <>(goneLive[e] # 0)

-----------------------------------------------------------------------------
(* What the documentation says and the code refutes.                       *)

\* "Any open fence sessions were closed": the alert that go-live sends.  A
\* session clocked in before the run of the job is not open once it is done.
OpenSessionsClosedAtGoLive ==
  \A e \in Events : \A s \in sessions :
    s.event = e /\ s.in < goneLive[e] => s.out # Open

\* "processes events entering their live window": a live event that the job will
\* not look at again was processed in the window it is in.
ProcessedInItsWindow ==
  \A e \in events :
    IsLive(e, now) /\ goneLive[e] # 0 => schedule[e].start <= goneLive[e]
=============================================================================
