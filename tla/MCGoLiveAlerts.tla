---------------------------- MODULE MCGoLiveAlerts ----------------------------
(***************************************************************************)
(* What gets done in the end: live events are processed, and alerts are    *)
(* answered.  Alerts has a job of its own that writes them and shares no   *)
(* state with Attendance, so that a behaviour is about one of them, its    *)
(* side, and the other stays as it began.                                  *)
(***************************************************************************)
EXTENDS MCAttendance, MCPolls

VARIABLE side \* what the behaviour is about

SidesInit == side \in {"job", "polls"} /\ Init /\ Polls!Init

SidesNext ==
  \/ side = "job" /\ Next /\ UNCHANGED <<side, aVars>>
  \/ side = "polls" /\ Polls!Next /\ UNCHANGED <<side, vars>>

\* The fairness of FairSpec of both, each in the behaviours about it.
SidesSpec ==
  /\ SidesInit /\ [][SidesNext]_<<side, vars, aVars>>
  /\ WF_vars(side = "job" /\ JobWork) /\ WF_vars(side = "job" /\ Tick)
  /\ \A w \in PollWorkers : WF_aVars(side = "polls" /\ Polls!Polling(w))

\* If the app polls again and again, and polls stop failing, every alert gets into an
\* answer, unless it was in one that got lost before, or its event is deleted.
AlertsAreAnswered == side = "polls" => Polls!AlertsAreAnswered
=============================================================================
