------------------------------- MODULE MCPolls -------------------------------
(***************************************************************************)
(* Alerts as a part of the runs that are about more: what becomes of the   *)
(* alerts.  What is mailed and pushed is in MCOtpAndDevices.               *)
(***************************************************************************)
CONSTANTS
  NoEvent, \* Nil
  PollUsers, LiveEvents, PollMembers, PollTokens, PollPrefs, PollHandlers, PollWorkers, HasNotifier, \* of Alerts
  MaxNotices, MaxDevices, MaxJoins \* its bounds

VARIABLES
  aAccounts, aPrefs, aDevices, aLastRow, aEvents, aLive, aJoins, aLastJoin,
  aNotices, aDelivered, aRemoved, aProcessed, aJob, aDispatches, aSent, aAnswered, aLost, aHeld, aWanted, aFailed, aRaced, aPc, aReq

aVars == <<aAccounts, aPrefs, aDevices, aLastRow, aEvents, aLive, aJoins, aLastJoin,
           aNotices, aDelivered, aRemoved, aProcessed, aJob, aDispatches, aSent, aAnswered, aLost, aHeld, aWanted, aFailed, aRaced, aPc, aReq>>

\* Who gets an alert, and who reads it, while people join, leave and delete their account
\* and events end and are deleted.
InboxHandlers == {"Poll", "Join", "Leave", "DeleteAccount", "DeleteEvent", "Clock"}

\* What decides whether an alert is read at all, once everybody has joined.
AnswerHandlers == {"Poll", "DeleteEvent", "Clock"}
EveryMember == PollUsers \X LiveEvents

\* Alerts, with what is proved of it.
Polls ==
  INSTANCE AlertsProofs WITH
    Nil <- NoEvent, Users <- PollUsers, Events <- LiveEvents, Members <- PollMembers, Tokens <- PollTokens, Prefs <- PollPrefs,
    Handlers <- PollHandlers, Workers <- PollWorkers, Notifier <- HasNotifier, MaxRows <- MaxDevices,
    accounts <- aAccounts, prefs <- aPrefs, devices <- aDevices, lastRow <- aLastRow,
    events <- aEvents, live <- aLive, joins <- aJoins, lastJoin <- aLastJoin,
    notices <- aNotices, delivered <- aDelivered, removed <- aRemoved, processed <- aProcessed, job <- aJob,
    dispatches <- aDispatches, sent <- aSent, answered <- aAnswered, lost <- aLost,
    held <- aHeld, wanted <- aWanted, failed <- aFailed, raced <- aRaced, pc <- aPc, req <- aReq

ASSUME PollsAssumption == Polls!AlertsAssumption
=============================================================================
