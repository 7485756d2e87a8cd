--------------------------- MODULE MCOtpAndDevices ---------------------------
(***************************************************************************)
(* What is sent to people: the codes of OtpChallenge and the notifications *)
(* that Alerts mails and pushes.  They share no state, so that a behaviour *)
(* is about one of them, its part, and the other stays as it began.        *)
(***************************************************************************)
EXTENDS OtpChallenge, TLC

CONSTANTS
  Owners, LiveEvents, DeviceMembers, DeviceTokens, DevicePrefs, HasNotifier, DeviceHandlers, \* of Alerts
  MaxNotices, MaxRows, MaxJoins \* its bounds

VARIABLES
  part, \* what the behaviour is about
  dAccounts, dPrefs, dDevices, dLastRow, dEvents, dLive, dJoins, dLastJoin,
  dNotices, dDelivered, dRemoved, dProcessed, dJob, dDispatches, dSent, dAnswered, dLost, dHeld, dWanted, dFailed, dRaced, dPc, dReq

dVars == <<dAccounts, dPrefs, dDevices, dLastRow, dEvents, dLive, dJoins, dLastJoin,
           dNotices, dDelivered, dRemoved, dProcessed, dJob, dDispatches, dSent, dAnswered, dLost, dHeld, dWanted, dFailed, dRaced, dPc, dReq>>

\* Everything on; all but what an app reports itself, by push alone.
ThePrefs == {[geofence |-> TRUE, missed |-> TRUE, mail |-> TRUE, push |-> TRUE],
             [geofence |-> TRUE, missed |-> FALSE, mail |-> FALSE, push |-> TRUE]}

\* Everybody has joined.
TheMembers == Owners \X LiveEvents

\* What becomes of the devices of two attendees.
TheHandlers == {"Register", "SignOut", "SetPrefs", "DispatchMine"}

\* Alerts, with what is proved of it.
Devices ==
  INSTANCE AlertsProofs WITH
    Users <- Owners, Events <- LiveEvents, Members <- DeviceMembers, Tokens <- DeviceTokens, Prefs <- DevicePrefs,
    Notifier <- HasNotifier, Handlers <- DeviceHandlers,
    accounts <- dAccounts, prefs <- dPrefs, devices <- dDevices, lastRow <- dLastRow,
    events <- dEvents, live <- dLive, joins <- dJoins, lastJoin <- dLastJoin,
    notices <- dNotices, delivered <- dDelivered, removed <- dRemoved, processed <- dProcessed, job <- dJob,
    dispatches <- dDispatches, sent <- dSent, answered <- dAnswered, lost <- dLost,
    held <- dHeld, wanted <- dWanted, failed <- dFailed, raced <- dRaced, pc <- dPc, req <- dReq

ASSUME PartsAssumption == Devices!AlertsAssumption

PartsInit == part \in {"codes", "devices"} /\ Init /\ Devices!Init

PartsNext ==
  \/ part = "codes" /\ Next /\ UNCHANGED <<part, dVars>>
  \/ part = "devices" /\ Devices!Next /\ UNCHANGED <<part, vars>>

PartsSpec == PartsInit /\ [][PartsNext]_<<part, vars, dVars>>

\* However late the dispatcher acts, an attendee is sent only what he wanted that way
\* since, on devices that were his since; and while requests run one at a time, a
\* confirmed device is the caller's.  Rows keep their types.
DeliveredAsWanted ==
  TypeOK /\ Devices!TypeOK /\ Devices!DeliveredAsWanted /\ Devices!RegisteredIsMine

Symmetry == Permutations(Workers) \cup Permutations(Owners)
=============================================================================
