--------------------------- MODULE MCCodesFormsAlerts ---------------------------
(***************************************************************************)
(* The codes of an event, its consent form and its alerts: ClockInQR,      *)
(* JoinTokens, ConsentForms, ConsentKeys and Alerts.  They share no state, *)
(* so that a behaviour is about one of them, its part, and the others stay *)
(* as they began.                                                          *)
(***************************************************************************)
EXTENDS ClockInQR, MCPolls, TLC

CONSTANTS
  JoinEvents, OldEvents, People, \* of JoinTokens
  FormUsers, FormTemplates, SentForms, MaxSaves, \* of ConsentForms
  KeyLetters, KeyCustom, KeyPresets, KeyRequired, KeyLabels, KeysSent, KeyCut \* of ConsentKeys

VARIABLES
  part, \* what the behaviour is about
  jEvents, jToken, jLast, jUsers, jJoins, jValid, jRaced, jPc, jReq,
  fTemplate, fConsents, fUses, fWritten, fConfirmed, fSince, fRaced, fPc, fReq,
  kForm, kEdited

jVars == <<jEvents, jToken, jLast, jUsers, jJoins, jValid, jRaced, jPc, jReq>>
fVars == <<fTemplate, fConsents, fUses, fWritten, fConfirmed, fSince, fRaced, fPc, fReq>>
kVars == <<kForm, kEdited>>

Joins ==
  INSTANCE JoinTokens WITH
    Events <- JoinEvents, Old <- OldEvents,
    events <- jEvents, token <- jToken, lastToken <- jLast, users <- jUsers, joins <- jJoins,
    valid <- jValid, raced <- jRaced, pc <- jPc, req <- jReq

PresetField(k) == [key |-> k, required |-> TRUE, checked |-> TRUE, custom |-> FALSE, long |-> FALSE]
CustomField(k) == [key |-> k, required |-> FALSE, checked |-> FALSE, custom |-> TRUE, long |-> FALSE]

\* The e-mail field, alone and with a custom field, which is optional and then required.
MCTemplates == {{PresetField("email")}, {PresetField("email"), CustomField("size")},
                 {[CustomField("size") EXCEPT !.required = TRUE]}}

Plain(k, v) == [key |-> k, padded |-> FALSE, value |-> v]
Padded(k, v) == [key |-> k, padded |-> TRUE, value |-> v]

MCForms == {{Plain("email", "good")}, {Plain("size", "good")}, {Plain("email", "bad"), Plain("size", "good")},
             {Plain("email", "good"), Plain("size", "blank")},
             {Plain("email", "good"), Padded("email", "bad")}}

Forms ==
  INSTANCE ConsentForms WITH
    Users <- FormUsers, Templates <- FormTemplates, Forms <- SentForms,
    template <- fTemplate, consents <- fConsents, uses <- fUses, written <- fWritten,
    confirmed <- fConfirmed, since <- fSince, raced <- fRaced, pc <- fPc, req <- fReq

\* Short labels, and some that the cut divides before and after an underscore.
MCLabels == {<<>>, <<" ">>, <<"!">>, <<"_">>, <<"a">>, <<"a", "_">>, <<"!", "a">>, <<"a", "b">>,
              <<"a", "_", "b">>, <<"a", "!", " ", "b">>, <<"a", "b", "a">>}
MCKeysSent == {<<>>, <<"!">>, <<"c">>, <<"c", "_">>, <<"c", "_", "a">>, <<"a", "!", " ", "b">>,
                <<"e">>, <<" ", "e">>}

FormKeys ==
  INSTANCE ConsentKeys WITH
    Letters <- KeyLetters, Custom <- KeyCustom, Presets <- KeyPresets, Required <- KeyRequired,
    Labels <- KeyLabels, SentKeys <- KeysSent, SlugLength <- KeyCut,
    form <- kForm, edited <- kEdited

ASSUME PartsAssumption ==
  Joins!JoinTokensAssumption /\ Forms!ConsentFormsAssumption /\ FormKeys!ConsentKeysAssumption

PartsInit ==
  /\ part \in {"clock_in", "join", "forms", "keys", "alerts"}
  /\ Init /\ Joins!Init /\ Forms!Init /\ FormKeys!Init /\ Polls!Init

PartsNext ==
  \/ part = "clock_in" /\ Next /\ UNCHANGED <<part, aVars, jVars, fVars, kVars>>
  \/ part = "join" /\ Joins!Next /\ UNCHANGED <<part, aVars, vars, fVars, kVars>>
  \/ part = "forms" /\ Forms!Next /\ UNCHANGED <<part, aVars, vars, jVars, kVars>>
  \/ part = "keys" /\ FormKeys!Next /\ UNCHANGED <<part, aVars, vars, jVars, fVars>>
  \/ part = "alerts" /\ Polls!Next /\ UNCHANGED <<part, vars, jVars, fVars, kVars>>
  \/ part = "alerts" /\ aAccounts = {} /\ aEvents = {} /\ UNCHANGED <<part, aVars, vars, jVars, fVars, kVars>> \* nothing is left

PartsSpec == PartsInit /\ [][PartsNext]_<<part, aVars, vars, jVars, fVars, kVars>>

\* Nobody joins with a code that the event did not have since the request began, and
\* no code that was replaced is the event's again, however requests interleave; while
\* they run one at a time, the code that an organizer is shown is the event's.
JoinCodesHold == Joins!JoinedWithCode /\ Joins!ReplacedForGood /\ []Joins!SharedIsAccepted

\* However submissions and changes of the form interleave, a stored consent answers
\* a form that the event had since its request began.
ConsentAnswersForm == Forms!ConsentAnswersForm

\* While requests run one at a time, the counters by which fields are recommended
\* include every confirmed form; they are never above the forms that were written.
\* Rows keep their types.
ConfirmedIsCounted == TypeOK /\ Joins!TypeOK /\ Forms!TypeOK /\ Forms!ConfirmedIsCounted

\* The key of a custom field meets no preset, and a form that was sent back once
\* as it was answered keeps its keys.
KeysSettle == FormKeys!TypeOK /\ FormKeys!CustomIsApart /\ FormKeys!SettlesAtOnce

\* However polls, the job, failures and lost answers interleave, no alert is marked
\* that nobody read, and none is answered twice until requests race.  Unless a run of
\* the job fails, a join is alerted once, and an attendee is until requests race.
AlertsAreHandedOver ==
  Polls!TypeOK /\ Polls!MarkedIsAnswered /\ Polls!AnsweredOnce /\ Polls!OneAlertPerGoLive

Symmetry == Permutations(Workers)
=============================================================================
