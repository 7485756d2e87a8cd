------------------------------- MODULE ClockInQR -------------------------------
(***************************************************************************)
(* The rotating code that attendees scan to clock in.  Dashboards poll it, *)
(* which issues a new one when the old one is too old; organizers switch   *)
(* it on and off, set its rotation and replace it.  The code, its issue    *)
(* time, the rotation and the switch are columns of the event.  Deleting   *)
(* an event, which deletes them all, is left to EventAdmin.                *)
(***************************************************************************)
EXTENDS Naturals, Requests

CONSTANTS
  Events,    \* events
  Rotations, \* clock_in_qr_rotation_minutes that organizers set; 0 is never
  MaxTime,   \* the clock stops here
  MaxTokens, \* bound on the codes issued
  Nil        \* no event

ASSUME ClockInQRAssumption ==
  /\ Rotations \subseteq Nat
  /\ Nil \notin Events
  /\ {MaxTime, MaxTokens} \subseteq Nat /\ MaxTime > 0

VARIABLES
  now,       \* the clock
  enabled,   \* events.scan_to_clock_in_enabled
  rotation,  \* events.clock_in_qr_rotation_minutes
  token,     \* events.clock_in_qr_token, 0 for the empty string
  issued,    \* events.clock_in_qr_issued_at, 0 for NULL
  lastToken, \* the codes are random: each is one that was never used
  raced      \* no column: two requests have been in flight at the same time

settings == <<enabled, rotation>>
code == <<token, issued>>
vars == <<now, settings, code, lastToken, raced, workers>>

\* back is where EnsureEventClockInQRToken and its like return to.
NoRequest == [event |-> Nil, enable |-> FALSE, rotation |-> 0, token |-> 0, issued |-> 0,
              at |-> 0, back |-> "answer"]

Begin(w, first, r) ==
  /\ Start(w, first, r)
  /\ raced' = (raced \/ \E v \in Workers : ~Idle(v))

Reply(w) == Step(w, "idle", NoRequest)

Unwritten == UNCHANGED <<now, settings, code, lastToken>>
OnlyRead == Unwritten /\ UNCHANGED raced

Init ==
  /\ now = 1
  /\ enabled = [e \in Events |-> FALSE] /\ rotation = [e \in Events |-> 0]
  /\ token = [e \in Events |-> 0] /\ issued = [e \in Events |-> 0]
  /\ lastToken = 0 /\ raced = FALSE
  /\ pc = [w \in Workers |-> "idle"] /\ req = [w \in Workers |-> NoRequest]

-----------------------------------------------------------------------------
(* Age and acceptance of a code                                            *)

ClockInQRIsExpired(issuedAt, minutes, at) ==
  minutes > 0 /\ issuedAt # 0 /\ issuedAt + minutes <= at

\* ValidateEventClockInQRToken, which the clock-in gate calls.
Accepted(e, t, at) ==
  /\ t # 0 /\ t = token[e]
  /\ enabled[e]
  /\ ~ClockInQRIsExpired(issued[e], rotation[e], at)

-----------------------------------------------------------------------------
(* EnsureEventClockInQRToken and issueEventClockInQRToken                  *)

\* Mutation: the code that is there is returned whatever its age.
EnsureReadAnyAge(w) ==
  LET e == req[w].event
  IN  /\ At(w, "ensure")
      /\ IF ~enabled[e] THEN Reply(w)
         ELSE IF token[e] # 0
         THEN Step(w, req[w].back, [req[w] EXCEPT !.token = token[e], !.at = now,
                                                  !.issued = IF issued[e] = 0 THEN now ELSE issued[e]])
         ELSE Step(w, "issue", [req[w] EXCEPT !.at = now])
      /\ OnlyRead

\* The code there is, or a new one if there is none or it is too old.
EnsureRead(w) ==
  LET e == req[w].event
  IN  /\ At(w, "ensure")
      /\ IF ~enabled[e] THEN Reply(w)
         ELSE IF token[e] # 0 /\ ~ClockInQRIsExpired(issued[e], rotation[e], now)
         THEN Step(w, req[w].back, [req[w] EXCEPT !.token = token[e], !.at = now,
                                                  !.issued = IF issued[e] = 0 THEN now ELSE issued[e]])
         ELSE Step(w, "issue", [req[w] EXCEPT !.at = now])
      /\ OnlyRead

\* One UPDATE of both columns, whatever the row has become meanwhile.
Issue(w) ==
  /\ At(w, "issue")
  /\ lastToken < MaxTokens
  /\ lastToken' = lastToken + 1
  /\ token' = [token EXCEPT ![req[w].event] = lastToken']
  /\ issued' = [issued EXCEPT ![req[w].event] = req[w].at]
  /\ Step(w, req[w].back, [req[w] EXCEPT !.token = lastToken', !.issued = req[w].at])
  /\ UNCHANGED <<now, settings, raced>>

-----------------------------------------------------------------------------
(* GET clock-in-share: the rotation in the answer is that of the first     *)
(* read.                                                                   *)

GetShare(w) ==
  /\ \E e \in Events : Begin(w, "share_event", [NoRequest EXCEPT !.event = e])
  /\ Unwritten

EnsureForAnswer(w) ==
  Step(w, "ensure", [req[w] EXCEPT !.rotation = rotation[req[w].event], !.back = "answer"])

ShareEvent(w) ==
  /\ At(w, "share_event")
  /\ IF enabled[req[w].event] THEN EnsureForAnswer(w) ELSE Reply(w)
  /\ OnlyRead

\* The answer is built and sent.
Answer(w) == At(w, "answer") /\ Reply(w) /\ OnlyRead

-----------------------------------------------------------------------------
(* POST clock-in-share/regenerate                                          *)

Regenerate(w) ==
  /\ \E e \in Events : Begin(w, "regenerate_event", [NoRequest EXCEPT !.event = e])
  /\ Unwritten

RegenerateEvent(w) ==
  /\ At(w, "regenerate_event")
  /\ IF enabled[req[w].event]
     THEN Step(w, "regenerate_read", [req[w] EXCEPT !.rotation = rotation[req[w].event]])
     ELSE Reply(w)
  /\ OnlyRead

RegenerateRead(w) ==
  /\ At(w, "regenerate_read")
  /\ IF enabled[req[w].event]
     THEN Step(w, "issue", [req[w] EXCEPT !.at = now])
     ELSE Reply(w)
  /\ OnlyRead

-----------------------------------------------------------------------------
(* PATCH clock-in-settings                                                 *)

PatchSettings(w) ==
  /\ \E e \in Events, b \in BOOLEAN, m \in Rotations :
        Begin(w, "settings_read", [NoRequest EXCEPT !.event = e, !.enable = b, !.rotation = m])
  /\ Unwritten

SettingsRead(w) ==
  /\ At(w, "settings_read")
  /\ Step(w, "settings_write", [req[w] EXCEPT !.token = token[req[w].event],
                                              !.issued = issued[req[w].event]])
  /\ OnlyRead

AfterWrite(w) ==
  IF req[w].enable /\ req[w].token = 0
  THEN Step(w, "ensure", [req[w] EXCEPT !.back = "settings_reread"])
  ELSE Goto(w, "settings_reread")

Switch(w) ==
  /\ enabled' = [enabled EXCEPT ![req[w].event] = req[w].enable]
  /\ rotation' = [rotation EXCEPT ![req[w].event] = req[w].rotation]

\* Mutation: switching off leaves the code.
SettingsWriteKeepsCode(w) ==
  /\ At(w, "settings_write")
  /\ Switch(w) /\ AfterWrite(w)
  /\ UNCHANGED <<now, code, lastToken, raced>>

\* Mutation: the whole row is saved as it was read.
SettingsWriteRow(w) ==
  LET e == req[w].event
  IN  /\ At(w, "settings_write")
      /\ Switch(w) /\ AfterWrite(w)
      /\ token' = [token EXCEPT ![e] = IF req[w].enable THEN req[w].token ELSE 0]
      /\ issued' = [issued EXCEPT ![e] = IF req[w].enable THEN req[w].issued ELSE 0]
      /\ UNCHANGED <<now, lastToken, raced>>

SettingsWrite(w) ==
  LET e == req[w].event
  IN  /\ At(w, "settings_write")
      /\ Switch(w) /\ AfterWrite(w)
      /\ IF req[w].enable THEN UNCHANGED code
         ELSE token' = [token EXCEPT ![e] = 0] /\ issued' = [issued EXCEPT ![e] = 0]
      /\ UNCHANGED <<now, lastToken, raced>>

SettingsReread(w) ==
  /\ At(w, "settings_reread")
  /\ IF enabled[req[w].event] THEN EnsureForAnswer(w) ELSE Reply(w)
  /\ OnlyRead

-----------------------------------------------------------------------------
\* A statement fails or the process dies.
AbortRequest(w) == ~Idle(w) /\ Reply(w) /\ OnlyRead

Tick ==
  /\ now < MaxTime
  /\ now' = now + 1
  /\ UNCHANGED <<settings, code, lastToken, raced, workers>>

Next ==
  \/ \E w \in Workers :
       \/ GetShare(w) \/ ShareEvent(w) \/ EnsureRead(w) \/ Issue(w) \/ Answer(w)
       \/ Regenerate(w) \/ RegenerateEvent(w) \/ RegenerateRead(w)
       \/ PatchSettings(w) \/ SettingsRead(w) \/ SettingsWrite(w) \/ SettingsReread(w)
       \/ AbortRequest(w)
  \/ Tick

Spec == Init /\ [][Next]_vars

-----------------------------------------------------------------------------
Labels == {"idle", "answer", "ensure", "issue", "share_event", "regenerate_event",
           "regenerate_read", "settings_read", "settings_write", "settings_reread"}

Request == [event : Events \cup {Nil}, enable : BOOLEAN, rotation : Nat, token : Nat,
            issued : Nat, at : Nat, back : {"answer", "settings_reread"}]

\* The types of the columns and the requests; a code and its issue time are
\* written together, so every code there is can expire.
TypeOK ==
  /\ now \in 1..MaxTime
  /\ enabled \in [Events -> BOOLEAN] /\ rotation \in [Events -> Nat]
  /\ token \in [Events -> 0..lastToken] /\ issued \in [Events -> 0..now]
  /\ \A e \in Events : token[e] = 0 <=> issued[e] = 0
  /\ lastToken \in 0..MaxTokens /\ raced \in BOOLEAN
  /\ pc \in [Workers -> Labels] /\ req \in [Workers -> Request]

\* While requests run one at a time, an event that is switched off has no code,
\* wherever a request failed: the code that is shown when it is switched on
\* again is a new one.
DisabledHasNoCode ==
  ~raced => \A e \in Events : ~enabled[e] => token[e] = 0

\* While requests run one at a time, the code that a dashboard is about to show is
\* the one the clock-in gate accepts at the time it was read, and the expiry
\* that is shown with it is the one that the gate enforces.
CodeShownIsAccepted ==
  \A w \in Workers : pc[w] = "answer" /\ ~raced =>
    /\ Accepted(req[w].event, req[w].token, req[w].at)
    /\ req[w].issued = issued[req[w].event]
    /\ req[w].rotation = rotation[req[w].event]

\* However requests interleave, a code that was replaced or switched off is never
\* the code of the event again: what was photographed once is of no use later.
ReplacedForGood ==
  [][\A e \in Events : token'[e] # token[e] =>
       token'[e] = 0 \/ (token'[e] = lastToken' /\ lastToken < lastToken')]_vars
=============================================================================
