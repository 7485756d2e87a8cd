------------------------------ MODULE Membership ------------------------------
(***************************************************************************)
(* Joining and leaving an event, the consent template of an event and the  *)
(* consents of its attendees, and the deletion of an account.              *)
(***************************************************************************)
EXTENDS AttendanceTables

MembershipUnchanged ==
  UNCHANGED <<now, events, scan, schedule, goneLive, fences, sessions, attendance, alerts, job>>

-----------------------------------------------------------------------------
(* POST /v1/events/{id}/join-by-qr with the event's share token.           *)

JoinByQR(w) ==
  /\ \E u \in users, e \in Events :
        Begin(w, "JoinByQR", "join_event", [NoRequest EXCEPT !.user = u, !.event = e])
  /\ UNCHANGED <<templates, memberTables, lastId>> /\ MembershipUnchanged

JoinEvent(w) ==
  /\ Check(w, "join_event", req[w].event \in events, "join_lookup")
  /\ UNCHANGED <<templates, memberTables, lastId>> /\ MembershipUnchanged

\* Mutation: the existing join is not looked up.
JoinLookupSkipped(w) ==
  /\ At(w, "join_lookup")
  /\ Step(w, "join_insert", [req[w] EXCEPT !.at = now])
  /\ UNCHANGED <<templates, memberTables, lastId>> /\ MembershipUnchanged

\* An existing join is returned as it is.  Else the clock is read for joined_at.
JoinLookup(w) ==
  /\ At(w, "join_lookup")
  /\ IF Joined(req[w].event, req[w].user)
     THEN Reply(w)
     ELSE Step(w, "join_insert", [req[w] EXCEPT !.at = now])
  /\ UNCHANGED <<templates, memberTables, lastId>> /\ MembershipUnchanged

\* No unique index covers (event, user) and no foreign key the event.
JoinInsert(w) ==
  /\ At(w, "join_insert")
  /\ NewId
  /\ joins' = joins \cup {[id |-> lastId', event |-> req[w].event,
                           user |-> req[w].user, at |-> req[w].at, seen |-> now]}
  /\ Reply(w)
  /\ UNCHANGED <<templates, users, consents>> /\ MembershipUnchanged

\* DELETE /v1/me/event-joins/{id}: one DELETE by id and user.
LeaveEvent ==
  /\ "LeaveEvent" \in Handlers /\ SomeWorkerFree
  /\ \E u \in users : \E j \in joins :
        /\ j.user = u
        /\ joins' = joins \ {j}
  /\ UNCHANGED <<templates, users, consents, lastId, workers>> /\ MembershipUnchanged

-----------------------------------------------------------------------------
(* POST /v1/me/events/{id}/consent                                         *)

SubmitConsent(w) ==
  /\ \E u \in users, e \in Events :
        Begin(w, "SubmitConsent", "consent_joined", [NoRequest EXCEPT !.user = u, !.event = e])
  /\ UNCHANGED <<templates, memberTables, lastId>> /\ MembershipUnchanged

ConsentJoined(w) ==
  /\ Check(w, "consent_joined", Joined(req[w].event, req[w].user), "consent_template")
  /\ UNCHANGED <<templates, memberTables, lastId>> /\ MembershipUnchanged

ConsentTemplate(w) ==
  /\ Check(w, "consent_template", NeedsConsent(req[w].event), "consent_lookup")
  /\ UNCHANGED <<templates, memberTables, lastId>> /\ MembershipUnchanged

ConsentLookup(w) ==
  /\ At(w, "consent_lookup")
  /\ Step(w, IF HasConsent(req[w].event, req[w].user) THEN "consent_save" ELSE "consent_insert",
             [req[w] EXCEPT !.at = now])
  /\ UNCHANGED <<templates, memberTables, lastId>> /\ MembershipUnchanged

Consent(r) == [event |-> r.event, user |-> r.user, agreed |-> r.at]

\* (event, user) is a unique index: a second insert fails.
ConsentInsert(w) ==
  /\ At(w, "consent_insert")
  /\ consents' = IF HasConsent(req[w].event, req[w].user)
                 THEN consents ELSE consents \cup {Consent(req[w])}
  /\ Reply(w)
  /\ UNCHANGED <<templates, users, joins, lastId>> /\ MembershipUnchanged

\* Save inserts the row again when it was deleted meanwhile.
ConsentSave(w) ==
  /\ At(w, "consent_save")
  /\ consents' = {c \in consents : ~(c.event = req[w].event /\ c.user = req[w].user)}
                 \cup {Consent(req[w])}
  /\ Reply(w)
  /\ UNCHANGED <<templates, users, joins, lastId>> /\ MembershipUnchanged

-----------------------------------------------------------------------------
(* PUT /v1/events/{id}/consent-template, by an organizer                   *)

SaveTemplate(w) ==
  /\ \E e \in events :
        Begin(w, "SaveTemplate", "template_event", [NoRequest EXCEPT !.event = e])
  /\ UNCHANGED <<templates, memberTables, lastId>> /\ MembershipUnchanged

TemplateEvent(w) ==
  /\ Check(w, "template_event", req[w].event \in events, "template_lookup")
  /\ UNCHANGED <<templates, memberTables, lastId>> /\ MembershipUnchanged

HasTemplate(e) == \E t \in templates : t.event = e

TemplateLookup(w) ==
  /\ At(w, "template_lookup")
  /\ Goto(w, IF HasTemplate(req[w].event) THEN "template_save" ELSE "template_insert")
  /\ UNCHANGED <<templates, memberTables, lastId>> /\ MembershipUnchanged

\* event_id is a unique index of consent_templates.
TemplateInsert(w) ==
  /\ At(w, "template_insert")
  /\ IF HasTemplate(req[w].event)
     THEN UNCHANGED templates
     ELSE \E required \in BOOLEAN :
            templates' = templates \cup {[event |-> req[w].event, required |-> required]}
  /\ Reply(w)
  /\ UNCHANGED <<memberTables, lastId>> /\ MembershipUnchanged

TemplateSave(w) ==
  /\ At(w, "template_save")
  /\ \E required \in BOOLEAN :
        templates' = {t \in templates : t.event # req[w].event}
                     \cup {[event |-> req[w].event, required |-> required]}
  /\ Reply(w)
  /\ UNCHANGED <<memberTables, lastId>> /\ MembershipUnchanged

-----------------------------------------------------------------------------
\* Mutation: the transaction forgets the activity sessions.
DeleteAccountKeepsSessions ==
  /\ "DeleteAccount" \in Handlers /\ SomeWorkerFree
  /\ \E u \in users :
        /\ joins' = {j \in joins : j.user # u}
        /\ attendance' = {a \in attendance : a.user # u}
        /\ users' = users \ {u}
  /\ UNCHANGED <<now, eventTables, consents, sessions, lastId, alerts, workers, job>>

\* DELETE /v1/me: one transaction over joins, attendance, sessions and users.
DeleteAccount ==
  /\ "DeleteAccount" \in Handlers /\ SomeWorkerFree
  /\ \E u \in users :
        /\ joins' = {j \in joins : j.user # u}
        /\ attendance' = {a \in attendance : a.user # u}
        /\ sessions' = {s \in sessions : s.user # u}
        /\ users' = users \ {u}
  /\ UNCHANGED <<now, eventTables, consents, lastId, alerts, workers, job>>

MembershipStep(w) ==
  \/ JoinByQR(w) \/ JoinEvent(w) \/ JoinLookup(w) \/ JoinInsert(w)
  \/ SubmitConsent(w) \/ ConsentJoined(w) \/ ConsentTemplate(w)
  \/ ConsentLookup(w) \/ ConsentInsert(w) \/ ConsentSave(w)
  \/ SaveTemplate(w) \/ TemplateEvent(w) \/ TemplateLookup(w)
  \/ TemplateInsert(w) \/ TemplateSave(w)
=============================================================================
