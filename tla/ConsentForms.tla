----------------------------- MODULE ConsentForms -----------------------------
(***************************************************************************)
(* The consent forms of events, which organizers save, and the consents    *)
(* that attendees submit.  Saving a form also counts, per organization,    *)
(* how often each custom field was used.  Whether an attendee may submit,  *)
(* and what a consent is good for, is in Membership and ClockIn; the keys  *)
(* of custom fields are in ConsentKeys.                                    *)
(***************************************************************************)
EXTENDS Naturals, FiniteSets, Requests

CONSTANTS
  Events,    \* events of one organization
  Users,     \* attendees who joined them
  Templates, \* normalized forms: sets of fields with distinct keys
  Forms,     \* what attendees submit: sets of entries
  MaxSaves,  \* bound on the saved forms that have a custom field
  Nil        \* no event, no attendee

Fields == UNION Templates
Keys == {f.key : f \in Fields}

\* A field is checked if its type is e-mail or boolean.  An entry is padded if its
\* key has blanks around it.
Values == {"blank", "bad", "good"}
Field == [key : Keys, required : BOOLEAN, checked : BOOLEAN, custom : BOOLEAN, long : BOOLEAN]
Entry == [key : Keys, padded : BOOLEAN, value : Values]

\* What an instance has to satisfy.
ConsentFormsAssumption ==
  /\ Nil \notin Events \cup Users
  /\ Fields \subseteq Field
  /\ {} \notin Templates
  /\ \A T \in Templates : \A f, g \in T : f.key = g.key => f = g
  /\ Forms \subseteq SUBSET Entry
  /\ \A F \in Forms : \A x, y \in F : x.key = y.key /\ x.padded = y.padded => x = y
  /\ MaxSaves \in Nat

VARIABLES
  template, \* consent_templates: the form of each event, {} if there is no row
  consents, \* user_consents
  uses,     \* organization_consent_fields.use_count, 0 if there is no row
  written,  \* no column: forms with the field that were written
  confirmed, \* no column: forms with the field whose saving was confirmed
  since,    \* no column: the forms that the event of a request had since it began
  raced     \* no column: two requests have been in flight at the same time

tables == <<template, consents, uses>>
counts == <<written, confirmed>>
vars == <<tables, counts, since, raced, workers>>

ConsentRow == [event : Events, user : Users, values : UNION {[K -> Values] : K \in SUBSET Keys}]

NoValues == [k \in {} |-> "blank"]

\* form is what was submitted, values its snapshot; fields is the form to save, todo
\* the custom fields to count, key and count the one that was read.
NoRequest == [event |-> Nil, user |-> Nil, form |-> {}, values |-> NoValues,
              fields |-> {}, todo |-> {}, key |-> Nil, count |-> 0]

Begin(w, first, r) ==
  /\ Start(w, first, r)
  /\ raced' = (raced \/ \E v \in Workers : ~Idle(v))
  /\ UNCHANGED <<tables, counts>>

Reply(w) == Step(w, "idle", NoRequest)
OnlyRead == UNCHANGED <<tables, counts, raced>>

Init ==
  /\ template = [e \in Events |-> {}] /\ consents = {} /\ uses = [k \in Keys |-> 0]
  /\ written = [k \in Keys |-> 0] /\ confirmed = [k \in Keys |-> 0]
  /\ since = [w \in Workers |-> {}] /\ raced = FALSE
  /\ pc = [w \in Workers |-> "idle"] /\ req = [w \in Workers |-> NoRequest]

-----------------------------------------------------------------------------
(* POST consent                                                            *)

\* The value under exactly the key of the field.
ValueOf(form, f) ==
  IF \E x \in form : x.key = f.key /\ ~x.padded
  THEN (CHOOSE x \in form : x.key = f.key /\ ~x.padded).value
  ELSE "blank"

\* Mutation: blank values are not checked, required or not.
ValidateFilledOnly(fields, form) ==
  \A f \in fields : f.checked => ValueOf(form, f) # "bad"

ValidateConsentSubmission(fields, form) ==
  \A f \in fields :
    /\ f.required => ValueOf(form, f) # "blank"
    /\ f.checked => ValueOf(form, f) # "bad"

\* Blanks around the keys are trimmed; of two entries that then have the same key, the
\* one that the iteration over the Go map meets last is kept.
Snapshots(form) ==
  {v \in [{x.key : x \in form} -> Values] :
     \A k \in {x.key : x \in form} : \E x \in form : x.key = k /\ x.value = v[k]}

SubmitConsent(w) ==
  \E e \in Events, u \in Users, F \in Forms :
     Begin(w, "consent_template", [NoRequest EXCEPT !.event = e, !.user = u, !.form = F])

ConsentTemplate(w) ==
  LET fields == template[req[w].event]
  IN  /\ At(w, "consent_template")
      /\ IF fields # {} /\ ValidateConsentSubmission(fields, req[w].form)
         THEN \E v \in Snapshots(req[w].form) :
                Step(w, "consent_lookup", [req[w] EXCEPT !.values = v])
         ELSE Reply(w)
      /\ OnlyRead

HasConsented(w) == \E c \in consents : c.event = req[w].event /\ c.user = req[w].user

ConsentLookup(w) ==
  /\ At(w, "consent_lookup")
  /\ Goto(w, IF HasConsented(w) THEN "consent_save" ELSE "consent_insert")
  /\ OnlyRead

Consent(w) == [event |-> req[w].event, user |-> req[w].user, values |-> req[w].values]

\* uniqueIndex idx_user_event_consent.
ConsentInsert(w) ==
  /\ At(w, "consent_insert")
  /\ consents' = IF HasConsented(w) THEN consents ELSE consents \cup {Consent(w)}
  /\ Reply(w)
  /\ UNCHANGED <<template, uses, counts, raced>>

ConsentSave(w) ==
  /\ At(w, "consent_save")
  /\ consents' = {IF c.event = req[w].event /\ c.user = req[w].user THEN Consent(w) ELSE c
                    : c \in consents}
  /\ Reply(w)
  /\ UNCHANGED <<template, uses, counts, raced>>

-----------------------------------------------------------------------------
(* PUT consent-template                                                    *)

CustomKeys(fields) == {f.key : f \in {f \in fields : f.custom}}

Counted(count, keys) == [k \in Keys |-> IF k \in keys THEN count[k] + 1 ELSE count[k]]

PutTemplate(w) ==
  \E e \in Events, T \in Templates :
     Begin(w, "template_lookup", [NoRequest EXCEPT !.event = e, !.fields = T])

TemplateLookup(w) ==
  /\ At(w, "template_lookup")
  /\ Goto(w, IF template[req[w].event] = {} THEN "template_insert" ELSE "template_save")
  /\ OnlyRead

\* Mutation: only the fields that were never used are counted.
TemplateWrittenOnce(w) ==
  /\ \A k \in CustomKeys(req[w].fields) : written[k] < MaxSaves
  /\ template' = [template EXCEPT ![req[w].event] = req[w].fields]
  /\ written' = Counted(written, CustomKeys(req[w].fields))
  /\ Step(w, "count", [req[w] EXCEPT !.todo = {f \in req[w].fields : f.custom /\ uses[f.key] = 0}])
  /\ UNCHANGED <<consents, uses, confirmed, raced>>

TemplateWritten(w) ==
  /\ \A k \in CustomKeys(req[w].fields) : written[k] < MaxSaves
  /\ template' = [template EXCEPT ![req[w].event] = req[w].fields]
  /\ written' = Counted(written, CustomKeys(req[w].fields))
  /\ Step(w, "count", [req[w] EXCEPT !.todo = {f \in req[w].fields : f.custom}])
  /\ UNCHANGED <<consents, uses, confirmed, raced>>

\* event_id is unique.
TemplateInsert(w) ==
  /\ At(w, "template_insert")
  /\ IF template[req[w].event] = {} THEN TemplateWritten(w) ELSE Reply(w) /\ OnlyRead

TemplateSave(w) == At(w, "template_save") /\ TemplateWritten(w)

\* RecordOrganizationConsentFields, field by field.
CountRead(w) ==
  /\ At(w, "count")
  /\ \/ req[w].todo = {} /\ Goto(w, "saved")
     \/ \E f \in req[w].todo :
          Step(w, IF uses[f.key] = 0 THEN "count_insert" ELSE "count_save",
               [req[w] EXCEPT !.key = f.key, !.count = uses[f.key]])
  /\ OnlyRead

Reading(w) == CHOOSE f \in req[w].todo : f.key = req[w].key

CountNext(w) == Step(w, "count", [req[w] EXCEPT !.todo = @ \ {Reading(w)}, !.key = Nil, !.count = 0])

\* The key is part of the id, which a long one does not fit; the organization and the
\* key are unique.
CountInsert(w) ==
  /\ At(w, "count_insert")
  /\ IF uses[req[w].key] = 0 /\ ~Reading(w).long
     THEN CountNext(w) /\ uses' = [uses EXCEPT ![req[w].key] = 1]
     ELSE Goto(w, "refused") /\ UNCHANGED uses
  /\ UNCHANGED <<template, consents, counts, raced>>

CountSave(w) ==
  /\ At(w, "count_save")
  /\ uses' = [uses EXCEPT ![req[w].key] = req[w].count + 1]
  /\ CountNext(w)
  /\ UNCHANGED <<template, consents, counts, raced>>

\* 200 with the form that was saved.
Saved(w) ==
  /\ At(w, "saved")
  /\ confirmed' = Counted(confirmed, CustomKeys(req[w].fields))
  /\ Reply(w)
  /\ UNCHANGED <<tables, written, raced>>

\* 500.
Refused(w) == At(w, "refused") /\ Reply(w) /\ OnlyRead

-----------------------------------------------------------------------------
\* A statement fails or the process dies.
AbortRequest(w) == ~Idle(w) /\ Reply(w) /\ OnlyRead

Observe ==
  since' = [w \in Workers |->
    IF pc'[w] = "idle" THEN {}
    ELSE (IF pc[w] = "idle" THEN {template[req'[w].event]} ELSE since[w])
           \cup {template'[req'[w].event]}]

Next ==
  /\ \E w \in Workers :
       \/ SubmitConsent(w) \/ ConsentTemplate(w) \/ ConsentLookup(w) \/ ConsentInsert(w) \/ ConsentSave(w)
       \/ PutTemplate(w) \/ TemplateLookup(w) \/ TemplateInsert(w) \/ TemplateSave(w)
       \/ CountRead(w) \/ CountInsert(w) \/ CountSave(w) \/ Saved(w) \/ Refused(w)
       \/ AbortRequest(w)
  /\ Observe

Spec == Init /\ [][Next]_vars

-----------------------------------------------------------------------------
Labels == {"idle", "consent_template", "consent_lookup", "consent_insert", "consent_save",
           "template_lookup", "template_insert", "template_save", "count", "count_insert",
           "count_save", "saved", "refused"}

\* The types of the columns; a counter exists only for keys of custom fields, and
\* never counts more than was written, whatever increments were lost.
TypeOK ==
  /\ template \in [Events -> Templates \cup {{}}]
  /\ consents \subseteq ConsentRow
  /\ \A c, d \in consents : c.event = d.event /\ c.user = d.user => c = d
  /\ written \in [Keys -> 0..MaxSaves]
  /\ \A k \in Keys : uses[k] \in 0..written[k] /\ confirmed[k] \in 0..written[k]
  /\ raced \in BOOLEAN
  /\ pc \in [Workers -> Labels]

\* While requests run one at a time, the use count of a field, by which recommendations
\* are ordered, includes every form whose saving was confirmed.
ConfirmedIsCounted ==
  ~raced => \A k \in Keys : confirmed[k] <= uses[k]

Fits(values, fields) ==
  \A f \in fields :
    /\ f.required => f.key \in DOMAIN values /\ values[f.key] # "blank"
    /\ f.checked /\ f.key \in DOMAIN values => values[f.key] # "bad"

\* However submissions and changes of the form interleave, what is stored of a submission
\* whose keys are not padded answers a form that the event had at some time since
\* the request began.
ConsentAnswersForm ==
  [][\A c \in consents' \ consents : \E w \in Workers :
       /\ req[w].event = c.event /\ req[w].user = c.user
       /\ (\A x \in req[w].form : ~x.padded) => \E T \in since[w] \ {{}} : Fits(c.values, T)]_vars
=============================================================================
