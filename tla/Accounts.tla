------------------------------- MODULE Accounts -------------------------------
(***************************************************************************)
(* The accounts of attendees and of organizers: registration, guests who   *)
(* join without an account, Google sign-in, password changes and deletion. *)
(* The two pools have tables of their own.  Their unique indexes are those *)
(* that the models declare.  Names, and sign-ins that only read, are left  *)
(* out; the codes that follow a registration are in OtpChallenge.          *)
(***************************************************************************)
EXTENDS Naturals, Requests

CONSTANTS
  Emails,    \* normalized addresses
  Passwords, \* passwords; a hash stands for the password it was made from
  Profiles,  \* what Google says of who signs in: a subject and an address
  MaxId,     \* bound on the accounts created
  Empty      \* the empty string, which every text column holds until it is set

Subs == {p.sub : p \in Profiles}

ASSUME AccountsAssumption ==
  /\ Empty \notin Emails \cup Passwords \cup Subs
  /\ \A p \in Profiles : p.email \in Emails
  /\ MaxId \in Nat

VARIABLES
  users,         \* users: attendees
  organizers,    \* business_users
  organizations, \* organizations, by id
  lastId,        \* the last id given to an account
  raced          \* no column: two requests have been in flight at the same time

tables == <<users, organizers, organizations, lastId>>
vars == <<tables, raced, workers>>

\* apple_sub is never set.
UserRow == [id : Nat, email : Emails, password : Passwords \cup {Empty},
            sub : Subs \cup {Empty}, apple : {Empty}, verified : BOOLEAN]

OrganizerRow == [id : Nat, org : Nat, email : Emails, password : Passwords,
                 sub : Subs \cup {Empty}]

\* id is the account that a look-up found.
NoRequest == [email |-> Empty, password |-> Empty, new |-> Empty, sub |-> Empty, id |-> 0]

\* A request starts, alone or while others are in flight.
Overlap == raced' = (raced \/ \E w \in Workers : ~Idle(w))
Begin(w, first, r) == Start(w, first, r) /\ Overlap /\ UNCHANGED tables

Reply(w) == Step(w, "idle", NoRequest)

OnlyRead == UNCHANGED <<tables, raced>>

Check(w, label, ok, next) ==
  /\ At(w, label)
  /\ IF ok THEN Goto(w, next) ELSE Reply(w)
  /\ OnlyRead

Init ==
  /\ users = {} /\ organizers = {} /\ organizations = {} /\ lastId = 0
  /\ raced = FALSE
  /\ pc = [w \in Workers |-> "idle"] /\ req = [w \in Workers |-> NoRequest]

-----------------------------------------------------------------------------
(* The tables                                                              *)

NewId ==
  /\ lastId < MaxId
  /\ lastId' = lastId + 1

NewUser(r, verified) ==
  [id |-> lastId', email |-> r.email, password |-> r.password, sub |-> r.sub,
   apple |-> Empty, verified |-> verified]

\* uniqueIndex of email, google_sub and apple_sub; an empty string is a value.
FitsUsers(row) ==
  \A u \in users : u.email # row.email /\ u.sub # row.sub /\ u.apple # row.apple

\* One INSERT: the row goes in, or the request is refused.
InsertUser(w, verified, next) ==
  /\ NewId
  /\ IF FitsUsers(NewUser(req[w], verified))
     THEN /\ users' = users \cup {NewUser(req[w], verified)}
          /\ Step(w, next, [req[w] EXCEPT !.id = lastId'])
     ELSE Goto(w, "refused") /\ UNCHANGED users
  /\ UNCHANGED <<organizers, organizations, raced>>

UserByEmail(email) == {u \in users : u.email = email}
OrganizerByEmail(email) == {o \in organizers : o.email = email}

\* An error has been answered.
Refused(w) == At(w, "refused") /\ Reply(w) /\ OnlyRead

-----------------------------------------------------------------------------
(* POST /v1/auth/user/register                                           *)

RegisterUser(w) ==
  \E e \in Emails, p \in Passwords :
     Begin(w, "register_lookup", [NoRequest EXCEPT !.email = e, !.password = p])

RegisterLookup(w) ==
  Check(w, "register_lookup", UserByEmail(req[w].email) = {}, "register_insert")

RegisterInsert(w) == At(w, "register_insert") /\ InsertUser(w, FALSE, "registered")

\* A code is sent: OtpChallenge.
Registered(w) == At(w, "registered") /\ Reply(w) /\ OnlyRead

-----------------------------------------------------------------------------
(* POST join-by-qr without a token: the guest becomes an account without a*)
(* password, unless the address has one.                                   *)

GuestJoin(w) ==
  \E e \in Emails : Begin(w, "guest_lookup", [NoRequest EXCEPT !.email = e])

GuestLookup(w) ==
  Check(w, "guest_lookup", UserByEmail(req[w].email) = {}, "guest_insert")

GuestInsert(w) == At(w, "guest_insert") /\ InsertUser(w, FALSE, "registered")

-----------------------------------------------------------------------------
(* POST /v1/auth/user/oauth/google                                       *)

GoogleSignIn(w) ==
  \E p \in Profiles :
     Begin(w, "google_sub", [NoRequest EXCEPT !.email = p.email, !.sub = p.sub])

\* Some account that a look-up found, or none.
Found(w, rows, found, missing) ==
  /\ \/ rows = {} /\ missing
     \/ \E r \in rows : Step(w, found, [req[w] EXCEPT !.id = r.id])
  /\ OnlyRead

GoogleBySub(w) ==
  /\ At(w, "google_sub")
  /\ Found(w, {u \in users : u.sub = req[w].sub}, "answer", Goto(w, "google_email"))

GoogleByEmail(w) ==
  /\ At(w, "google_email")
  /\ Found(w, UserByEmail(req[w].email), "google_link", Goto(w, "google_insert"))

\* Mutation: the address is verified and the subject forgotten.
GoogleLinkForgotten(w) ==
  /\ At(w, "google_link")
  /\ users' = {IF u.id = req[w].id THEN [u EXCEPT !.verified = TRUE] ELSE u : u \in users}
  /\ Goto(w, "google_reread")
  /\ UNCHANGED <<organizers, organizations, lastId, raced>>

\* The account of the address gets the subject, whatever it had before.
GoogleLink(w) ==
  /\ At(w, "google_link")
  /\ IF \A u \in users : u.id # req[w].id => u.sub # req[w].sub
     THEN /\ users' = {IF u.id = req[w].id
                         THEN [u EXCEPT !.sub = req[w].sub, !.verified = TRUE] ELSE u : u \in users}
          /\ Goto(w, "google_reread")
     ELSE Goto(w, "refused") /\ UNCHANGED users
  /\ UNCHANGED <<organizers, organizations, lastId, raced>>

\* The account is read again by its address; errors are ignored, and no account
\* is answered like a disabled one.
GoogleReread(w) ==
  /\ At(w, "google_reread")
  /\ Found(w, UserByEmail(req[w].email), "answer", Reply(w))

GoogleInsert(w) == At(w, "google_insert") /\ InsertUser(w, TRUE, "answer")

\* A token for the account.
Answer(w) == At(w, "answer") /\ Reply(w) /\ OnlyRead

-----------------------------------------------------------------------------
(* POST /v1/me/change-password and DELETE /v1/me                         *)

ChangePassword(w) ==
  \E u \in users, current, new \in Passwords :
     /\ current # new
     /\ Begin(w, "password_read",
              [NoRequest EXCEPT !.id = u.id, !.password = current, !.new = new])

\* Mutation: whoever is signed in sets a password.
PasswordReadUnchecked(w) ==
  Check(w, "password_read", \E u \in users : u.id = req[w].id, "password_write")

PasswordRead(w) ==
  Check(w, "password_read",
        \E u \in users : u.id = req[w].id /\ u.password = req[w].password, "password_write")

\* Mutation: a row with the id and the password is saved as a whole.
PasswordWriteSaves(w) ==
  /\ At(w, "password_write")
  /\ users' = {u \in users : u.id # req[w].id} \cup
                {[id |-> req[w].id, email |-> Empty, password |-> req[w].new,
                  sub |-> Empty, apple |-> Empty, verified |-> FALSE]}
  /\ Reply(w)
  /\ UNCHANGED <<organizers, organizations, lastId, raced>>

\* Whatever the password is by now; nothing happens when the account is gone.
PasswordWrite(w) ==
  /\ At(w, "password_write")
  /\ users' = {IF u.id = req[w].id THEN [u EXCEPT !.password = req[w].new] ELSE u : u \in users}
  /\ Reply(w)
  /\ UNCHANGED <<organizers, organizations, lastId, raced>>

\* One transaction; the attendee's other rows are in Membership.
DeleteAccount ==
  /\ SomeWorkerFree /\ Overlap
  /\ \E u \in users : users' = users \ {u}
  /\ UNCHANGED <<organizers, organizations, lastId, workers>>

-----------------------------------------------------------------------------
(* POST /v1/auth/business/register: one transaction, whose look-up reads a*)
(* snapshot and locks nothing.                                             *)

RegisterOwner(w) ==
  \E e \in Emails, p \in Passwords :
     Begin(w, "owner_lookup", [NoRequest EXCEPT !.email = e, !.password = p])

\* Mutation: the address is not looked up.
OwnerLookupSkipped(w) == Check(w, "owner_lookup", TRUE, "owner_insert")

OwnerLookup(w) ==
  Check(w, "owner_lookup", OrganizerByEmail(req[w].email) = {}, "owner_insert")

NewOrganizer(r) ==
  [id |-> lastId', org |-> lastId', email |-> r.email, password |-> r.password, sub |-> Empty]

\* The unique indexes of (organization_id, email) and google_sub.
FitsOrganizers(row) ==
  \A o \in organizers : (o.org # row.org \/ o.email # row.email) /\ o.sub # row.sub

\* Mutation: the organization is committed before the account is inserted.
OwnerInsertSplit(w) ==
  /\ At(w, "owner_insert")
  /\ NewId
  /\ organizations' = organizations \cup {lastId'}
  /\ organizers' = IF FitsOrganizers(NewOrganizer(req[w]))
                   THEN organizers \cup {NewOrganizer(req[w])} ELSE organizers
  /\ Reply(w)
  /\ UNCHANGED <<users, raced>>

\* The organization, whose slug is tried until it is free, and its owner.
OwnerInsert(w) ==
  /\ At(w, "owner_insert")
  /\ NewId
  /\ IF FitsOrganizers(NewOrganizer(req[w]))
     THEN /\ organizations' = organizations \cup {lastId'}
          /\ organizers' = organizers \cup {NewOrganizer(req[w])}
          /\ Goto(w, "registered")
     ELSE Goto(w, "refused") /\ UNCHANGED <<organizers, organizations>>
  /\ UNCHANGED <<users, raced>>

-----------------------------------------------------------------------------
(* POST /v1/auth/business/oauth/google                                   *)

OwnerGoogle(w) ==
  \E p \in Profiles :
     Begin(w, "owner_read", [NoRequest EXCEPT !.email = p.email, !.sub = p.sub])

\* The first account of the address.
OwnerRead(w) ==
  LET rows == OrganizerByEmail(req[w].email)
  IN  /\ At(w, "owner_read")
      /\ Found(w, {o \in rows : \A p \in rows : o.id <= p.id}, "owner_link", Reply(w))

OwnerLink(w) ==
  /\ At(w, "owner_link")
  /\ IF \A o \in organizers : o.id # req[w].id => o.sub # req[w].sub
     THEN /\ organizers' = {IF o.id = req[w].id THEN [o EXCEPT !.sub = req[w].sub] ELSE o :
                              o \in organizers}
          /\ Goto(w, "owner_answer")
     ELSE Goto(w, "refused") /\ UNCHANGED organizers
  /\ UNCHANGED <<users, organizations, lastId, raced>>

\* The account is read by its id, a token issued and the login noted.
OwnerAnswer(w) == At(w, "owner_answer") /\ Reply(w) /\ OnlyRead

-----------------------------------------------------------------------------
\* A statement fails or the process dies.
AbortRequest(w) == ~Idle(w) /\ Reply(w) /\ OnlyRead

WorkerStep(w) ==
  \/ RegisterUser(w) \/ RegisterLookup(w) \/ RegisterInsert(w) \/ Registered(w)
  \/ GuestJoin(w) \/ GuestLookup(w) \/ GuestInsert(w)
  \/ GoogleSignIn(w) \/ GoogleBySub(w) \/ GoogleByEmail(w) \/ GoogleLink(w)
  \/ GoogleReread(w) \/ GoogleInsert(w) \/ Answer(w)
  \/ ChangePassword(w) \/ PasswordRead(w) \/ PasswordWrite(w)
  \/ RegisterOwner(w) \/ OwnerLookup(w) \/ OwnerInsert(w)
  \/ OwnerGoogle(w) \/ OwnerRead(w) \/ OwnerLink(w) \/ OwnerAnswer(w)
  \/ Refused(w) \/ AbortRequest(w)

Next == (\E w \in Workers : WorkerStep(w)) \/ DeleteAccount

Spec == Init /\ [][Next]_vars

-----------------------------------------------------------------------------
Labels ==
  {"idle", "register_lookup", "register_insert", "registered", "guest_lookup", "guest_insert",
   "google_sub", "google_email", "google_link", "google_reread", "google_insert", "answer",
   "password_read", "password_write", "owner_lookup", "owner_insert", "owner_read",
   "owner_link", "owner_answer", "refused"}

Request == [email : Emails \cup {Empty}, password : Passwords \cup {Empty},
            new : Passwords \cup {Empty}, sub : Subs \cup {Empty}, id : Nat]

\* The types of the tables and the requests; whoever signed in with Google has a
\* verified address.
TypeOK ==
  /\ users \subseteq UserRow /\ organizers \subseteq OrganizerRow
  /\ organizations \subseteq 1..lastId
  /\ lastId \in 0..MaxId /\ raced \in BOOLEAN
  /\ \A row \in users \cup organizers : row.id \in 1..lastId
  /\ \A u \in users : u.sub # Empty => u.verified
  /\ pc \in [Workers -> Labels] /\ req \in [Workers -> Request]

-----------------------------------------------------------------------------
(* While requests run one at a time.                                       *)

\* "A business account with this email already exists": no index keeps two
\* organizations from having an owner with the same address, only the look-up.
OneOwnerPerEmail ==
  ~raced => \A o, p \in organizers : o.email = p.email => o = p

\* A Google sign-in, after up to four statements, ends with a token for a verified
\* account that has the subject that signed in.
GoogleAnswersItsAccount ==
  \A w \in Workers : ~raced =>
    /\ pc[w] = "answer" =>
         \E u \in users : u.id = req[w].id /\ u.sub = req[w].sub /\ u.verified
    /\ pc[w] = "owner_answer" =>
         \E o \in organizers : o.id = req[w].id /\ o.sub = req[w].sub

\* A signed-in change replaces a password only for whoever knows it, also when
\* accounts are deleted and registered again between the requests; the reset by a
\* mailed code is in OtpChallenge.
PasswordNeedsCurrent ==
  [][~raced => \A u \in users, v \in users' : u.id = v.id /\ u.password # v.password =>
       \E w \in Workers : req[w].id = u.id /\ req[w].password = u.password]_vars

-----------------------------------------------------------------------------
(* However requests interleave.                                            *)

\* A registration leaves an organization and its owner or neither: no failure
\* leaves an organization that nobody can sign in to.
OrganizationsHaveOwner ==
  \A n \in organizations : \E o \in organizers : o.org = n

\* A request that read an account before it was deleted never brings it back:
\* an account that appears is a new one.
DeletedForGood ==
  [][\A v \in users' : v.id > lastId \/ \E u \in users : u.id = v.id]_vars

-----------------------------------------------------------------------------
(* What the documents say and the schema does not allow.                   *)

\* Attendees sign in with google_sub, apple_sub or an address: a registration that
\* passed its look-up is refused only when the address got an account since.
RefusedOnlyIfTaken ==
  [][\A w \in Workers : pc[w] = "register_insert" /\ pc'[w] = "refused" =>
       UserByEmail(req[w].email) # {}]_vars
=============================================================================
