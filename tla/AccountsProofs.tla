---------------------------- MODULE AccountsProofs ----------------------------
(***************************************************************************)
(* Proofs about Accounts, for any number of requests, addresses, passwords *)
(* and accounts.  Rows are built from what a request carries, so the type  *)
(* invariant has to say what a request carries at the statements that      *)
(* insert.  The guards of the routes, which are beside Accounts in the     *)
(* runs, follow at the end.                                                *)
(***************************************************************************)
EXTENDS MCAccountsAndGuards, SequenceTheorems, TLAPS

\* The statements before which a request has only an address, or also a password
\* or what Google said.
PlainInserts == {"register_lookup", "register_insert", "guest_lookup", "guest_insert"}
GoogleInserts == {"google_sub", "google_email", "google_insert"}
OwnerInserts == {"owner_lookup", "owner_insert"}

\* What a request r carries at the statement l.
Fits(l, r) ==
  /\ l \in PlainInserts \cup GoogleInserts \cup OwnerInserts => r.email \in Emails
  /\ l \in PlainInserts => r.sub = Empty
  /\ l \in OwnerInserts => r.password \in Passwords

RequestsFit == \A w \in Workers : Fits(pc[w], req[w])

TInv == TypeOK /\ RequestsFit

\* The part of TypeOK that is about the tables.
TablesTyped ==
  /\ users \subseteq UserRow /\ organizers \subseteq OrganizerRow
  /\ organizations \subseteq 1..lastId
  /\ lastId \in 0..MaxId /\ raced \in BOOLEAN
  /\ \A row \in users \cup organizers : row.id \in 1..lastId
  /\ \A u \in users : u.sub # Empty => u.verified

LEMMA TInvParts ==
  TInv <=> /\ TablesTyped /\ RequestsFit
           /\ pc \in [Workers -> Labels] /\ req \in [Workers -> Request]
BY DEF TInv, TypeOK, TablesTyped

LEMMA NoRequestType == NoRequest \in Request
BY DEF NoRequest, Request

-----------------------------------------------------------------------------
(* What a step does to its request                                         *)

LEMMA StepKeepsRequests ==
  ASSUME TInv, TablesTyped', NEW w \in Workers, NEW l \in Labels, NEW r \in Request,
         Step(w, l, r), Fits(l, r)
  PROVE  TInv'
<1>1. \A v \in Workers : /\ pc'[v] = IF v = w THEN l ELSE pc[v]
                         /\ req'[v] = IF v = w THEN r ELSE req[v]
  BY DEF TInv, TypeOK, Step
<1>2. pc' \in [Workers -> Labels] /\ req' \in [Workers -> Request]
  BY DEF TInv, TypeOK, Step
<1>3. RequestsFit'
  BY <1>1 DEF TInv, RequestsFit
<1> QED
  BY <1>2, <1>3 DEF TInv, TypeOK, TablesTyped

LEMMA OnlyReadKeepsTables ==
  ASSUME TInv, OnlyRead
  PROVE  TablesTyped'
BY DEF TInv, TypeOK, TablesTyped, OnlyRead, tables

LEMMA ReplyKeepsRequests ==
  ASSUME TInv, TablesTyped', NEW w \in Workers, Reply(w)
  PROVE  TInv'
BY NoRequestType, StepKeepsRequests
   DEF Reply, Labels, Fits, PlainInserts, GoogleInserts, OwnerInserts

\* A request goes on to a statement that asks no more of it than the last.
LEMMA GotoKeepsRequests ==
  ASSUME TInv, TablesTyped', NEW w \in Workers, NEW l \in Labels, Goto(w, l),
         Fits(l, req[w])
  PROVE  TInv'
<1>1. Step(w, l, req[w]) /\ req[w] \in Request
  BY DEF Goto, Step, TInv, TypeOK
<1> QED
  BY <1>1, StepKeepsRequests

LEMMA BeginKeepsTypes ==
  ASSUME TInv, NEW w \in Workers, NEW l \in Labels, NEW r \in Request, Begin(w, l, r), Fits(l, r)
  PROVE  TInv'
<1>1. raced' \in BOOLEAN
  BY DEF Begin, Overlap, TInv, TypeOK
<1>2. TablesTyped'
  BY <1>1 DEF Begin, TInv, TypeOK, TablesTyped, tables
<1> QED
  BY <1>2, StepKeepsRequests DEF Begin, Start

\* A request that found an account carries its id.
LEMMA FoundId ==
  ASSUME TInv, NEW w \in Workers, NEW u \in users \cup organizers, NEW l \in Labels,
         l \notin PlainInserts \cup GoogleInserts \cup OwnerInserts, TablesTyped',
         Step(w, l, [req[w] EXCEPT !.id = u.id])
  PROVE  TInv'
<1>1. u.id \in Nat /\ req[w] \in Request
  BY DEF TInv, TypeOK
<1>2. [req[w] EXCEPT !.id = u.id] \in Request
  BY <1>1 DEF Request
<1> QED
  BY <1>2, StepKeepsRequests DEF Fits

-----------------------------------------------------------------------------
(* Actions that only read                                                  *)

LEMMA StartsKeepTypes ==
  ASSUME TInv, NEW w \in Workers,
         RegisterUser(w) \/ GuestJoin(w) \/ GoogleSignIn(w) \/ ChangePassword(w)
         \/ RegisterOwner(w) \/ OwnerGoogle(w)
  PROVE  TInv'
<1> USE DEF PlainInserts, GoogleInserts, OwnerInserts, Fits, Labels
<1>1. CASE RegisterUser(w)
  <2>1. PICK e \in Emails, p \in Passwords :
          Begin(w, "register_lookup", [NoRequest EXCEPT !.email = e, !.password = p])
    BY <1>1 DEF RegisterUser
  <2>2. [NoRequest EXCEPT !.email = e, !.password = p] \in Request
    BY DEF NoRequest, Request
  <2>3. Fits("register_lookup", [NoRequest EXCEPT !.email = e, !.password = p])
    BY DEF NoRequest
  <2> QED
    BY <2>1, <2>2, <2>3, BeginKeepsTypes
<1>2. CASE GuestJoin(w)
  <2>1. PICK e \in Emails : Begin(w, "guest_lookup", [NoRequest EXCEPT !.email = e])
    BY <1>2 DEF GuestJoin
  <2>2. [NoRequest EXCEPT !.email = e] \in Request
    BY DEF NoRequest, Request
  <2>3. Fits("guest_lookup", [NoRequest EXCEPT !.email = e])
    BY DEF NoRequest
  <2> QED
    BY <2>1, <2>2, <2>3, BeginKeepsTypes
<1>3. CASE GoogleSignIn(w) \/ OwnerGoogle(w)
  <2>1. PICK p \in Profiles, l \in {"google_sub", "owner_read"} :
          Begin(w, l, [NoRequest EXCEPT !.email = p.email, !.sub = p.sub])
    BY <1>3 DEF GoogleSignIn, OwnerGoogle
  <2>2. p.email \in Emails /\ p.sub \in Subs
    BY AccountsAssumption DEF Subs
  <2>3. [NoRequest EXCEPT !.email = p.email, !.sub = p.sub] \in Request
    BY <2>2 DEF NoRequest, Request
  <2>4. Fits(l, [NoRequest EXCEPT !.email = p.email, !.sub = p.sub])
    BY <2>2 DEF NoRequest
  <2> QED
    BY <2>1, <2>3, <2>4, BeginKeepsTypes
<1>4. CASE ChangePassword(w)
  <2>1. PICK u \in users, current \in Passwords, new \in Passwords :
          Begin(w, "password_read",
                [NoRequest EXCEPT !.id = u.id, !.password = current, !.new = new])
    BY <1>4 DEF ChangePassword
  <2>2. u.id \in Nat
    BY DEF TInv, TypeOK
  <2>3. [NoRequest EXCEPT !.id = u.id, !.password = current, !.new = new] \in Request
    BY <2>2 DEF NoRequest, Request
  <2>4. Fits("password_read", [NoRequest EXCEPT !.id = u.id, !.password = current, !.new = new])
    OBVIOUS
  <2> QED
    BY <2>1, <2>3, <2>4, BeginKeepsTypes
<1>5. CASE RegisterOwner(w)
  <2>1. PICK e \in Emails, p \in Passwords :
          Begin(w, "owner_lookup", [NoRequest EXCEPT !.email = e, !.password = p])
    BY <1>5 DEF RegisterOwner
  <2>2. [NoRequest EXCEPT !.email = e, !.password = p] \in Request
    BY DEF NoRequest, Request
  <2>3. Fits("owner_lookup", [NoRequest EXCEPT !.email = e, !.password = p])
    BY DEF NoRequest
  <2> QED
    BY <2>1, <2>2, <2>3, BeginKeepsTypes
<1> QED
  BY <1>1, <1>2, <1>3, <1>4, <1>5

\* A look-up that goes on or answers.
LEMMA ChecksKeepTypes ==
  ASSUME TInv, NEW w \in Workers,
         RegisterLookup(w) \/ GuestLookup(w) \/ OwnerLookup(w) \/ PasswordRead(w)
  PROVE  TInv'
<1>1. Fits(pc[w], req[w])
  BY DEF TInv, RequestsFit
<1>2. OnlyRead
  BY DEF RegisterLookup, GuestLookup, OwnerLookup, PasswordRead, Check
<1>3. TablesTyped'
  BY <1>2, OnlyReadKeepsTables
<1>4. \/ Reply(w)
      \/ pc[w] = "register_lookup" /\ Goto(w, "register_insert")
      \/ pc[w] = "guest_lookup" /\ Goto(w, "guest_insert")
      \/ pc[w] = "owner_lookup" /\ Goto(w, "owner_insert")
      \/ Goto(w, "password_write")
  BY DEF RegisterLookup, GuestLookup, OwnerLookup, PasswordRead, Check, At
<1> QED
  BY <1>1, <1>3, <1>4, ReplyKeepsRequests, GotoKeepsRequests
     DEF Fits, PlainInserts, GoogleInserts, OwnerInserts, Labels

LEMMA LookupsKeepTypes ==
  ASSUME TInv, NEW w \in Workers,
         GoogleBySub(w) \/ GoogleByEmail(w) \/ GoogleReread(w) \/ OwnerRead(w)
  PROVE  TInv'
<1>1. Fits(pc[w], req[w])
  BY DEF TInv, RequestsFit
<1>2. OnlyRead
  BY DEF GoogleBySub, GoogleByEmail, GoogleReread, OwnerRead, Found
<1>3. TablesTyped'
  BY <1>2, OnlyReadKeepsTables
<1>4. \/ Reply(w)
      \/ pc[w] = "google_sub" /\ Goto(w, "google_email")
      \/ pc[w] = "google_email" /\ Goto(w, "google_insert")
      \/ \E u \in users \cup organizers, l \in {"answer", "google_link", "owner_link"} :
           Step(w, l, [req[w] EXCEPT !.id = u.id])
  BY DEF GoogleBySub, GoogleByEmail, GoogleReread, OwnerRead, Found, At,
         UserByEmail, OrganizerByEmail
<1> QED
  BY <1>1, <1>3, <1>4, ReplyKeepsRequests, GotoKeepsRequests, FoundId
     DEF Fits, PlainInserts, GoogleInserts, OwnerInserts, Labels

LEMMA RepliesKeepTypes ==
  ASSUME TInv, NEW w \in Workers,
         Registered(w) \/ Answer(w) \/ OwnerAnswer(w) \/ Refused(w) \/ AbortRequest(w)
  PROVE  TInv'
<1>1. Reply(w) /\ OnlyRead
  BY DEF Registered, Answer, OwnerAnswer, Refused, AbortRequest
<1> QED
  BY <1>1, OnlyReadKeepsTables, ReplyKeepsRequests

-----------------------------------------------------------------------------
(* Actions that write                                                      *)

\* An id that is given out is a number, and larger than every id before.
LEMMA NewIdIsNew ==
  ASSUME TInv, NewId
  PROVE  /\ lastId' \in 1..MaxId /\ lastId' > lastId /\ lastId \in Nat
         /\ 1..lastId \subseteq 1..lastId'
BY AccountsAssumption DEF TInv, TypeOK, NewId

\* A statement that inserts a user leaves the table as it was or adds one new row.
LEMMA UserInserted ==
  ASSUME TInv, NEW w \in Workers,
         RegisterInsert(w) \/ GuestInsert(w) \/ GoogleInsert(w)
  PROVE  /\ NewId /\ UNCHANGED <<organizers, organizations, raced>>
         /\ \/ UNCHANGED users /\ Goto(w, "refused")
            \/ \E row \in UserRow, l \in {"registered", "answer"} :
                 /\ row.id = lastId' /\ (row.sub # Empty => row.verified)
                 /\ users' = users \cup {row}
                 /\ Step(w, l, [req[w] EXCEPT !.id = lastId'])
<1> DEFINE r == req[w]
<1>1. PICK b \in BOOLEAN, l \in {"registered", "answer"} :
        InsertUser(w, b, l) /\ (b \/ pc[w] \in PlainInserts)
        /\ pc[w] \in PlainInserts \cup GoogleInserts
  BY DEF RegisterInsert, GuestInsert, GoogleInsert, At, PlainInserts, GoogleInserts
<1>2. r \in Request /\ r.email \in Emails /\ (b \/ r.sub = Empty)
  BY <1>1 DEF TInv, TypeOK, RequestsFit, Fits
<1>3. NewId /\ lastId' \in Nat
  BY <1>1, NewIdIsNew DEF InsertUser
<1>4. /\ NewUser(r, b) \in UserRow /\ NewUser(r, b).id = lastId'
      /\ NewUser(r, b).sub = r.sub /\ NewUser(r, b).verified = b
  BY <1>2, <1>3 DEF NewUser, UserRow, Request
<1> QED
  BY <1>1, <1>2, <1>3, <1>4 DEF InsertUser

LEMMA UserInsertsKeepTypes ==
  ASSUME TInv, NEW w \in Workers,
         RegisterInsert(w) \/ GuestInsert(w) \/ GoogleInsert(w)
  PROVE  TInv'
<1>1. NewId /\ UNCHANGED <<organizers, organizations, raced>>
  BY UserInserted
<1>2. lastId' \in 1..MaxId /\ 1..lastId \subseteq 1..lastId'
  BY <1>1, NewIdIsNew
<1>3. CASE UNCHANGED users /\ Goto(w, "refused")
  <2>1. TablesTyped'
    BY <1>1, <1>2, <1>3, AccountsAssumption DEF TInv, TypeOK, TablesTyped
  <2> QED
    BY <1>3, <2>1, GotoKeepsRequests DEF Labels, Fits, PlainInserts, GoogleInserts, OwnerInserts
<1>4. ASSUME NEW row \in UserRow, NEW l \in {"registered", "answer"},
             row.id = lastId', row.sub # Empty => row.verified, users' = users \cup {row},
             Step(w, l, [req[w] EXCEPT !.id = lastId'])
      PROVE  TInv'
  <2>1. lastId' \in 1..lastId'
    BY <1>2
  <2>2. TablesTyped'
    BY <1>1, <1>2, <1>4, <2>1, AccountsAssumption DEF TInv, TypeOK, TablesTyped
  <2>3. req[w] \in Request /\ lastId' \in Nat
    BY <1>2 DEF TInv, TypeOK
  <2>4. \A n \in Nat : [req[w] EXCEPT !.id = n] \in Request
    BY <2>3 DEF Request
  <2> QED
    BY <1>4, <2>2, <2>3, <2>4, StepKeepsRequests
       DEF Labels, Fits, PlainInserts, GoogleInserts, OwnerInserts
<1> QED
  BY <1>3, <1>4, UserInserted

\* An UPDATE or DELETE of users invents no account.
LEMMA UserUpdated ==
  ASSUME TInv, \/ \E w \in Workers : GoogleLink(w) \/ PasswordWrite(w)
               \/ DeleteAccount
  PROVE  /\ \A v \in users' : /\ v \in UserRow /\ (v.sub # Empty => v.verified)
                              /\ \E u \in users : u.id = v.id
         /\ UNCHANGED <<organizers, organizations, lastId>> /\ raced' \in BOOLEAN
<1>1. \A u \in users : u \in UserRow /\ (u.sub # Empty => u.verified)
  BY DEF TInv, TypeOK
<1>2. ASSUME NEW w \in Workers, GoogleLink(w)
      PROVE  \A v \in users' : /\ v \in UserRow /\ (v.sub # Empty => v.verified)
                               /\ \E u \in users : u.id = v.id
  <2>1. req[w].sub \in Subs \cup {Empty}
    BY DEF TInv, TypeOK, Request
  <2>2. \A u \in users : /\ [u EXCEPT !.sub = req[w].sub, !.verified = TRUE] \in UserRow
                         /\ [u EXCEPT !.sub = req[w].sub, !.verified = TRUE].id = u.id
                         /\ [u EXCEPT !.sub = req[w].sub, !.verified = TRUE].verified
    BY <1>1, <2>1 DEF UserRow
  <2>3. CASE UNCHANGED users
    BY <1>1, <2>3
  <2>4. CASE users' = {IF u.id = req[w].id
                         THEN [u EXCEPT !.sub = req[w].sub, !.verified = TRUE] ELSE u : u \in users}
    BY <1>1, <2>2, <2>4
  <2> QED
    BY <1>2, <2>3, <2>4 DEF GoogleLink
<1>3. ASSUME NEW w \in Workers, PasswordWrite(w)
      PROVE  \A v \in users' : /\ v \in UserRow /\ (v.sub # Empty => v.verified)
                               /\ \E u \in users : u.id = v.id
  <2>1. req[w].new \in Passwords \cup {Empty}
    BY DEF TInv, TypeOK, Request
  <2>2. \A u \in users : /\ [u EXCEPT !.password = req[w].new] \in UserRow
                         /\ [u EXCEPT !.password = req[w].new].id = u.id
                         /\ [u EXCEPT !.password = req[w].new].sub = u.sub
                         /\ [u EXCEPT !.password = req[w].new].verified = u.verified
    BY <1>1, <2>1 DEF UserRow
  <2> QED
    BY <1>1, <1>3, <2>2 DEF PasswordWrite
<1>4. ASSUME DeleteAccount
      PROVE  \A v \in users' : /\ v \in UserRow /\ (v.sub # Empty => v.verified)
                               /\ \E u \in users : u.id = v.id
  BY <1>1, <1>4 DEF DeleteAccount
<1>5. UNCHANGED <<organizers, organizations, lastId>> /\ raced' \in BOOLEAN
  BY DEF TInv, TypeOK, GoogleLink, PasswordWrite, DeleteAccount, Overlap
<1> QED
  BY <1>2, <1>3, <1>4, <1>5

LEMMA UserUpdatesKeepTypes ==
  ASSUME TInv, NEW w \in Workers, GoogleLink(w) \/ PasswordWrite(w) \/ DeleteAccount
  PROVE  TInv'
<1>1. /\ \A v \in users' : /\ v \in UserRow /\ (v.sub # Empty => v.verified)
                           /\ \E u \in users : u.id = v.id
      /\ UNCHANGED <<organizers, organizations, lastId>> /\ raced' \in BOOLEAN
  BY UserUpdated
<1>2. TablesTyped'
  BY <1>1 DEF TInv, TypeOK, TablesTyped
<1>3. CASE GoogleLink(w) \/ PasswordWrite(w)
  <2>1. Goto(w, "google_reread") \/ Goto(w, "refused") \/ Reply(w)
    BY <1>3 DEF GoogleLink, PasswordWrite
  <2> QED
    BY <1>2, <2>1, GotoKeepsRequests, ReplyKeepsRequests
       DEF Labels, Fits, PlainInserts, GoogleInserts, OwnerInserts
<1>4. CASE DeleteAccount
  BY <1>2, <1>4 DEF TInv, TypeOK, TablesTyped, RequestsFit, DeleteAccount, workers
<1> QED
  BY <1>3, <1>4

\* The owner's row and the organization go in together, or neither does.
LEMMA OwnerInserted ==
  ASSUME TInv, NEW w \in Workers, OwnerInsert(w)
  PROVE  /\ NewId /\ UNCHANGED <<users, raced>>
         /\ Goto(w, "registered") \/ Goto(w, "refused")
         /\ \/ UNCHANGED <<organizers, organizations>>
            \/ \E row \in OrganizerRow :
                 /\ row.id = lastId' /\ row.org = lastId'
                 /\ organizers' = organizers \cup {row}
                 /\ organizations' = organizations \cup {lastId'}
<1> DEFINE r == req[w]
<1>1. r.email \in Emails /\ r.password \in Passwords
  BY DEF TInv, RequestsFit, Fits, OwnerInserts, OwnerInsert, At
<1>2. NewId /\ lastId' \in Nat
  BY NewIdIsNew DEF OwnerInsert
<1>3. /\ NewOrganizer(r) \in OrganizerRow
      /\ NewOrganizer(r).id = lastId' /\ NewOrganizer(r).org = lastId'
  BY <1>1, <1>2 DEF NewOrganizer, OrganizerRow
<1> QED
  BY <1>2, <1>3 DEF OwnerInsert

\* The link changes the subject of one row and nothing else.
LEMMA OwnerLinked ==
  ASSUME TInv, NEW w \in Workers, OwnerLink(w)
  PROVE  /\ \A p \in organizers' : p \in OrganizerRow /\ \E o \in organizers : o.id = p.id
         /\ \A o \in organizers : \E p \in organizers' : p.org = o.org
         /\ UNCHANGED <<users, organizations, lastId, raced>>
         /\ Goto(w, "owner_answer") \/ Goto(w, "refused")
<1>1. req[w].sub \in Subs \cup {Empty}
  BY DEF TInv, TypeOK, Request
<1>2. \A o \in organizers : /\ o \in OrganizerRow
                            /\ [o EXCEPT !.sub = req[w].sub] \in OrganizerRow
                            /\ [o EXCEPT !.sub = req[w].sub].id = o.id
                            /\ [o EXCEPT !.sub = req[w].sub].org = o.org
  BY <1>1 DEF TInv, TypeOK, OrganizerRow
<1>3. CASE UNCHANGED organizers
  BY <1>2, <1>3 DEF OwnerLink
<1>4. CASE /\ organizers' = {IF o.id = req[w].id THEN [o EXCEPT !.sub = req[w].sub] ELSE o :
                               o \in organizers}
           /\ Goto(w, "owner_answer")
  <2>1. \A p \in organizers' : p \in OrganizerRow /\ \E o \in organizers : o.id = p.id
    BY <1>2, <1>4
  <2>2. ASSUME NEW o \in organizers PROVE \E p \in organizers' : p.org = o.org
    <3> DEFINE p == IF o.id = req[w].id THEN [o EXCEPT !.sub = req[w].sub] ELSE o
    <3>1. p \in organizers' /\ p.org = o.org
      BY <1>2, <1>4
    <3> QED
      BY <3>1
  <2> QED
    BY <1>4, <2>1, <2>2 DEF OwnerLink
<1> QED
  BY <1>3, <1>4 DEF OwnerLink

LEMMA OwnerWritesKeepTypes ==
  ASSUME TInv, NEW w \in Workers, OwnerInsert(w) \/ OwnerLink(w)
  PROVE  TInv'
<1>1. CASE OwnerInsert(w)
  <2>1. lastId' \in 1..MaxId /\ 1..lastId \subseteq 1..lastId'
    BY <1>1, OwnerInserted, NewIdIsNew
  <2>2. lastId' \in 1..lastId'
    BY <2>1
  <2>3. /\ users' = users /\ raced' = raced
        /\ \/ organizers' = organizers /\ organizations' = organizations
           \/ \E row \in OrganizerRow :
                /\ row.id = lastId'
                /\ organizers' = organizers \cup {row}
                /\ organizations' = organizations \cup {lastId'}
    BY <1>1, OwnerInserted
  <2>4. ASSUME organizers' = organizers, organizations' = organizations
        PROVE  TablesTyped'
    BY <2>1, <2>3, <2>4, AccountsAssumption DEF TInv, TypeOK, TablesTyped
  <2>5. ASSUME NEW row \in OrganizerRow, row.id = lastId',
               organizers' = organizers \cup {row}, organizations' = organizations \cup {lastId'}
        PROVE  TablesTyped'
    BY <2>1, <2>2, <2>3, <2>5, AccountsAssumption DEF TInv, TypeOK, TablesTyped
  <2>6. TablesTyped'
    BY <2>3, <2>4, <2>5
  <2> QED
    BY <1>1, <2>6, OwnerInserted, GotoKeepsRequests
       DEF Labels, Fits, PlainInserts, GoogleInserts, OwnerInserts
<1>2. CASE OwnerLink(w)
  <2>1. TablesTyped'
    BY <1>2, OwnerLinked DEF TInv, TypeOK, TablesTyped
  <2> QED
    BY <1>2, <2>1, OwnerLinked, GotoKeepsRequests
       DEF Labels, Fits, PlainInserts, GoogleInserts, OwnerInserts
<1> QED
  BY <1>1, <1>2

-----------------------------------------------------------------------------
LEMMA InitTypes == Init => TInv
<1> SUFFICES ASSUME Init PROVE TInv
  OBVIOUS
<1>1. pc \in [Workers -> Labels] /\ req \in [Workers -> Request]
  BY NoRequestType DEF Init, Labels
<1>2. RequestsFit
  BY DEF Init, RequestsFit, Fits, PlainInserts, GoogleInserts, OwnerInserts
<1>3. raced \in BOOLEAN
  BY Zenon DEF Init
<1>4. TablesTyped
  BY <1>3, AccountsAssumption DEF Init, TablesTyped
<1> QED
  BY <1>1, <1>2, <1>4, TInvParts

LEMMA NextKeepsTypes == TInv /\ [Next]_vars => TInv'
<1> SUFFICES ASSUME TInv, [Next]_vars PROVE TInv'
  OBVIOUS
<1>1. ASSUME NEW w \in Workers, WorkerStep(w) PROVE TInv'
  BY <1>1, StartsKeepTypes, ChecksKeepTypes, LookupsKeepTypes, RepliesKeepTypes,
     UserInsertsKeepTypes, UserUpdatesKeepTypes, OwnerWritesKeepTypes DEF WorkerStep
<1>2. CASE DeleteAccount
  <2>1. PICK w \in Workers : TRUE
    BY <1>2 DEF DeleteAccount, SomeWorkerFree
  <2> QED
    BY <1>2, <2>1, UserUpdatesKeepTypes
<1>3. CASE UNCHANGED vars
  BY <1>3 DEF TInv, TypeOK, RequestsFit, vars, tables, workers
<1> QED
  BY <1>1, <1>2, <1>3 DEF Next

\* Rows are complete and well typed, ids are never given out twice, and whoever
\* signed in with Google has a verified address, however requests interleave.
THEOREM TypeInvariant == Spec => []TypeOK
<1>1. TInv => TypeOK
  BY DEF TInv
<1> QED
  BY <1>1, InitTypes, NextKeepsTypes, PTL DEF Spec

-----------------------------------------------------------------------------
\* Every step but the insertion of an owner leaves the organizations, and their
\* accounts but for a Google subject.
LEMMA OrganizersStay ==
  ASSUME TInv, [Next]_vars, \A w \in Workers : ~OwnerInsert(w) /\ ~OwnerLink(w)
  PROVE  UNCHANGED <<organizers, organizations>>
<1>1. ASSUME NEW w \in Workers, WorkerStep(w)
      PROVE  UNCHANGED <<organizers, organizations>>
  <2>1. CASE \/ RegisterUser(w) \/ GuestJoin(w) \/ GoogleSignIn(w) \/ ChangePassword(w)
             \/ RegisterOwner(w) \/ OwnerGoogle(w)
    BY <2>1 DEF RegisterUser, GuestJoin, GoogleSignIn, ChangePassword, RegisterOwner, OwnerGoogle,
                Begin, tables
  <2>2. CASE \/ RegisterLookup(w) \/ GuestLookup(w) \/ OwnerLookup(w) \/ PasswordRead(w)
             \/ GoogleBySub(w) \/ GoogleByEmail(w) \/ GoogleReread(w) \/ OwnerRead(w)
             \/ Registered(w) \/ Answer(w) \/ OwnerAnswer(w) \/ Refused(w) \/ AbortRequest(w)
    BY <2>2 DEF RegisterLookup, GuestLookup, OwnerLookup, PasswordRead, GoogleBySub, GoogleByEmail,
                GoogleReread, OwnerRead, Registered, Answer, OwnerAnswer, Refused, AbortRequest,
                Check, Found, OnlyRead, tables
  <2>3. CASE RegisterInsert(w) \/ GuestInsert(w) \/ GoogleInsert(w)
    BY <2>3, UserInserted
  <2>4. CASE GoogleLink(w) \/ PasswordWrite(w)
    BY <2>4, UserUpdated
  <2> QED
    BY <1>1, <2>1, <2>2, <2>3, <2>4 DEF WorkerStep
<1>2. CASE DeleteAccount
  BY <1>2, UserUpdated
<1>3. CASE UNCHANGED vars
  BY <1>3 DEF vars, tables
<1> QED
  BY <1>1, <1>2, <1>3 DEF Next

\* However registrations, links and failures interleave, no organization is left
\* without an account.
THEOREM OrganizationsAlwaysHaveOwner == Spec => []OrganizationsHaveOwner
<1>1. Init => OrganizationsHaveOwner
  BY DEF Init, OrganizationsHaveOwner
<1>2. TInv /\ OrganizationsHaveOwner /\ [Next]_vars => OrganizationsHaveOwner'
  <2> SUFFICES ASSUME TInv, OrganizationsHaveOwner, [Next]_vars
               PROVE  OrganizationsHaveOwner'
    OBVIOUS
  <2>1. ASSUME NEW w \in Workers, OwnerInsert(w) PROVE OrganizationsHaveOwner'
    BY <2>1, OwnerInserted DEF OrganizationsHaveOwner
  <2>2. ASSUME NEW w \in Workers, OwnerLink(w) PROVE OrganizationsHaveOwner'
    BY <2>2, OwnerLinked DEF OrganizationsHaveOwner
  <2>3. CASE UNCHANGED <<organizers, organizations>>
    BY <2>3 DEF OrganizationsHaveOwner
  <2> QED
    BY <2>1, <2>2, <2>3, OrganizersStay
<1> QED
  BY <1>1, <1>2, InitTypes, NextKeepsTypes, PTL DEF Spec

-----------------------------------------------------------------------------
\* An account that appears in a step has an id that was never given out before.
LEMMA NewAccountsAreNew ==
  ASSUME TInv, [Next]_vars, NEW v \in users'
  PROVE  v.id > lastId \/ \E u \in users : u.id = v.id
<1>1. ASSUME NEW w \in Workers, WorkerStep(w)
      PROVE  v.id > lastId \/ \E u \in users : u.id = v.id
  <2>1. CASE \/ RegisterUser(w) \/ GuestJoin(w) \/ GoogleSignIn(w) \/ ChangePassword(w)
             \/ RegisterOwner(w) \/ OwnerGoogle(w)
    BY <2>1 DEF RegisterUser, GuestJoin, GoogleSignIn, ChangePassword, RegisterOwner, OwnerGoogle,
                Begin, tables
  <2>2. CASE \/ RegisterLookup(w) \/ GuestLookup(w) \/ OwnerLookup(w) \/ PasswordRead(w)
             \/ GoogleBySub(w) \/ GoogleByEmail(w) \/ GoogleReread(w) \/ OwnerRead(w)
             \/ Registered(w) \/ Answer(w) \/ OwnerAnswer(w) \/ Refused(w) \/ AbortRequest(w)
    BY <2>2 DEF RegisterLookup, GuestLookup, OwnerLookup, PasswordRead, GoogleBySub, GoogleByEmail,
                GoogleReread, OwnerRead, Registered, Answer, OwnerAnswer, Refused, AbortRequest,
                Check, Found, OnlyRead, tables
  <2>3. CASE RegisterInsert(w) \/ GuestInsert(w) \/ GoogleInsert(w)
    BY <2>3, UserInserted, NewIdIsNew
  <2>4. CASE GoogleLink(w) \/ PasswordWrite(w)
    BY <2>4, UserUpdated
  <2>5. CASE OwnerInsert(w)
    BY <2>5, OwnerInserted
  <2>6. CASE OwnerLink(w)
    BY <2>6, OwnerLinked
  <2> QED
    BY <1>1, <2>1, <2>2, <2>3, <2>4, <2>5, <2>6 DEF WorkerStep
<1>2. CASE DeleteAccount
  BY <1>2, UserUpdated
<1>3. CASE UNCHANGED vars
  BY <1>3 DEF vars, tables
<1> QED
  BY <1>1, <1>2, <1>3 DEF Next

\* However late a request writes, it brings no deleted account back.
THEOREM DeletionIsForGood == Spec => DeletedForGood
<1>1. TInv /\ [Next]_vars =>
        [\A v \in users' : v.id > lastId \/ \E u \in users : u.id = v.id]_vars
  BY NewAccountsAreNew
<1> QED
  BY <1>1, InitTypes, NextKeepsTypes, PTL DEF Spec, DeletedForGood

-------------------------------------------------------------------------------
(***************************************************************************)
(* Proofs about Accounts while requests run one at a time, for any number  *)
(* of requests, addresses, passwords and accounts: OneOwnerPerEmail,       *)
(* GoogleAnswersItsAccount and PasswordNeedsCurrent.  A handler looks an   *)
(* account up, writes it and reads it again in statements of their own, so *)
(* what it found has to stay true from one to the next (NothingStale); and *)
(* the account that it reads again is the one that it wrote because ids    *)
(* and addresses are unique (Unique), also when requests interleave.       *)
(***************************************************************************)

\* Until requests have overlapped, one is in flight at most.
Alone == ~raced => \A v, w \in Workers : ~Idle(v) /\ ~Idle(w) => v = w

\* Two rows of attendees share neither an id nor an address.
Unique == \A u, v \in users : u.id = v.id \/ u.email = v.email => u = v

\* What the request r has found by statement l.
Knows(l, r) ==
  /\ l = "google_sub" => r.sub \in Subs
  /\ l = "google_link" => \E u \in users : u.id = r.id /\ u.email = r.email
  /\ l = "google_reread" =>
       \E u \in users : u.email = r.email /\ u.sub = r.sub /\ u.verified
  /\ l = "answer" => \E u \in users : u.id = r.id /\ u.sub = r.sub /\ u.verified
  /\ l = "password_write" => \E u \in users : u.id = r.id /\ u.password = r.password
  /\ l = "owner_insert" => OrganizerByEmail(r.email) = {}
  /\ l = "owner_link" => \E o \in organizers : o.id = r.id
  /\ l = "owner_answer" => \E o \in organizers : o.id = r.id /\ o.sub = r.sub

NothingStale == ~raced => \A w \in Workers : Knows(pc[w], req[w])

Informed == {"google_sub", "google_link", "google_reread", "answer", "password_write",
             "owner_insert", "owner_link", "owner_answer"}

Serial == Unique /\ OneOwnerPerEmail /\ Alone /\ NothingStale

SInv == TInv /\ Serial

-----------------------------------------------------------------------------
(* Moves                                                                   *)

LEMMA Moves ==
  ASSUME TInv, NEW w \in Workers, NEW l, NEW r, Step(w, l, r)
  PROVE  \A v \in Workers : /\ pc'[v] = IF v = w THEN l ELSE pc[v]
                            /\ req'[v] = IF v = w THEN r ELSE req[v]
BY DEF TInv, TypeOK, Step

LEMMA GotoMoves ==
  ASSUME TInv, NEW w \in Workers, NEW l, Goto(w, l)
  PROVE  Step(w, l, req[w])
BY DEF TInv, TypeOK, Goto, Step

\* The others are idle and know nothing, so only the worker that moves matters.
LEMMA MoveStaysFresh ==
  ASSUME SInv, NEW w \in Workers, ~Idle(w), NEW l, NEW r, Step(w, l, r),
         UNCHANGED raced, ~raced => Knows(l, r)'
  PROVE  Alone' /\ NothingStale'
<1>1. \A v \in Workers : /\ pc'[v] = IF v = w THEN l ELSE pc[v]
                         /\ req'[v] = IF v = w THEN r ELSE req[v]
  BY Moves DEF SInv
<1>2. Alone'
  BY <1>1 DEF SInv, Serial, Alone, Idle
<1>3. ASSUME NEW v \in Workers, ~raced, v # w
      PROVE  Knows(pc[v], req[v])'
  <2>1. pc'[v] = "idle"
    BY <1>1, <1>3 DEF SInv, Serial, Alone, Idle
  <2> QED BY <2>1 DEF Knows
<1>4. ~raced => Knows(pc[w], req[w])'
  BY <1>1
<1> QED BY <1>2, <1>3, <1>4 DEF NothingStale

\* A read: the rows stay, and the request knows what it has read.
LEMMA ReadStaysFresh ==
  ASSUME SInv, OnlyRead, NEW w \in Workers, ~Idle(w), NEW l, NEW r, Step(w, l, r),
         ~raced => Knows(l, r)
  PROVE  Serial'
<1>1. UNCHANGED <<users, organizers, raced>>
  BY DEF OnlyRead, tables
<1>2. ~raced => Knows(l, r)'
  BY <1>1 DEF Knows, OrganizerByEmail
<1>3. Unique' /\ OneOwnerPerEmail'
  BY <1>1 DEF SInv, Serial, Unique, OneOwnerPerEmail
<1> QED BY <1>1, <1>2, <1>3, MoveStaysFresh DEF Serial

\* At most statements a request has found nothing that it relies on.
LEMMA KnowsNothing ==
  ASSUME NEW l, l \notin Informed, NEW r
  PROVE  Knows(l, r) /\ Knows(l, r)'
BY DEF Knows, Informed

LEMMA PlainReadStaysFresh ==
  ASSUME SInv, OnlyRead, NEW w \in Workers, ~Idle(w), NEW l, NEW r, Step(w, l, r),
         l \notin Informed
  PROVE  Serial'
BY KnowsNothing, ReadStaysFresh

\* A request that starts while another is in flight counts as racing.
LEMMA BeginStaysFresh ==
  ASSUME SInv, NEW w \in Workers,
         RegisterUser(w) \/ GuestJoin(w) \/ GoogleSignIn(w) \/ ChangePassword(w)
         \/ RegisterOwner(w) \/ OwnerGoogle(w)
  PROVE  Serial'
<1>1. PICK l, r : /\ Begin(w, l, r)
                  /\ l \in Informed => l = "google_sub" /\ r.sub \in Subs
  <2>1. CASE GoogleSignIn(w)
    <3>1. PICK p \in Profiles :
            Begin(w, "google_sub", [NoRequest EXCEPT !.email = p.email, !.sub = p.sub])
      BY <2>1 DEF GoogleSignIn
    <3>2. [NoRequest EXCEPT !.email = p.email, !.sub = p.sub].sub = p.sub
      BY DEF NoRequest
    <3> QED BY <3>1, <3>2 DEF Subs
  <2>2. CASE RegisterUser(w) \/ GuestJoin(w) \/ ChangePassword(w) \/ RegisterOwner(w)
             \/ OwnerGoogle(w)
    <3>1. \E l \in {"register_lookup", "guest_lookup", "password_read", "owner_lookup", "owner_read"} :
             \E r : Begin(w, l, r)
      <4>1. CASE RegisterUser(w)
        BY <4>1 DEF RegisterUser
      <4>2. CASE GuestJoin(w)
        BY <4>2 DEF GuestJoin
      <4>3. CASE ChangePassword(w)
        BY <4>3 DEF ChangePassword
      <4>4. CASE RegisterOwner(w)
        BY <4>4 DEF RegisterOwner
      <4>5. CASE OwnerGoogle(w)
        BY <4>5 DEF OwnerGoogle
      <4> QED BY <2>2, <4>1, <4>2, <4>3, <4>4, <4>5
    <3> QED BY <3>1 DEF Informed
  <2> QED BY <2>1, <2>2
<1>2. UNCHANGED <<users, organizers>>
  BY <1>1 DEF Begin, tables
<1>3. /\ raced => raced'
      /\ ~raced' => \A v \in Workers : Idle(v)
  BY <1>1 DEF Begin, Overlap
<1>4. \A v \in Workers : /\ pc'[v] = IF v = w THEN l ELSE pc[v]
                         /\ req'[v] = IF v = w THEN r ELSE req[v]
  BY <1>1, Moves DEF Begin, Start, SInv
<1>5. Alone'
  BY <1>3, <1>4 DEF Alone, Idle
<1>6. NothingStale'
  BY <1>1, <1>3, <1>4 DEF NothingStale, Knows, Idle, Informed
<1>7. Unique' /\ OneOwnerPerEmail'
  BY <1>2, <1>3 DEF SInv, Serial, Unique, OneOwnerPerEmail
<1> QED BY <1>5, <1>6, <1>7 DEF Serial

-----------------------------------------------------------------------------
(* Reads                                                                   *)

LEMMA ChecksStayFresh ==
  ASSUME SInv, NEW w \in Workers,
         RegisterLookup(w) \/ GuestLookup(w) \/ OwnerLookup(w) \/ PasswordRead(w)
  PROVE  Serial'
<1>1. ~Idle(w) /\ OnlyRead
  BY DEF RegisterLookup, GuestLookup, OwnerLookup, PasswordRead, Check, At, Idle
<1>2. \/ Reply(w) \/ Goto(w, "register_insert") \/ Goto(w, "guest_insert")
      \/ Goto(w, "owner_insert") /\ OrganizerByEmail(req[w].email) = {}
      \/ /\ Goto(w, "password_write")
         /\ \E u \in users : u.id = req[w].id /\ u.password = req[w].password
  BY DEF RegisterLookup, GuestLookup, OwnerLookup, PasswordRead, Check
<1>3. \E l, r : Step(w, l, r) /\ Knows(l, r)
  <2>1. CASE Reply(w)
    BY <2>1, KnowsNothing DEF Reply, Informed
  <2>2. ASSUME NEW l, Goto(w, l), Knows(l, req[w]) PROVE \E m, r : Step(w, m, r) /\ Knows(m, r)
    BY <2>2, GotoMoves DEF SInv
  <2> QED BY <1>2, <2>1, <2>2 DEF Knows
<1> QED BY <1>1, <1>3, ReadStaysFresh

\* The subject that signed in is not the empty string, so its account is verified;
\* the account of an address has the subject because addresses are unique.
LEMMA LookupsStayFresh ==
  ASSUME SInv, NEW w \in Workers,
         GoogleBySub(w) \/ GoogleByEmail(w) \/ GoogleReread(w) \/ OwnerRead(w)
  PROVE  Serial'
<1>0. PICK r : r = req[w]
  OBVIOUS
<1>1. ~Idle(w) /\ OnlyRead
  BY DEF GoogleBySub, GoogleByEmail, GoogleReread, OwnerRead, Found, At, Idle
<1>2. r \in Request
  BY <1>0 DEF SInv, TInv, TypeOK
<1>3. \A n, s : s = [r EXCEPT !.id = n] => s.id = n /\ s.email = r.email /\ s.sub = r.sub
  BY <1>2 DEF Request
<1>4. ~raced => Knows(pc[w], r)
  BY <1>0 DEF SInv, Serial, NothingStale
<1>5. ASSUME GoogleBySub(w) PROVE \E l, s : Step(w, l, s) /\ (~raced => Knows(l, s))
  <2>1. CASE Goto(w, "google_email")
    BY <2>1, GotoMoves, KnowsNothing DEF SInv, Informed
  <2>2. ASSUME NEW u \in users, u.sub = r.sub, Step(w, "answer", [r EXCEPT !.id = u.id])
        PROVE  \E l, s : Step(w, l, s) /\ (~raced => Knows(l, s))
    <3>1. ~raced => u.verified
      BY <1>4, <1>5, <2>2, AccountsAssumption DEF GoogleBySub, At, Knows, SInv, TInv, TypeOK
    <3>2. PICK s : s = [r EXCEPT !.id = u.id]
      OBVIOUS
    <3>3. s.id = u.id /\ s.sub = r.sub
      BY <1>3, <3>2
    <3>4. ~raced => Knows("answer", s)
      BY <2>2, <3>1, <3>3 DEF Knows
    <3>5. Step(w, "answer", s)
      BY <2>2, <3>2
    <3> QED BY <3>4, <3>5
  <2> QED BY <1>0, <1>5, <2>1, <2>2 DEF GoogleBySub, Found
<1>6. ASSUME GoogleByEmail(w) PROVE \E l, s : Step(w, l, s) /\ (~raced => Knows(l, s))
  <2>1. CASE Goto(w, "google_insert")
    BY <2>1, GotoMoves, KnowsNothing DEF SInv, Informed
  <2>2. ASSUME NEW u \in users, u.email = r.email, Step(w, "google_link", [r EXCEPT !.id = u.id])
        PROVE  \E l, s : Step(w, l, s) /\ (~raced => Knows(l, s))
    <3>1. PICK s : s = [r EXCEPT !.id = u.id]
      OBVIOUS
    <3>2. s.id = u.id /\ s.email = r.email
      BY <1>3, <3>1
    <3>3. ~raced => Knows("google_link", s)
      BY <2>2, <3>2 DEF Knows
    <3>4. Step(w, "google_link", s)
      BY <2>2, <3>1
    <3> QED BY <3>3, <3>4
  <2> QED BY <1>0, <1>6, <2>1, <2>2 DEF GoogleByEmail, Found, UserByEmail
<1>7. ASSUME GoogleReread(w) PROVE \E l, s : Step(w, l, s) /\ (~raced => Knows(l, s))
  <2>1. CASE Reply(w)
    BY <2>1, KnowsNothing DEF Reply, Informed
  <2>2. ASSUME NEW u \in users, u.email = r.email, Step(w, "answer", [r EXCEPT !.id = u.id])
        PROVE  \E l, s : Step(w, l, s) /\ (~raced => Knows(l, s))
    <3>1. ~raced => u.sub = r.sub /\ u.verified
      BY <1>4, <1>7, <2>2 DEF GoogleReread, At, Knows, SInv, Serial, Unique
    <3>2. PICK s : s = [r EXCEPT !.id = u.id]
      OBVIOUS
    <3>3. s.id = u.id /\ s.sub = r.sub
      BY <1>3, <3>2
    <3>4. ~raced => Knows("answer", s)
      BY <2>2, <3>1, <3>3 DEF Knows
    <3>5. Step(w, "answer", s)
      BY <2>2, <3>2
    <3> QED BY <3>4, <3>5
  <2> QED BY <1>0, <1>7, <2>1, <2>2 DEF GoogleReread, Found, UserByEmail
<1>8. ASSUME OwnerRead(w) PROVE \E l, s : Step(w, l, s) /\ (~raced => Knows(l, s))
  <2>1. CASE Reply(w)
    BY <2>1, KnowsNothing DEF Reply, Informed
  <2>2. ASSUME NEW o \in organizers, Step(w, "owner_link", [r EXCEPT !.id = o.id])
        PROVE  \E l, s : Step(w, l, s) /\ (~raced => Knows(l, s))
    <3>1. PICK s : s = [r EXCEPT !.id = o.id]
      OBVIOUS
    <3>2. s.id = o.id
      BY <1>3, <3>1
    <3>3. ~raced => Knows("owner_link", s)
      BY <2>2, <3>2 DEF Knows
    <3>4. Step(w, "owner_link", s)
      BY <2>2, <3>1
    <3> QED BY <3>3, <3>4
  <2> QED BY <1>0, <1>8, <2>1, <2>2 DEF OwnerRead, Found, OrganizerByEmail
<1> QED BY <1>1, <1>5, <1>6, <1>7, <1>8, ReadStaysFresh

LEMMA RepliesStayFresh ==
  ASSUME SInv, NEW w \in Workers,
         Registered(w) \/ Answer(w) \/ OwnerAnswer(w) \/ Refused(w) \/ AbortRequest(w)
  PROVE  Serial'
<1>1. ~Idle(w) /\ OnlyRead /\ Step(w, "idle", NoRequest)
  BY DEF Registered, Answer, OwnerAnswer, Refused, AbortRequest, At, Idle, Reply
<1> QED BY <1>1, PlainReadStaysFresh DEF Informed

-----------------------------------------------------------------------------
(* Writes                                                                  *)

\* The row fits the unique index of addresses, and its id is new.
LEMMA UserInsertsStayFresh ==
  ASSUME SInv, NEW w \in Workers, RegisterInsert(w) \/ GuestInsert(w) \/ GoogleInsert(w)
  PROVE  Serial'
<1>0. PICK r : r = req[w]
  OBVIOUS
<1>1. PICK verified \in BOOLEAN, next \in {"registered", "answer"} :
        InsertUser(w, verified, next) /\ (next = "answer" => verified)
  BY DEF RegisterInsert, GuestInsert, GoogleInsert
<1>2. ~Idle(w) /\ UNCHANGED <<organizers, raced>> /\ NewId
  BY <1>1 DEF InsertUser, RegisterInsert, GuestInsert, GoogleInsert, At, Idle
<1>3. OneOwnerPerEmail'
  BY <1>2 DEF SInv, Serial, OneOwnerPerEmail
<1>4. CASE Goto(w, "refused") /\ UNCHANGED users
  <2>1. Unique'
    BY <1>4 DEF SInv, Serial, Unique
  <2>2. Step(w, "refused", req[w])
    BY <1>4, GotoMoves DEF SInv
  <2>3. Alone' /\ NothingStale'
    BY <1>2, <2>2, KnowsNothing, MoveStaysFresh DEF Informed
  <2> QED BY <1>3, <2>1, <2>3 DEF Serial
<1>5. ASSUME FitsUsers(NewUser(r, verified)), users' = users \cup {NewUser(r, verified)},
             Step(w, next, [r EXCEPT !.id = lastId'])
      PROVE  Serial'
  <2>1. PICK s : s = [r EXCEPT !.id = lastId']
    OBVIOUS
  <2>2. s.id = lastId' /\ s.sub = r.sub
    BY <1>0, <2>1 DEF SInv, TInv, TypeOK, Request
  <2>3. PICK row : row = NewUser(r, verified)
    OBVIOUS
  <2>4. row.id = lastId' /\ row.email = r.email /\ row.sub = r.sub /\ row.verified = verified
    BY <2>3 DEF NewUser
  <2>5. \A u \in users : u.id # row.id /\ u.email # row.email
    <3> SUFFICES ASSUME NEW u \in users PROVE u.id # row.id /\ u.email # row.email
      OBVIOUS
    <3>1. u.id \in 1..lastId /\ lastId \in Nat /\ lastId' = lastId + 1
      BY <1>2 DEF SInv, TInv, TypeOK, NewId
    <3> QED BY <3>1, <1>5, <2>3, <2>4 DEF FitsUsers
  <2>6. Unique'
    BY <1>5, <2>3, <2>5 DEF SInv, Serial, Unique
  <2>7. Knows(next, s)'
    BY <1>1, <1>5, <2>2, <2>3, <2>4 DEF Knows
  <2>8. Alone' /\ NothingStale'
    BY <1>2, <1>5, <2>1, <2>7, MoveStaysFresh
  <2> QED BY <1>3, <2>6, <2>8 DEF Serial
<1> QED BY <1>0, <1>1, <1>4, <1>5 DEF InsertUser

\* An UPDATE, as a function from the rows before to the rows after, that keeps ids
\* and addresses.
LEMMA UpdateKeepsUnique ==
  ASSUME Unique, NEW f, users' = {f[u] : u \in users},
         \A u \in users : f[u].id = u.id /\ f[u].email = u.email
  PROVE  Unique'
<1> SUFFICES ASSUME NEW v \in users', NEW x \in users', v.id = x.id \/ v.email = x.email
             PROVE  v = x
  BY DEF Unique
<1>1. PICK u \in users, t \in users : v = f[u] /\ x = f[t]
  OBVIOUS
<1> QED BY <1>1 DEF Unique

LEMMA GoogleLinkStaysFresh ==
  ASSUME SInv, NEW w \in Workers, GoogleLink(w)
  PROVE  Serial'
<1>0. PICK r : r = req[w]
  OBVIOUS
<1>1. ~Idle(w) /\ pc[w] = "google_link" /\ UNCHANGED <<organizers, raced>>
  BY DEF GoogleLink, At, Idle
<1>2. OneOwnerPerEmail'
  BY <1>1 DEF SInv, Serial, OneOwnerPerEmail
<1>3. CASE Goto(w, "refused") /\ UNCHANGED users
  <2>1. Unique'
    BY <1>3 DEF SInv, Serial, Unique
  <2>2. Step(w, "refused", req[w])
    BY <1>3, GotoMoves DEF SInv
  <2>3. Alone' /\ NothingStale'
    BY <1>1, <2>2, KnowsNothing, MoveStaysFresh DEF Informed
  <2> QED BY <1>2, <2>1, <2>3 DEF Serial
<1>4. ASSUME users' = {IF u.id = r.id THEN [u EXCEPT !.sub = r.sub, !.verified = TRUE] ELSE u :
                         u \in users},
             Goto(w, "google_reread")
      PROVE  Serial'
  <2>1. PICK f : f = [u \in users |->
                        IF u.id = r.id THEN [u EXCEPT !.sub = r.sub, !.verified = TRUE] ELSE u]
    OBVIOUS
  <2>2. users' = {f[u] : u \in users}
    BY <1>4, <2>1
  <2>3. \A u \in users : /\ f[u].id = u.id /\ f[u].email = u.email
                         /\ u.id = r.id => f[u].sub = r.sub /\ f[u].verified
    BY <2>1 DEF SInv, TInv, TypeOK, UserRow
  <2>4. Unique'
    BY <2>2, <2>3, UpdateKeepsUnique DEF SInv, Serial
  <2>5. Step(w, "google_reread", r)
    BY <1>0, <1>4, GotoMoves DEF SInv
  <2>6. ~raced => \E u \in users : u.id = r.id /\ u.email = r.email
    BY <1>0, <1>1 DEF SInv, Serial, NothingStale, Knows
  <2>7. ~raced => Knows("google_reread", r)'
    BY <2>2, <2>3, <2>6 DEF Knows
  <2>8. Alone' /\ NothingStale'
    BY <1>1, <2>5, <2>7, MoveStaysFresh
  <2> QED BY <1>2, <2>4, <2>8 DEF Serial
<1> QED BY <1>0, <1>3, <1>4 DEF GoogleLink

\* The rows that a new password leaves: those of the other accounts as they are.
LEMMA PasswordRows ==
  ASSUME SInv, NEW w \in Workers, PasswordWrite(w)
  PROVE  /\ Unique'
         /\ \A v \in users' : \E u \in users :
              u.id = v.id /\ (u.id # req[w].id => v.password = u.password)
<1>1. PICK f : f = [u \in users |->
                      IF u.id = req[w].id THEN [u EXCEPT !.password = req[w].new] ELSE u]
  OBVIOUS
<1>2. users' = {f[u] : u \in users}
  BY <1>1 DEF PasswordWrite
<1>3. \A u \in users : /\ f[u].id = u.id /\ f[u].email = u.email
                       /\ u.id # req[w].id => f[u].password = u.password
  BY <1>1 DEF SInv, TInv, TypeOK, UserRow
<1> QED BY <1>2, <1>3, UpdateKeepsUnique DEF SInv, Serial

LEMMA PasswordWriteStaysFresh ==
  ASSUME SInv, NEW w \in Workers, PasswordWrite(w)
  PROVE  Serial'
<1>1. ~Idle(w) /\ UNCHANGED <<organizers, raced>> /\ Step(w, "idle", NoRequest)
  BY DEF PasswordWrite, At, Idle, Reply
<1>2. Alone' /\ NothingStale'
  BY <1>1, KnowsNothing, MoveStaysFresh DEF Informed
<1>3. OneOwnerPerEmail'
  BY <1>1 DEF SInv, Serial, OneOwnerPerEmail
<1> QED BY <1>2, <1>3, PasswordRows DEF Serial

\* Only the look-up keeps the address unique: no index does.
LEMMA OwnerInsertStaysFresh ==
  ASSUME SInv, NEW w \in Workers, OwnerInsert(w)
  PROVE  Serial'
<1>1. ~Idle(w) /\ pc[w] = "owner_insert" /\ UNCHANGED <<users, raced>>
  BY DEF OwnerInsert, At, Idle
<1>2. Unique'
  BY <1>1 DEF SInv, Serial, Unique
<1>3. \E l \in {"registered", "refused"} : Step(w, l, req[w])
  BY GotoMoves DEF OwnerInsert, SInv
<1>4. Alone' /\ NothingStale'
  BY <1>1, <1>3, KnowsNothing, MoveStaysFresh DEF Informed
<1>5. ~raced => \A o \in organizers : o.email # req[w].email
  BY <1>1 DEF SInv, Serial, NothingStale, Knows, OrganizerByEmail
<1>6. OneOwnerPerEmail'
  <2>1. CASE UNCHANGED organizers
    BY <1>1, <2>1 DEF SInv, Serial, OneOwnerPerEmail
  <2>2. ASSUME NEW row, row.email = req[w].email, organizers' = organizers \cup {row}
        PROVE  OneOwnerPerEmail'
    BY <1>1, <1>5, <2>2 DEF SInv, Serial, OneOwnerPerEmail
  <2>3. NewOrganizer(req[w]).email = req[w].email
    BY DEF NewOrganizer
  <2> QED BY <2>1, <2>2, <2>3 DEF OwnerInsert
<1> QED BY <1>2, <1>4, <1>6 DEF Serial

LEMMA OwnerLinkStaysFresh ==
  ASSUME SInv, NEW w \in Workers, OwnerLink(w)
  PROVE  Serial'
<1>0. PICK r : r = req[w]
  OBVIOUS
<1>1. ~Idle(w) /\ pc[w] = "owner_link" /\ UNCHANGED <<users, raced>>
  BY DEF OwnerLink, At, Idle
<1>2. Unique'
  BY <1>1 DEF SInv, Serial, Unique
<1>3. CASE Goto(w, "refused") /\ UNCHANGED organizers
  <2>1. OneOwnerPerEmail'
    BY <1>1, <1>3 DEF SInv, Serial, OneOwnerPerEmail
  <2>2. Step(w, "refused", req[w])
    BY <1>3, GotoMoves DEF SInv
  <2>3. Alone' /\ NothingStale'
    BY <1>1, <2>2, KnowsNothing, MoveStaysFresh DEF Informed
  <2> QED BY <1>2, <2>1, <2>3 DEF Serial
<1>4. ASSUME organizers' = {IF o.id = r.id THEN [o EXCEPT !.sub = r.sub] ELSE o : o \in organizers},
             Goto(w, "owner_answer")
      PROVE  Serial'
  <2>1. PICK f : f = [o \in organizers |-> IF o.id = r.id THEN [o EXCEPT !.sub = r.sub] ELSE o]
    OBVIOUS
  <2>2. organizers' = {f[o] : o \in organizers}
    BY <1>4, <2>1
  <2>3. \A o \in organizers : /\ f[o].id = o.id /\ f[o].email = o.email
                              /\ o.id = r.id => f[o].sub = r.sub
    BY <2>1 DEF SInv, TInv, TypeOK, OrganizerRow
  <2>4. OneOwnerPerEmail'
    <3> SUFFICES ASSUME ~raced, NEW o \in organizers', NEW p \in organizers', o.email = p.email
                 PROVE  o = p
      BY <1>1 DEF OneOwnerPerEmail
    <3>1. PICK a \in organizers, b \in organizers : o = f[a] /\ p = f[b]
      BY <2>2
    <3> QED BY <2>3, <3>1 DEF SInv, Serial, OneOwnerPerEmail
  <2>5. Step(w, "owner_answer", r)
    BY <1>0, <1>4, GotoMoves DEF SInv
  <2>6. ~raced => \E o \in organizers : o.id = r.id
    BY <1>0, <1>1 DEF SInv, Serial, NothingStale, Knows
  <2>7. ~raced => Knows("owner_answer", r)'
    BY <2>2, <2>3, <2>6 DEF Knows
  <2>8. Alone' /\ NothingStale'
    BY <1>1, <2>5, <2>7, MoveStaysFresh
  <2> QED BY <1>2, <2>4, <2>8 DEF Serial
<1> QED BY <1>0, <1>3, <1>4 DEF OwnerLink

\* A deletion is a request too: whoever is in flight races with it.
LEMMA DeleteStaysFresh ==
  ASSUME SInv, DeleteAccount
  PROVE  Serial'
<1>1. /\ users' \subseteq users /\ UNCHANGED <<organizers, pc, req>>
      /\ raced => raced'
      /\ ~raced' => \A w \in Workers : pc[w] = "idle"
  BY DEF DeleteAccount, Overlap, Idle, workers
<1>2. Unique' /\ OneOwnerPerEmail'
  BY <1>1 DEF SInv, Serial, Unique, OneOwnerPerEmail
<1>3. Alone' /\ NothingStale'
  BY <1>1 DEF Alone, Idle, NothingStale, Knows
<1> QED BY <1>2, <1>3 DEF Serial

-----------------------------------------------------------------------------
(* The specification                                                       *)

LEMMA Freshness == Spec => []SInv
<1>1. Init => Serial
  BY DEF Init, Serial, Unique, OneOwnerPerEmail, Alone, Idle, NothingStale, Knows
<1>2. SInv /\ [Next]_vars => Serial'
  <2> SUFFICES ASSUME SInv, [Next]_vars PROVE Serial'
    OBVIOUS
  <2>1. ASSUME NEW w \in Workers, WorkerStep(w) PROVE Serial'
    BY <2>1, BeginStaysFresh, ChecksStayFresh, LookupsStayFresh, RepliesStayFresh,
       UserInsertsStayFresh, GoogleLinkStaysFresh, PasswordWriteStaysFresh,
       OwnerInsertStaysFresh, OwnerLinkStaysFresh DEF WorkerStep
  <2>2. CASE UNCHANGED vars
    BY <2>2 DEF vars, tables, workers, SInv, Serial, Unique, OneOwnerPerEmail, Alone, Idle,
                NothingStale, Knows, OrganizerByEmail
  <2> QED BY <2>1, <2>2, DeleteStaysFresh DEF Next
<1>3. SInv <=> TInv /\ Serial
  BY DEF SInv
<1> QED BY <1>1, <1>2, <1>3, InitTypes, NextKeepsTypes, PTL DEF Spec

\* As long as requests run one at a time, two organizations never have an owner
\* with the same address, although no index forbids it.
THEOREM OwnersHaveOwnEmail == Spec => []OneOwnerPerEmail
<1>1. SInv => OneOwnerPerEmail
  BY DEF SInv, Serial
<1> QED BY <1>1, Freshness, PTL

\* As long as requests run one at a time, whichever way a Google sign-in went, its
\* token is for a verified account that has the subject that signed in.
THEOREM GoogleSignsInItsAccount == Spec => []GoogleAnswersItsAccount
<1>1. SInv => GoogleAnswersItsAccount
  BY DEF SInv, Serial, NothingStale, Knows, GoogleAnswersItsAccount
<1> QED BY <1>1, Freshness, PTL

\* As long as requests run one at a time, a signed-in change replaces the password
\* only of an account whose password the request knew.
THEOREM PasswordChangeNeedsCurrent == Spec => PasswordNeedsCurrent
<1> DEFINE Known ==
      ~raced => \A u \in users, v \in users' : u.id = v.id /\ u.password # v.password =>
        \E w \in Workers : req[w].id = u.id /\ req[w].password = u.password
<1>1. SInv /\ [Next]_vars => [Known]_vars
  <2> SUFFICES ASSUME SInv, Next, ~raced, NEW u \in users, NEW v \in users',
                      u.id = v.id, u.password # v.password
               PROVE  \E w \in Workers : req[w].id = u.id /\ req[w].password = u.password
    OBVIOUS
  <2>1. \A t \in users : t.id = u.id => t = u
    BY DEF SInv, Serial, Unique
  <2>2. ASSUME NEW w \in Workers, PasswordWrite(w)
        PROVE  req[w].id = u.id /\ req[w].password = u.password
    <3>1. PICK t \in users : t.id = v.id /\ (t.id # req[w].id => v.password = t.password)
      BY <2>2, PasswordRows
    <3>2. req[w].id = u.id
      BY <2>1, <3>1
    <3>3. \E s \in users : s.id = req[w].id /\ s.password = req[w].password
      BY <2>2 DEF PasswordWrite, At, SInv, Serial, NothingStale, Knows
    <3> QED BY <2>1, <3>2, <3>3
  <2>3. ASSUME NEW w \in Workers, GoogleLink(w) PROVE FALSE
    <3>1. \/ v \in users
          \/ \E t \in users : v = t \/ v = [t EXCEPT !.sub = req[w].sub, !.verified = TRUE]
      BY <2>3 DEF GoogleLink
    <3>2. \A t \in users : LET m == [t EXCEPT !.sub = req[w].sub, !.verified = TRUE]
                          IN  m.id = t.id /\ m.password = t.password
      BY DEF SInv, TInv, TypeOK, UserRow
    <3>3. \E t \in users : v.id = t.id /\ v.password = t.password
      BY <3>1, <3>2
    <3> QED BY <2>1, <3>3
  <2>4. ASSUME NEW w \in Workers, RegisterInsert(w) \/ GuestInsert(w) \/ GoogleInsert(w)
        PROVE  FALSE
    <3>1. v \in users \/ v.id = lastId'
      BY <2>4 DEF RegisterInsert, GuestInsert, GoogleInsert, InsertUser, NewUser
    <3>2. lastId' = lastId + 1
      BY <2>4 DEF RegisterInsert, GuestInsert, GoogleInsert, InsertUser, NewId
    <3>3. u.id \in 1..lastId /\ lastId \in Nat
      BY DEF SInv, TInv, TypeOK
    <3> QED BY <2>1, <3>1, <3>2, <3>3
  <2>5. CASE users' \subseteq users
    BY <2>1, <2>5
  <2> QED
    BY <2>2, <2>3, <2>4, <2>5
       DEF Next, WorkerStep, RegisterUser, GuestJoin, GoogleSignIn, ChangePassword, RegisterOwner,
           OwnerGoogle, Begin, RegisterLookup, GuestLookup, OwnerLookup, PasswordRead, Check,
           GoogleBySub, GoogleByEmail, GoogleReread, OwnerRead, Found, Registered, Answer,
           OwnerAnswer, Refused, AbortRequest, OnlyRead, tables, OwnerInsert, OwnerLink,
           DeleteAccount
<1> QED BY <1>1, Freshness, PTL DEF Spec, PasswordNeedsCurrent

-----------------------------------------------------------------------------
(***************************************************************************)
(* Proofs about RouteGuards, for any number of requests, accounts, events, *)
(* organizations and tokens, and any clock: what runs is what somebody who *)
(* was entitled asked for, and whoever was entitled is not refused.  A     *)
(* guard decides by one moment what a later guard, and the handler, take   *)
(* for granted: what it has found has to be carried along (Learned), and     *)
(* the table of routes has to fit what the handlers do (RoutesFit).        *)
(***************************************************************************)

(* Routes                                                                  *)

\* A prefix of two.
LEMMA Joined ==
  ASSUME NEW S, NEW e \in Seq(S), NEW s \in Seq(S), NEW t \in Seq(S), Len(e) = 2, Len(t) = 2 + Len(s),
         t[1] = e[1], t[2] = e[2], \A i \in 1..Len(s) : t[i + 2] = s[i]
  PROVE  e \o s = t
<1>0. e \o s \in Seq(S) /\ Len(e \o s) = Len(e) + Len(s)
  BY ConcatProperties
<1>1. Len(e \o s) = Len(t) /\ Len(s) \in Nat
  BY <1>0
<1>2. \A i \in 1..Len(e) + Len(s) : (e \o s)[i] = IF i <= Len(e) THEN e[i] ELSE s[i - Len(e)]
  BY ConcatProperties
<1>3. ASSUME NEW i \in 1..(2 + Len(s)) PROVE (e \o s)[i] = t[i]
  <2>1. (e \o s)[i] = IF i <= 2 THEN e[i] ELSE s[i - 2]
    BY <1>2
  <2>2. CASE i <= 2
    <3>1. i = 1 \/ i = 2
       BY <1>1, <2>2
    <3> QED BY <2>1, <2>2, <3>1
  <2>3. CASE i > 2
    <3>1. i - 2 \in 1..Len(s) /\ (i - 2) + 2 = i /\ ~(i <= 2)
      BY <1>1, <2>3
    <3>2. t[(i - 2) + 2] = s[i - 2]
      BY <3>1
    <3> QED BY <2>1, <3>1, <3>2
  <2> QED BY <1>1, <2>2, <2>3
<1> QED BY <1>0, <1>1, <1>3, SeqEqual

\* The paths below the id of an event.
LEMMA Below ==
  ASSUME NEW a, NEW b, NEW c
  PROVE  /\ <<"events", "id">> \o <<>> = <<"events", "id">>
         /\ <<"events", "id">> \o <<a>> = <<"events", "id", a>>
         /\ <<"events", "id">> \o <<a, b>> = <<"events", "id", a, b>>
         /\ <<"events", "id">> \o <<a, b, c>> = <<"events", "id", a, b, c>>
<1> DEFINE S == {"events", "id", a, b, c}
           Is(s, t) == <<"events", "id">> \o s = t
<1>0. "events" \in S /\ "id" \in S /\ a \in S /\ b \in S /\ c \in S
  OBVIOUS
<1> HIDE DEF S
<1>1. Is(<<>>, <<"events", "id">>)
  OBVIOUS
<1>2. ASSUME NEW s \in Seq(S), NEW t \in Seq(S), Len(t) = 2 + Len(s), t[1] = "events", t[2] = "id",
             \A i \in 1..Len(s) : t[i + 2] = s[i]
      PROVE  Is(s, t)
  <2>1. <<"events", "id">> \in Seq(S) /\ Len(<<"events", "id">>) = 2
    BY <1>0
  <2> QED BY <1>2, <2>1, Joined
<1> HIDE DEF Is
<1>3. Is(<<a>>, <<"events", "id", a>>)
  <2>1. <<a>> \in Seq(S) /\ <<"events", "id", a>> \in Seq(S)
    BY <1>0
  <2>2. Len(<<"events", "id", a>>) = 2 + Len(<<a>>)
    OBVIOUS
  <2>3. \A i \in 1..Len(<<a>>) : <<"events", "id", a>>[i + 2] = <<a>>[i]
    OBVIOUS
  <2>4. <<"events", "id", a>>[1] = "events" /\ <<"events", "id", a>>[2] = "id"
    OBVIOUS
  <2> QED BY <1>2, <2>1, <2>2, <2>3, <2>4
<1>4. Is(<<a, b>>, <<"events", "id", a, b>>)
  <2>1. <<a, b>> \in Seq(S) /\ <<"events", "id", a, b>> \in Seq(S)
    BY <1>0
  <2>2. Len(<<"events", "id", a, b>>) = 2 + Len(<<a, b>>)
    OBVIOUS
  <2>3. \A i \in 1..Len(<<a, b>>) : <<"events", "id", a, b>>[i + 2] = <<a, b>>[i]
    OBVIOUS
  <2>4. <<"events", "id", a, b>>[1] = "events" /\ <<"events", "id", a, b>>[2] = "id"
    OBVIOUS
  <2> QED BY <1>2, <2>1, <2>2, <2>3, <2>4
<1>5. Is(<<a, b, c>>, <<"events", "id", a, b, c>>)
  <2>1. <<a, b, c>> \in Seq(S) /\ <<"events", "id", a, b, c>> \in Seq(S)
    BY <1>0
  <2>2. Len(<<"events", "id", a, b, c>>) = 2 + Len(<<a, b, c>>)
    OBVIOUS
  <2>3. \A i \in 1..Len(<<a, b, c>>) : <<"events", "id", a, b, c>>[i + 2] = <<a, b, c>>[i]
    OBVIOUS
  <2>4. <<"events", "id", a, b, c>>[1] = "events" /\ <<"events", "id", a, b, c>>[2] = "id"
    OBVIOUS
  <2> QED BY <1>2, <2>1, <2>2, <2>3, <2>4
<1> QED BY <1>1, <1>3, <1>4, <1>5 DEF Is

\* Whoever may only read passes the guard of a route of the dashboard exactly if its handler
\* changes nothing.
LEMMA RoutesFit ==
  ASSUME NEW r \in Guards!Routes, r.guard # "Public", Guards!TypeFor(r.guard) = "business",
         NEW m, m \in r.on, m \in r.allow
  PROVE  Guards!Changes(r.path, m) <=> r.guard = "BusinessWrite" \/ Guards!IsWriteMethod(m)
<1>1. r \notin Guards!MeRoutes
  <2>1. ASSUME NEW q \in Guards!MeRoutes PROVE q.guard = "User"
    BY <2>1 DEF Guards!MeRoutes, Guards!Route
  <2> QED BY <2>1 DEF Guards!TypeFor
<1>2. CASE r = Guards!Read(<<>>, {"GET"})
  <2>1. r.path = <<"events", "id">> /\ r.guard = "BusinessRead" /\ m \in {"GET"}
    BY <1>2, Below DEF Guards!Read, Guards!Write, Guards!Route
  <2> QED BY <2>1 DEF Guards!Changes, Guards!IsWriteMethod
<1>3. CASE r = Guards!Write(<<>>, {"PATCH"})
  <2>1. r.path = <<"events", "id">> /\ r.guard = "BusinessWrite" /\ m \in {"PATCH"}
    BY <1>3, Below DEF Guards!Read, Guards!Write, Guards!Route
  <2> QED BY <2>1 DEF Guards!Changes, Guards!IsWriteMethod
<1>4. CASE r = Guards!Write(<<>>, {"DELETE"})
  <2>1. r.path = <<"events", "id">> /\ r.guard = "BusinessWrite" /\ m \in {"DELETE"}
    BY <1>4, Below DEF Guards!Read, Guards!Write, Guards!Route
  <2> QED BY <2>1 DEF Guards!Changes, Guards!IsWriteMethod
<1>5. CASE r = Guards!Read(<<"fences">>, {"POST"})
  <2>1. r.path = <<"events", "id", "fences">> /\ r.guard = "BusinessRead" /\ m \in {"POST"}
    BY <1>5, Below DEF Guards!Read, Guards!Write, Guards!Route
  <2> QED BY <2>1 DEF Guards!Changes, Guards!IsWriteMethod
<1>6. CASE r = Guards!Read(<<"fences">>, {"GET"})
  <2>1. r.path = <<"events", "id", "fences">> /\ r.guard = "BusinessRead" /\ m \in {"GET"}
    BY <1>6, Below DEF Guards!Read, Guards!Write, Guards!Route
  <2> QED BY <2>1 DEF Guards!Changes, Guards!IsWriteMethod
<1>7. CASE r = Guards!Write(<<"fences", "id">>, {"DELETE"})
  <2>1. r.path = <<"events", "id", "fences", "id">> /\ r.guard = "BusinessWrite" /\ m \in {"DELETE"}
    BY <1>7, Below DEF Guards!Read, Guards!Write, Guards!Route
  <2> QED BY <2>1 DEF Guards!Changes, Guards!IsWriteMethod
<1>8. CASE r = Guards!Read(<<"fences", "id", "analytics">>, {"GET"})
  <2>1. r.path = <<"events", "id", "fences", "id", "analytics">> /\ r.guard = "BusinessRead" /\ m \in {"GET"}
    BY <1>8, Below DEF Guards!Read, Guards!Write, Guards!Route
  <2> QED BY <2>1 DEF Guards!Changes, Guards!IsWriteMethod
<1>9. CASE r = Guards!Read(<<"analytics">>, {"GET"})
  <2>1. r.path = <<"events", "id", "analytics">> /\ r.guard = "BusinessRead" /\ m \in {"GET"}
    BY <1>9, Below DEF Guards!Read, Guards!Write, Guards!Route
  <2> QED BY <2>1 DEF Guards!Changes, Guards!IsWriteMethod
<1>10. CASE r = Guards!Read(<<"attendance">>, {"GET"})
  <2>1. r.path = <<"events", "id", "attendance">> /\ r.guard = "BusinessRead" /\ m \in {"GET"}
    BY <1>10, Below DEF Guards!Read, Guards!Write, Guards!Route
  <2> QED BY <2>1 DEF Guards!Changes, Guards!IsWriteMethod
<1>11. CASE r = [Guards!Read(<<"consent-template">>, Guards!Methods) EXCEPT !.allow = {"GET", "PUT"}]
  <2>1. r.path = <<"events", "id", "consent-template">> /\ r.guard = "BusinessRead" /\ m \in {"GET", "PUT"}
    BY <1>11, Below DEF Guards!Read, Guards!Write, Guards!Route
  <2> QED BY <2>1 DEF Guards!Changes, Guards!IsWriteMethod
<1>12. CASE r = Guards!Read(<<"share">>, {"GET"})
  <2>1. r.path = <<"events", "id", "share">> /\ r.guard = "BusinessRead" /\ m \in {"GET"}
    BY <1>12, Below DEF Guards!Read, Guards!Write, Guards!Route
  <2> QED BY <2>1 DEF Guards!Changes, Guards!IsWriteMethod
<1>13. CASE r = Guards!Write(<<"share", "regenerate">>, {"POST"})
  <2>1. r.path = <<"events", "id", "share", "regenerate">> /\ r.guard = "BusinessWrite" /\ m \in {"POST"}
    BY <1>13, Below DEF Guards!Read, Guards!Write, Guards!Route
  <2> QED BY <2>1 DEF Guards!Changes, Guards!IsWriteMethod
<1>14. CASE r = Guards!Read(<<"clock-in-share">>, {"GET"})
  <2>1. r.path = <<"events", "id", "clock-in-share">> /\ r.guard = "BusinessRead" /\ m \in {"GET"}
    BY <1>14, Below DEF Guards!Read, Guards!Write, Guards!Route
  <2> QED BY <2>1 DEF Guards!Changes, Guards!IsWriteMethod
<1>15. CASE r = Guards!Write(<<"clock-in-settings">>, {"PATCH"})
  <2>1. r.path = <<"events", "id", "clock-in-settings">> /\ r.guard = "BusinessWrite" /\ m \in {"PATCH"}
    BY <1>15, Below DEF Guards!Read, Guards!Write, Guards!Route
  <2> QED BY <2>1 DEF Guards!Changes, Guards!IsWriteMethod
<1>16. CASE r = Guards!Write(<<"clock-in-share", "regenerate">>, {"POST"})
  <2>1. r.path = <<"events", "id", "clock-in-share", "regenerate">> /\ r.guard = "BusinessWrite" /\ m \in {"POST"}
    BY <1>16, Below DEF Guards!Read, Guards!Write, Guards!Route
  <2> QED BY <2>1 DEF Guards!Changes, Guards!IsWriteMethod
<1>17. CASE r = Guards!Read(<<"fence-capture">>, {"GET", "POST"})
  <2>1. r.path = <<"events", "id", "fence-capture">> /\ r.guard = "BusinessRead" /\ m \in {"GET", "POST"}
    BY <1>17, Below DEF Guards!Read, Guards!Write, Guards!Route
  <2> QED BY <2>1 DEF Guards!Changes, Guards!IsWriteMethod
<1>18. CASE r = Guards!Write(<<"fence-capture", "apply">>, {"POST"})
  <2>1. r.path = <<"events", "id", "fence-capture", "apply">> /\ r.guard = "BusinessWrite" /\ m \in {"POST"}
    BY <1>18, Below DEF Guards!Read, Guards!Write, Guards!Route
  <2> QED BY <2>1 DEF Guards!Changes, Guards!IsWriteMethod
<1>19. CASE r \in Guards!EventRoutes
  <2>1. \/ r.guard \in {"User", "OptionalUser"}
        \/ r = Guards!Read(<<>>, {"GET"})
        \/ r = Guards!Write(<<>>, {"PATCH"})
        \/ r = Guards!Write(<<>>, {"DELETE"})
        \/ r = Guards!Read(<<"fences">>, {"POST"})
        \/ r = Guards!Read(<<"fences">>, {"GET"})
        \/ r = Guards!Write(<<"fences", "id">>, {"DELETE"})
        \/ r = Guards!Read(<<"fences", "id", "analytics">>, {"GET"})
        \/ r = Guards!Read(<<"analytics">>, {"GET"})
        \/ r = Guards!Read(<<"attendance">>, {"GET"})
        \/ r = [Guards!Read(<<"consent-template">>, Guards!Methods) EXCEPT !.allow = {"GET", "PUT"}]
        \/ r = Guards!Read(<<"share">>, {"GET"})
        \/ r = Guards!Write(<<"share", "regenerate">>, {"POST"})
        \/ r = Guards!Read(<<"clock-in-share">>, {"GET"})
        \/ r = Guards!Write(<<"clock-in-settings">>, {"PATCH"})
        \/ r = Guards!Write(<<"clock-in-share", "regenerate">>, {"POST"})
        \/ r = Guards!Read(<<"fence-capture">>, {"GET", "POST"})
        \/ r = Guards!Write(<<"fence-capture", "apply">>, {"POST"})
    BY <1>19 DEF Guards!EventRoutes, Guards!Read, Guards!Route
  <2> QED
    BY <2>1, <1>2, <1>3, <1>4, <1>5, <1>6, <1>7, <1>8, <1>9, <1>10, <1>11, <1>12, <1>13, <1>14, <1>15,
       <1>16, <1>17, <1>18 DEF Guards!TypeFor
<1>20. CASE r \in {Guards!Route(<<"events">>, Guards!Methods, {"GET", "POST"}, "BusinessRead"),
               Guards!Route(<<"consent-field-recommendations">>, Guards!Methods, {"GET"}, "BusinessRead")}
  BY <1>20 DEF Guards!Changes, Guards!IsWriteMethod, Guards!Route
<1>21. CASE r = Guards!Route(<<"public">>, Guards!Methods, Guards!Methods, "Public")
  BY <1>21 DEF Guards!Route
<1> QED BY <1>1, <1>19, <1>20, <1>21 DEF Guards!Routes

\* The route of a path and a method.
RouteFor(path, method) == CHOOSE r \in Guards!Routes : r.path = path /\ method \in r.on

Guard(r) == RouteFor(r.path, r.method).guard

\* The request r has a route, which allows its method.
Served(r) ==
  LET q == RouteFor(r.path, r.method)
  IN  q \in Guards!Routes /\ q.path = r.path /\ r.method \in q.on /\ r.method \in q.allow

LEMMA RouteOfRequest ==
  ASSUME NEW w \in GuardWorkers
  PROVE  /\ Guards!RouteOf(w) = RouteFor(gReq[w].path, gReq[w].method)
         /\ Guards!Known(w) /\ gReq[w].method \in Guards!RouteOf(w).allow => Served(gReq[w])
<1>1. Guards!RouteOf(w) = RouteFor(gReq[w].path, gReq[w].method)
  BY DEF Guards!RouteOf, RouteFor
<1>2. ASSUME Guards!Known(w)
      PROVE  /\ Guards!RouteOf(w) \in Guards!Routes /\ Guards!RouteOf(w).path = gReq[w].path
             /\ gReq[w].method \in Guards!RouteOf(w).on
  BY <1>2 DEF Guards!Known, Guards!RouteOf
<1> QED BY <1>1, <1>2 DEF Served

\* Guards of the dashboard and what handlers change.
LEMMA WritersChange ==
  ASSUME NEW r, Served(r), Guard(r) # "Public", Guards!TypeFor(Guard(r)) = "business"
  PROVE  Guards!Changes(r.path, r.method) <=> Guard(r) = "BusinessWrite" \/ Guards!IsWriteMethod(r.method)
BY RoutesFit DEF Served, Guard

-----------------------------------------------------------------------------
(* What a request knows                                                    *)

\* A token of the dashboard carries a role.
GoodToken == {t \in Guards!Token : t.typ = "business" => t.role \in Guards!Roles}

ReqRow == [path : Guards!Paths \cup {Nil}, method : Guards!Methods \cup {Nil},
           token : GoodToken \cup {Nil}, event : Events \cup {Nil},
           caller : Attendees \cup Staff \cup {Nil}, org : Orgs \cup {Nil}]

\* The account a is the one that the token of the request r was issued for, and may
\* do what the handler does.
Account(r, a) ==
  /\ r.token.typ = "business" /\ a.status = "active" /\ a.org = r.token.org /\ a.role = r.token.role
  /\ Guards!Changes(r.path, r.method) => a.role # "viewer"

\* Entitled, of a request.
May(r, s) ==
  IF Guards!TypeFor(Guard(r)) = "user" THEN r.token.typ = "user" /\ s.user = "active"
  ELSE \E a \in s.staff : Account(r, a) /\ (Guards!IsEvent(r.path) => EventOrg[r.event] = a.org)

\* Why the request r is refused at the time n: its token is over, or there was a moment
\* at which it was not entitled or what it asks for was not there.
Excluded(r, S, n) ==
  r.token.until <= n \/ \E s \in S : ~(May(r, s) /\ (Guards!IsEvent(r.path) => s.there))

\* What the guards have found for the request r by statement l, if it began at b,
\* has met the situations S, and the time is n.
Learned(l, r, b, S, n) ==
  /\ l \in {"bearer", "account", "tenant", "refused"} => Served(r) /\ Guard(r) # "Public"
  /\ l \in {"account", "tenant"} =>
       r.token # Nil /\ b < r.token.until /\ r.token.typ = Guards!TypeFor(Guard(r))
  /\ l = "tenant" =>
       /\ Guards!TypeFor(Guard(r)) = "business" /\ Guards!IsEvent(r.path) /\ r.caller = r.token.sub
       /\ \E s \in S : \E a \in s.staff : Account(r, a) /\ a.org = r.org
  /\ l = "handle" /\ Guard(r) # "Public" =>
       IF r.token = Nil THEN Guard(r) = "OptionalUser"
       ELSE /\ b < r.token.until /\ r.caller = r.token.sub
            /\ \E s \in S : May(r, s)
            /\ Guards!TypeFor(Guard(r)) = "business" /\ Guards!IsEvent(r.path) => \E s \in S : s.there
  /\ l = "refused" /\ r.token # Nil => Excluded(r, S, n)

\* Situation, of a request and tables.
SituationOf(r, us, st, ev) ==
  [user |-> IF r.token # Nil /\ r.token.typ = "user" THEN us[r.token.sub] ELSE Nil,
   staff |-> IF r.token # Nil /\ r.token.typ = "business" THEN {st[r.token.sub]} ELSE {},
   there |-> r.event \in ev]

\* What holds of a request in flight.
Right(w) ==
  /\ gBegan[w] <= gNow
  /\ SituationOf(gReq[w], gUsers, gStaff, gEvents) \in gSeen[w]
  /\ Learned(gPc[w], gReq[w], gBegan[w], gSeen[w], gNow)

GInv ==
  /\ Guards!TypeOK /\ gReq \in [GuardWorkers -> ReqRow] /\ gTokens \subseteq GoodToken
  /\ \A w \in GuardWorkers : gPc[w] # "idle" => Right(w)

\* As time goes by and situations change, what was found stays found.
LEMMA KnowsStays ==
  ASSUME NEW l, NEW r, NEW b, NEW S, NEW n \in Nat, Learned(l, r, b, S, n),
         NEW T, S \subseteq T, NEW m \in Nat, n <= m, r.token \in Guards!Token \cup {Nil}
  PROVE  Learned(l, r, b, T, m)
<1>1. ASSUME r.token # Nil, Excluded(r, S, n) PROVE Excluded(r, T, m)
  <2>1. CASE r.token.until <= n
    BY <1>1, <2>1 DEF Excluded, Guards!Token
  <2>2. CASE \E s \in S : ~(May(r, s) /\ (Guards!IsEvent(r.path) => s.there))
    BY <2>2 DEF Excluded
  <2> QED BY <1>1, <2>1, <2>2 DEF Excluded
<1> QED BY <1>1 DEF Learned

-----------------------------------------------------------------------------
(* GuardMoves                                                                   *)

GuardLabels == {"idle", "classify", "bearer", "account", "tenant", "refused", "handle"}

\* A guard takes its request on, or answers it.
Goes(w, l, r) ==
  /\ Guards!Step(w, l, r)
  /\ ~Guards!Idle(w) /\ l \in GuardLabels /\ r \in ReqRow
  /\ l # "idle" =>
       /\ r.path = gReq[w].path /\ r.method = gReq[w].method /\ r.token = gReq[w].token
       /\ r.event = gReq[w].event
       /\ Learned(l, r, gBegan[w], gSeen[w], gNow)

LEMMA GuardMoves ==
  ASSUME GInv, NEW w \in GuardWorkers, NEW l, NEW r, Guards!Step(w, l, r)
  PROVE  \A v \in GuardWorkers : /\ gPc'[v] = IF v = w THEN l ELSE gPc[v]
                            /\ gReq'[v] = IF v = w THEN r ELSE gReq[v]
BY DEF GInv, Guards!TypeOK, Guards!Step

LEMMA GuardGotoMoves ==
  ASSUME GInv, NEW w \in GuardWorkers, NEW l, Guards!Goto(w, l)
  PROVE  Guards!Step(w, l, gReq[w])
BY DEF GInv, Guards!TypeOK, Guards!Goto, Guards!Step

LEMMA ReplyGoes ==
  ASSUME GInv, NEW w \in GuardWorkers, ~Guards!Idle(w), Guards!Reply(w)
  PROVE  Goes(w, "idle", Guards!NoRequest)
BY DEF Guards!Reply, Goes, Guards!NoRequest, ReqRow, GuardLabels

LEMMA GotoGoes ==
  ASSUME GInv, NEW w \in GuardWorkers, ~Guards!Idle(w), NEW l \in GuardLabels, Guards!Goto(w, l),
         Learned(l, gReq[w], gBegan[w], gSeen[w], gNow)
  PROVE  Goes(w, l, gReq[w])
BY GuardGotoMoves DEF Goes, GInv

\* What is known of a request at a guard.
LEMMA AtGuard ==
  ASSUME GInv, NEW w \in GuardWorkers, ~Guards!Idle(w)
  PROVE  /\ gReq[w] \in ReqRow /\ gBegan[w] \in Nat /\ gNow \in Nat /\ gBegan[w] <= gNow
         /\ SituationOf(gReq[w], gUsers, gStaff, gEvents) \in gSeen[w]
         /\ Learned(gPc[w], gReq[w], gBegan[w], gSeen[w], gNow)
         /\ Guards!RouteOf(w) = RouteFor(gReq[w].path, gReq[w].method)
         /\ Guards!RouteOf(w).guard = Guard(gReq[w])
<1>1. gBegan[w] \in 0..MaxTime /\ gNow \in 0..MaxTime
  BY DEF GInv, Guards!TypeOK
<1> QED BY <1>1, RouteOfRequest DEF GInv, Right, Guards!Idle, Guard

LEMMA ClassifyGoes ==
  ASSUME GInv, NEW w \in GuardWorkers, Guards!Classify(w)
  PROVE  \E l, r : Goes(w, l, r)
<1>1. ~Guards!Idle(w)
  BY DEF Guards!Classify, Guards!At, Guards!Idle
<1>2. CASE Guards!Reply(w)
  BY <1>1, <1>2, ReplyGoes
<1>3. CASE ~Guards!Reply(w)
  <2>1. Guards!Known(w) /\ gReq[w].method \in Guards!RouteOf(w).allow
    BY <1>3 DEF Guards!Classify
  <2>2. Served(gReq[w]) /\ Guards!RouteOf(w).guard = Guard(gReq[w])
    BY <1>1, <2>1, RouteOfRequest, AtGuard
  <2>3. CASE Guard(gReq[w]) = "Public"
    BY <1>1, <1>3, <2>2, <2>3, GotoGoes DEF Guards!Classify, Learned, GuardLabels
  <2>4. CASE Guard(gReq[w]) # "Public"
    BY <1>1, <1>3, <2>2, <2>4, GotoGoes DEF Guards!Classify, Learned, GuardLabels
  <2> QED BY <2>3, <2>4
<1> QED BY <1>2, <1>3

LEMMA BearerGoes ==
  ASSUME GInv, NEW w \in GuardWorkers, Guards!Bearer(w)
  PROVE  \E l, r : Goes(w, l, r)
<1> DEFINE r == gReq[w]
<1>1. ~Guards!Idle(w) /\ gPc[w] = "bearer"
  BY DEF Guards!Bearer, Guards!At, Guards!Idle
<1>2. /\ r \in ReqRow /\ gBegan[w] <= gNow /\ gBegan[w] \in Nat /\ gNow \in Nat
      /\ Served(r) /\ Guard(r) # "Public" /\ Guards!RouteOf(w).guard = Guard(r)
      /\ SituationOf(r, gUsers, gStaff, gEvents) \in gSeen[w]
  BY <1>1, AtGuard DEF Learned
<1>3. CASE r.token = Nil
  <2>1. CASE Guard(r) = "OptionalUser" /\ Guards!Goto(w, "handle")
    BY <1>1, <1>3, <2>1, GotoGoes DEF Learned, GuardLabels
  <2>2. CASE Guards!Goto(w, "refused")
    BY <1>1, <1>2, <1>3, <2>2, GotoGoes DEF Learned, GuardLabels
  <2> QED BY <1>2, <1>3, <2>1, <2>2 DEF Guards!Bearer
<1>4. CASE r.token # Nil
  <2>1. r.token \in Guards!Token /\ r.token.until \in Nat
    BY <1>2, <1>4 DEF ReqRow, GoodToken, Guards!Token
  <2>2. CASE gNow < r.token.until /\ r.token.typ = Guards!TypeFor(Guard(r)) /\ Guards!Goto(w, "account")
    <3>1. gBegan[w] < r.token.until
      BY <1>2, <2>1, <2>2
    <3> QED BY <1>1, <1>2, <1>4, <2>2, <3>1, GotoGoes DEF Learned, GuardLabels
  <2>3. CASE ~(gNow < r.token.until /\ r.token.typ = Guards!TypeFor(Guard(r))) /\ Guards!Goto(w, "refused")
    <3>1. r.token.typ # Guards!TypeFor(Guard(r)) => \A s : ~May(r, s)
      BY DEF May, Account, Guards!TypeFor
    <3>2. Excluded(r, gSeen[w], gNow)
      BY <1>2, <2>1, <2>3, <3>1 DEF Excluded
    <3> QED BY <1>1, <1>2, <2>3, <3>2, GotoGoes DEF Learned, GuardLabels
  <2> QED BY <1>2, <1>4, <2>2, <2>3 DEF Guards!Bearer
<1> QED BY <1>3, <1>4

LEMMA UserGoes ==
  ASSUME GInv, NEW w \in GuardWorkers, Guards!User(w)
  PROVE  \E l, r : Goes(w, l, r)
<1>0. PICK q : q = gReq[w]
  OBVIOUS
<1> DEFINE s == SituationOf(q, gUsers, gStaff, gEvents)
<1>1. ~Guards!Idle(w) /\ gPc[w] = "account"
  BY DEF Guards!User, Guards!At, Guards!Idle
<1>2. /\ q \in ReqRow /\ s \in gSeen[w] /\ Served(q) /\ Guard(q) # "Public" /\ Guards!RouteOf(w).guard = Guard(q)
      /\ q.token # Nil /\ gBegan[w] < q.token.until /\ q.token.typ = Guards!TypeFor(Guard(q))
  BY <1>0, <1>1, AtGuard DEF Learned
<1>3. Guards!TypeFor(Guard(q)) = "user" /\ q.token \in Guards!Token
  BY <1>2 DEF Guards!User, ReqRow, GoodToken
<1>4. s.user = gUsers[q.token.sub]
  BY <1>2, <1>3 DEF SituationOf
<1>5. CASE gUsers[q.token.sub] = "active" /\ Guards!Step(w, "handle", [q EXCEPT !.caller = q.token.sub])
  <2>1. PICK r : r = [q EXCEPT !.caller = q.token.sub]
    OBVIOUS
  <2>2. /\ r \in ReqRow /\ r.path = q.path /\ r.method = q.method /\ r.token = q.token
        /\ r.event = q.event /\ r.caller = q.token.sub
    BY <1>2, <1>3, <2>1 DEF ReqRow, Guards!Token
  <2>3. May(r, s) /\ Guard(r) = Guard(q)
    BY <1>2, <1>3, <1>4, <1>5, <2>2 DEF May, Guard
  <2>4. Learned("handle", r, gBegan[w], gSeen[w], gNow)
    BY <1>2, <1>3, <2>2, <2>3 DEF Learned
  <2> QED BY <1>0, <1>1, <1>5, <2>1, <2>2, <2>4 DEF Goes, GuardLabels
<1>6. CASE gUsers[q.token.sub] # "active" /\ Guards!Goto(w, "refused")
  <2>1. ~May(q, s)
    BY <1>3, <1>4, <1>6 DEF May
  <2>2. Excluded(q, gSeen[w], gNow)
    BY <1>2, <2>1 DEF Excluded
  <2> QED BY <1>0, <1>1, <1>2, <1>6, <2>2, GotoGoes DEF Learned, GuardLabels
<1> QED BY <1>0, <1>5, <1>6 DEF Guards!User

LEMMA BusinessAuthGoes ==
  ASSUME GInv, NEW w \in GuardWorkers, Guards!BusinessAuth(w)
  PROVE  \E l, r : Goes(w, l, r)
<1>0. PICK q : q = gReq[w]
  OBVIOUS
<1> DEFINE s == SituationOf(q, gUsers, gStaff, gEvents)
           a == gStaff[q.token.sub]
<1>1. ~Guards!Idle(w) /\ gPc[w] = "account"
  BY DEF Guards!BusinessAuth, Guards!At, Guards!Idle
<1>2. /\ q \in ReqRow /\ s \in gSeen[w] /\ Served(q) /\ Guard(q) # "Public" /\ Guards!RouteOf(w).guard = Guard(q)
      /\ q.token # Nil /\ gBegan[w] < q.token.until /\ q.token.typ = Guards!TypeFor(Guard(q))
  BY <1>0, <1>1, AtGuard DEF Learned
<1>3. Guards!TypeFor(Guard(q)) = "business" /\ q.token \in Guards!Token
  BY <1>2 DEF Guards!BusinessAuth, ReqRow, GoodToken
<1>4. s.staff = {a}
  BY <1>2, <1>3 DEF SituationOf
<1>5. Guards!Changes(q.path, q.method) <=> Guard(q) = "BusinessWrite" \/ Guards!IsWriteMethod(q.method)
  BY <1>2, <1>3, WritersChange
<1>6. CASE /\ a.status = "active" /\ a.org = q.token.org /\ a.role = q.token.role
           /\ Guard(q) = "BusinessWrite" \/ Guards!IsWriteMethod(q.method) => Guards!CanBusinessWrite(a.role)
           /\ Guards!Step(w, IF Guards!IsEvent(q.path) THEN "tenant" ELSE "handle",
                   [q EXCEPT !.caller = q.token.sub, !.org = a.org])
  <2>1. PICK r : r = [q EXCEPT !.caller = q.token.sub, !.org = a.org]
    OBVIOUS
  <2>2. /\ r \in ReqRow /\ r.path = q.path /\ r.method = q.method /\ r.token = q.token
        /\ r.event = q.event /\ r.caller = q.token.sub /\ r.org = a.org
    BY <1>2, <1>3, <1>6, <2>1 DEF ReqRow, Guards!Token
  <2>3. Account(r, a) /\ Guard(r) = Guard(q)
    BY <1>2, <1>3, <1>5, <1>6, <2>2 DEF Account, Guard, Guards!CanBusinessWrite
  <2>4. CASE Guards!IsEvent(q.path)
    <3>1. Served(r)
      BY <1>2, <2>2 DEF Served
    <3>2. Learned("tenant", r, gBegan[w], gSeen[w], gNow)
      BY <1>2, <1>3, <1>4, <2>2, <2>3, <2>4, <3>1 DEF Learned
    <3> QED BY <1>0, <1>1, <1>6, <2>1, <2>2, <2>4, <3>2 DEF Goes, GuardLabels
  <2>5. CASE ~Guards!IsEvent(q.path)
    <3>1. May(r, s)
      BY <1>3, <1>4, <2>2, <2>3, <2>5 DEF May
    <3>2. Learned("handle", r, gBegan[w], gSeen[w], gNow)
      BY <1>2, <2>2, <2>3, <2>5, <3>1 DEF Learned
    <3> QED BY <1>0, <1>1, <1>6, <2>1, <2>2, <2>5, <3>2 DEF Goes, GuardLabels
  <2> QED BY <2>4, <2>5
<1>7. CASE /\ ~(/\ a.status = "active" /\ a.org = q.token.org /\ a.role = q.token.role
                /\ Guard(q) = "BusinessWrite" \/ Guards!IsWriteMethod(q.method) => Guards!CanBusinessWrite(a.role))
           /\ Guards!Goto(w, "refused")
  <2>1. q.token.typ = "business" /\ q.token.role \in Guards!Roles
    BY <1>2, <1>3 DEF ReqRow, GoodToken, Guards!TypeFor
  <2>2. ~Account(q, a)
    BY <1>5, <1>7, <2>1 DEF Account, Guards!CanBusinessWrite, Guards!Roles
  <2>3. ~May(q, s)
    BY <1>3, <1>4, <2>2 DEF May
  <2>4. Excluded(q, gSeen[w], gNow)
    BY <1>2, <2>3 DEF Excluded
  <2> QED BY <1>0, <1>1, <1>2, <1>7, <2>4, GotoGoes DEF Learned, GuardLabels
<1> QED BY <1>0, <1>2, <1>6, <1>7 DEF Guards!BusinessAuth


\* Whoever the token is of belongs to its organization, or is not entitled.
LEMMA RequireEventTenantGoes ==
  ASSUME GInv, NEW w \in GuardWorkers, Guards!RequireEventTenant(w)
  PROVE  \E l, r : Goes(w, l, r)
<1>0. PICK q : q = gReq[w]
  OBVIOUS
<1> DEFINE s == SituationOf(q, gUsers, gStaff, gEvents)
<1>1. ~Guards!Idle(w) /\ gPc[w] = "tenant"
  BY DEF Guards!RequireEventTenant, Guards!At, Guards!Idle
<1>2. /\ s \in gSeen[w] /\ Served(q) /\ Guard(q) # "Public" /\ Guards!TypeFor(Guard(q)) = "business"
      /\ Guards!IsEvent(q.path) /\ q.caller = q.token.sub /\ q.token # Nil /\ gBegan[w] < q.token.until
  BY <1>0, <1>1, AtGuard DEF Learned
<1>3. PICK t \in gSeen[w] : \E a \in t.staff : Account(q, a) /\ a.org = q.org
  BY <1>0, <1>1, AtGuard DEF Learned
<1>4. s.there <=> q.event \in gEvents
  BY DEF SituationOf
<1>5. CASE q.event \in gEvents /\ EventOrg[q.event] = q.org /\ Guards!Goto(w, "handle")
  <2>1. May(q, t)
    BY <1>2, <1>3, <1>5 DEF May
  <2>2. Learned("handle", q, gBegan[w], gSeen[w], gNow)
    BY <1>2, <1>4, <1>5, <2>1 DEF Learned
  <2> QED BY <1>0, <1>1, <1>5, <2>2, GotoGoes DEF GuardLabels
<1>6. CASE ~(q.event \in gEvents /\ EventOrg[q.event] = q.org) /\ Guards!Goto(w, "refused")
  <2>1. EventOrg[q.event] # q.org => ~May(q, s)
    BY <1>2, <1>3 DEF May, Account
  <2>2. Excluded(q, gSeen[w], gNow)
    BY <1>2, <1>4, <1>6, <2>1 DEF Excluded
  <2> QED BY <1>0, <1>1, <1>2, <1>6, <2>2, GotoGoes DEF Learned, GuardLabels
<1> QED BY <1>0, <1>5, <1>6 DEF Guards!RequireEventTenant

LEMMA GuardsGo ==
  ASSUME GInv, NEW w \in GuardWorkers,
         \/ Guards!Classify(w) \/ Guards!Bearer(w) \/ Guards!User(w) \/ Guards!BusinessAuth(w)
         \/ Guards!RequireEventTenant(w)
         \/ Guards!GuardFails(w) \/ Guards!Refused(w) \/ Guards!Handle(w)
  PROVE  \E l, r : Goes(w, l, r)
<1>1. CASE Guards!GuardFails(w) \/ Guards!Refused(w) \/ Guards!Handle(w)
  BY <1>1, ReplyGoes DEF Guards!GuardFails, Guards!Refused, Guards!Handle, Guards!At, Guards!Idle
<1> QED
  BY <1>1, ClassifyGoes, BearerGoes, UserGoes, BusinessAuthGoes, RequireEventTenantGoes

-----------------------------------------------------------------------------
(* Rows and the clock                                                      *)

RowsOK ==
  /\ gUsers \in [Attendees -> Guards!Statuses \cup {Nil}] /\ gStaff \in [Staff -> Guards!StaffRow]
  /\ gEvents \subseteq Events /\ gTokens \subseteq GoodToken
  /\ gNow \in 0..MaxTime /\ gChanges \in 0..MaxChanges

GuardStep(w) ==
  \/ Guards!Request(w) \/ Guards!Classify(w) \/ Guards!Bearer(w) \/ Guards!User(w) \/ Guards!BusinessAuth(w)
  \/ Guards!RequireEventTenant(w) \/ Guards!GuardFails(w) \/ Guards!Refused(w) \/ Guards!Handle(w)

OtherStep == Guards!Tick \/ Guards!IssueUserToken \/ Guards!IssueBusinessToken \/ Guards!ChangeAccount

LEMMA OthersKeepRows ==
  ASSUME GInv, Guards!RouteGuardsAssumption, OtherStep
  PROVE  RowsOK' /\ gNow <= gNow' /\ UNCHANGED Guards!workers
<1>1. RowsOK /\ gNow \in Nat /\ MaxTime \in Nat /\ TTL \in Nat /\ MaxChanges \in Nat
  BY DEF GInv, Guards!TypeOK, RowsOK, Guards!RouteGuardsAssumption
<1>2. CASE Guards!Tick
  BY <1>1, <1>2 DEF Guards!Tick, RowsOK, Guards!accounts
<1>3. CASE Guards!IssueUserToken
  <2>1. PICK u \in Attendees :
          gTokens' = gTokens \cup {[typ |-> "user", sub |-> u, org |-> Nil, role |-> Nil, until |-> gNow + TTL]}
    BY <1>3 DEF Guards!IssueUserToken
  <2>2. [typ |-> "user", sub |-> u, org |-> Nil, role |-> Nil, until |-> gNow + TTL] \in GoodToken
    BY <1>1 DEF GoodToken, Guards!Token
  <2> QED BY <1>1, <1>3, <2>1, <2>2 DEF Guards!IssueUserToken, RowsOK, Guards!accounts
<1>4. CASE Guards!IssueBusinessToken
  <2>1. PICK s \in Staff :
          gTokens' = gTokens \cup {[typ |-> "business", sub |-> s, org |-> gStaff[s].org,
                                  role |-> gStaff[s].role, until |-> gNow + TTL]}
    BY <1>4 DEF Guards!IssueBusinessToken
  <2>2. gStaff[s].org \in Orgs /\ gStaff[s].role \in Guards!Roles
    BY <1>1 DEF RowsOK, Guards!StaffRow
  <2>3. [typ |-> "business", sub |-> s, org |-> gStaff[s].org,
         role |-> gStaff[s].role, until |-> gNow + TTL] \in GoodToken
    BY <1>1, <2>2 DEF GoodToken, Guards!Token
  <2> QED BY <1>1, <1>4, <2>1, <2>3 DEF Guards!IssueBusinessToken, RowsOK, Guards!accounts
<1>5. CASE Guards!ChangeAccount
  <2>1. gChanges' \in 0..MaxChanges
    BY <1>1, <1>5 DEF Guards!ChangeAccount, RowsOK
  <2>2. gUsers' \in [Attendees -> Guards!Statuses \cup {Nil}] /\ gStaff' \in [Staff -> Guards!StaffRow]
    BY <1>1, <1>5 DEF Guards!ChangeAccount, RowsOK, Guards!Statuses
  <2> QED BY <1>1, <1>5, <2>1, <2>2 DEF Guards!ChangeAccount, RowsOK
<1> QED BY <1>2, <1>3, <1>4, <1>5 DEF OtherStep

LEMMA WorkersKeepRows ==
  ASSUME GInv, NEW w \in GuardWorkers, GuardStep(w)
  PROVE  RowsOK' /\ gNow' = gNow
<1>1. RowsOK
  BY DEF GInv, Guards!TypeOK, RowsOK
<1>2. CASE Guards!OnlyRead
  BY <1>1, <1>2 DEF Guards!OnlyRead, Guards!accounts, RowsOK
<1>3. CASE Guards!Handle(w)
  <2>1. gUsers' \in [Attendees -> Guards!Statuses \cup {Nil}]
    BY <1>1, <1>3 DEF Guards!Handle, RowsOK
  <2>2. gEvents' \subseteq Events
    BY <1>1, <1>3 DEF Guards!Handle, RowsOK
  <2> QED BY <1>1, <1>3, <2>1, <2>2 DEF Guards!Handle, RowsOK
<1> QED
  BY <1>2, <1>3 DEF GuardStep, Guards!Request, Guards!Classify, Guards!Bearer, Guards!User,
                    Guards!BusinessAuth, Guards!RequireEventTenant,
                    Guards!GuardFails, Guards!Refused

-----------------------------------------------------------------------------
(* The invariant                                                           *)

\* What Observe adds for a request that goes on or begins.
LEMMA Observed ==
  ASSUME Guards!Observe, NEW v \in GuardWorkers, gPc'[v] # "idle"
  PROVE  /\ gBegan'[v] = IF gPc[v] = "idle" THEN gNow ELSE gBegan[v]
         /\ gSeen'[v] = (IF gPc[v] = "idle" THEN {} ELSE gSeen[v])
                         \cup {SituationOf(gReq'[v], gUsers', gStaff', gEvents')}
BY DEF Guards!Observe, Guards!Situation, SituationOf

LEMMA ObservedTypes ==
  ASSUME GInv, Guards!RouteGuardsAssumption, Guards!Observe
  PROVE  gBegan' \in [GuardWorkers -> 0..MaxTime]
<1>1. gNow \in 0..MaxTime /\ 0 \in 0..MaxTime /\ gBegan \in [GuardWorkers -> 0..MaxTime]
  BY DEF GInv, Guards!TypeOK, Guards!RouteGuardsAssumption
<1> QED BY <1>1 DEF Guards!Observe

\* A request that did not move is as right as it was.
LEMMA StaysRight ==
  ASSUME GInv, RowsOK', gNow <= gNow', Guards!Observe, NEW v \in GuardWorkers, gPc[v] # "idle",
         gPc'[v] = gPc[v], gReq'[v] = gReq[v]
  PROVE  Right(v)'
<1>1. /\ gBegan'[v] = gBegan[v] /\ gSeen[v] \subseteq gSeen'[v]
      /\ SituationOf(gReq'[v], gUsers', gStaff', gEvents') \in gSeen'[v]
  BY Observed
<1>2. /\ gBegan[v] <= gNow /\ gBegan[v] \in Nat /\ gNow \in Nat /\ gNow' \in Nat
      /\ Learned(gPc[v], gReq[v], gBegan[v], gSeen[v], gNow) /\ gReq[v].token \in Guards!Token \cup {Nil}
  <2>1. gBegan[v] \in 0..MaxTime /\ gNow \in 0..MaxTime /\ gNow' \in 0..MaxTime
    BY DEF GInv, Guards!TypeOK, RowsOK
  <2>2. gReq[v].token \in Guards!Token \cup {Nil}
    BY DEF GInv, ReqRow, GoodToken
  <2> QED BY <2>1, <2>2 DEF GInv, Right
<1>3. Learned(gPc[v], gReq[v], gBegan[v], gSeen'[v], gNow')
  BY <1>1, <1>2, KnowsStays
<1>4. Learned(gPc'[v], gReq'[v], gBegan'[v], gSeen'[v], gNow')
  BY <1>1, <1>3
<1>5. gBegan'[v] <= gNow'
  BY <1>1, <1>2
<1> QED BY <1>1, <1>4, <1>5 DEF Right

LEMMA TypesFollow ==
  ASSUME GInv, Guards!RouteGuardsAssumption, Guards!Observe, RowsOK',
         gPc' \in [GuardWorkers -> GuardLabels],
         gReq' \in [GuardWorkers -> ReqRow], \A v \in GuardWorkers : gPc'[v] # "idle" => Right(v)'
  PROVE  GInv'
<1>1. gBegan' \in [GuardWorkers -> 0..MaxTime]
  BY ObservedTypes
<1>2. gTokens' \subseteq Guards!Token
  BY DEF RowsOK, GoodToken
<1>3. Guards!TypeOK'
  BY <1>1, <1>2 DEF Guards!TypeOK, RowsOK, GuardLabels
<1>4. gTokens' \subseteq GoodToken
  BY DEF RowsOK
<1> QED BY <1>3, <1>4 DEF GInv

LEMMA GuardKeepsGInv ==
  ASSUME GInv, Guards!RouteGuardsAssumption, NEW w \in GuardWorkers, GuardStep(w),
         ~Guards!Request(w), Guards!Observe
  PROVE  GInv'
<1>1. PICK l, r : Goes(w, l, r)
  BY GuardsGo DEF GuardStep
<1>2. \A v \in GuardWorkers : /\ gPc'[v] = IF v = w THEN l ELSE gPc[v]
                         /\ gReq'[v] = IF v = w THEN r ELSE gReq[v]
  BY <1>1, GuardMoves DEF Goes
<1>3. RowsOK' /\ gNow' = gNow
  BY WorkersKeepRows
<1>4. gNow \in Nat /\ gNow <= gNow' /\ gBegan[w] <= gNow /\ gBegan[w] \in Nat
  BY <1>1, <1>3, AtGuard DEF Goes
<1>5. ASSUME l # "idle" PROVE Right(w)'
  <2>1. gPc[w] # "idle" /\ gPc'[w] = l /\ gReq'[w] = r
    BY <1>1, <1>2 DEF Goes, Guards!Idle
  <2>2. /\ gBegan'[w] = gBegan[w] /\ gSeen[w] \subseteq gSeen'[w]
        /\ SituationOf(gReq'[w], gUsers', gStaff', gEvents') \in gSeen'[w]
    BY <1>5, <2>1, Observed
  <2>3. Learned(l, r, gBegan[w], gSeen[w], gNow) /\ r.token \in Guards!Token \cup {Nil}
    BY <1>1, <1>5 DEF Goes, ReqRow, GoodToken
  <2>4. Learned(l, r, gBegan[w], gSeen'[w], gNow')
    BY <1>3, <1>4, <2>2, <2>3, KnowsStays
  <2>5. Learned(gPc'[w], gReq'[w], gBegan'[w], gSeen'[w], gNow')
    BY <2>1, <2>2, <2>4
  <2> QED BY <1>3, <1>4, <2>2, <2>5 DEF Right
<1>6. ASSUME NEW v \in GuardWorkers, gPc'[v] # "idle" PROVE Right(v)'
  <2>1. CASE v = w
    BY <1>2, <1>5, <1>6, <2>1
  <2>2. CASE v # w
    BY <1>2, <1>3, <1>4, <1>6, <2>2, StaysRight
  <2> QED BY <2>1, <2>2
<1>7. gPc' \in [GuardWorkers -> GuardLabels] /\ gReq' \in [GuardWorkers -> ReqRow]
  BY <1>1 DEF Goes, Guards!Step, GInv, Guards!TypeOK, GuardLabels
<1> QED BY <1>3, <1>6, <1>7, TypesFollow

LEMMA RequestKeepsGInv ==
  ASSUME GInv, Guards!RouteGuardsAssumption, NEW w \in GuardWorkers, Guards!Request(w), Guards!Observe
  PROVE  GInv'
<1>1. PICK p \in Guards!Paths, m \in Guards!Methods, t \in gTokens \cup {Nil}, e \in Events \cup {Nil} :
        Guards!Start(w, "classify",
                     [Guards!NoRequest EXCEPT !.path = p, !.method = m, !.token = t, !.event = e])
  BY DEF Guards!Request
<1>2. PICK r : r = [Guards!NoRequest EXCEPT !.path = p, !.method = m, !.token = t, !.event = e]
  OBVIOUS
<1>3. r \in ReqRow
  BY <1>2 DEF Guards!NoRequest, ReqRow, GInv
<1>4. \A v \in GuardWorkers : /\ gPc'[v] = IF v = w THEN "classify" ELSE gPc[v]
                         /\ gReq'[v] = IF v = w THEN r ELSE gReq[v]
  BY <1>1, <1>2, GuardMoves DEF Guards!Start
<1>5. RowsOK' /\ gNow' = gNow
  BY WorkersKeepRows DEF GuardStep
<1>6. gNow \in Nat /\ gNow <= gNow'
  BY <1>5 DEF GInv, Guards!TypeOK
<1>7. Right(w)'
  <2>1. gPc[w] = "idle" /\ gPc'[w] = "classify"
    BY <1>1, <1>4 DEF Guards!Start, Guards!Idle
  <2>2. /\ gBegan'[w] = gNow
        /\ SituationOf(gReq'[w], gUsers', gStaff', gEvents') \in gSeen'[w]
    BY <2>1, Observed
  <2> QED BY <1>5, <1>6, <2>1, <2>2 DEF Right, Learned
<1>8. ASSUME NEW v \in GuardWorkers, gPc'[v] # "idle" PROVE Right(v)'
  <2>1. CASE v = w
    BY <1>7, <2>1
  <2>2. CASE v # w
    BY <1>4, <1>5, <1>6, <1>8, <2>2, StaysRight
  <2> QED BY <2>1, <2>2
<1>9. gPc' \in [GuardWorkers -> GuardLabels] /\ gReq' \in [GuardWorkers -> ReqRow]
  BY <1>1, <1>2, <1>3 DEF Guards!Start, Guards!Step, GInv, Guards!TypeOK, GuardLabels
<1> QED BY <1>5, <1>8, <1>9, TypesFollow

LEMMA NextKeepsGInv ==
  ASSUME GInv, Guards!RouteGuardsAssumption, [Guards!Next]_(Guards!vars)
  PROVE  GInv'
<1>1. ASSUME OtherStep, Guards!Observe PROVE GInv'
  <2>1. RowsOK' /\ gNow <= gNow' /\ gPc' = gPc /\ gReq' = gReq
    BY <1>1, OthersKeepRows DEF Guards!workers
  <2>2. ASSUME NEW v \in GuardWorkers, gPc'[v] # "idle" PROVE Right(v)'
    BY <1>1, <2>1, <2>2, StaysRight
  <2>3. gPc' \in [GuardWorkers -> GuardLabels] /\ gReq' \in [GuardWorkers -> ReqRow]
    BY <2>1 DEF GInv, Guards!TypeOK, GuardLabels
  <2> QED BY <1>1, <2>1, <2>2, <2>3, TypesFollow
<1>2. ASSUME NEW w \in GuardWorkers, GuardStep(w), Guards!Observe PROVE GInv'
  BY <1>2, GuardKeepsGInv, RequestKeepsGInv
<1>3. CASE UNCHANGED Guards!vars
  <2>1. Guards!TypeOK'
    BY <1>3 DEF Guards!vars, Guards!accounts, Guards!workers, GInv, Guards!TypeOK
  <2>2. \A w \in GuardWorkers : gPc'[w] # "idle" => Right(w)'
    BY <1>3 DEF Guards!vars, Guards!accounts, Guards!workers, GInv, Right
  <2> QED BY <1>3, <2>1, <2>2 DEF Guards!vars, Guards!workers, GInv
<1> QED BY <1>1, <1>2, <1>3 DEF Guards!Next, OtherStep, GuardStep

LEMMA InitGInv == ASSUME Guards!RouteGuardsAssumption, Guards!Init PROVE GInv
<1>1. Guards!NoRequest \in ReqRow
  BY DEF Guards!NoRequest, ReqRow
<1>2. gNow \in 0..MaxTime /\ gChanges \in 0..MaxChanges /\ gBegan \in [GuardWorkers -> 0..MaxTime]
  BY DEF Guards!RouteGuardsAssumption, Guards!Init
<1>3. gUsers \in [Attendees -> Guards!Statuses \cup {Nil}] /\ gEvents \subseteq Events
  BY DEF Guards!Init, Guards!Statuses
<1>4. gStaff \in [Staff -> Guards!StaffRow]
  BY DEF Guards!Init, Guards!StaffRow, Guards!Roles, Guards!Statuses
<1>5. gPc \in [GuardWorkers -> GuardLabels]
  BY DEF Guards!Init, GuardLabels
<1>6. Guards!TypeOK
  BY <1>2, <1>3, <1>4, <1>5 DEF Guards!Init, Guards!TypeOK, GuardLabels
<1> QED BY <1>1, <1>6 DEF Guards!Init, GInv

-----------------------------------------------------------------------------
(* Theorems                                                                *)

LEMMA EntitledIsMay ==
  ASSUME NEW w \in GuardWorkers, NEW s
  PROVE  Guards!Entitled(w, s) <=> May(gReq[w], s)
<1>1. Guards!RouteOf(w).guard = Guard(gReq[w])
  BY RouteOfRequest DEF Guard
<1> QED BY <1>1 DEF Guards!Entitled, May, Account

\* Whatever changes while the guards run, a handler runs only for a caller who was
\* entitled at some moment to what it does, with a token that was alive.
LEMMA GuardsEntitle == ASSUME GInv PROVE Guards!HandledIfEntitled
<1> SUFFICES ASSUME NEW w \in GuardWorkers, gPc[w] = "handle", Guards!RouteOf(w).guard # "Public"
             PROVE  IF gReq[w].token = Nil THEN Guards!RouteOf(w).guard = "OptionalUser"
                    ELSE /\ gBegan[w] < gReq[w].token.until
                         /\ \E s \in gSeen[w] : Guards!Entitled(w, s)
                         /\ gReq[w].caller = gReq[w].token.sub
                         /\ Guards!TypeFor(Guards!RouteOf(w).guard) = "business"
                              /\ Guards!IsEvent(gReq[w].path) => \E s \in gSeen[w] : s.there
  BY DEF Guards!HandledIfEntitled
<1>1. Learned("handle", gReq[w], gBegan[w], gSeen[w], gNow) /\ Guards!RouteOf(w).guard = Guard(gReq[w])
  BY AtGuard DEF Guards!Idle
<1>2. \A s \in gSeen[w] : Guards!Entitled(w, s) <=> May(gReq[w], s)
  BY EntitledIsMay
<1> QED BY <1>1, <1>2 DEF Learned

LEMMA GuardsAdmit == ASSUME GInv PROVE Guards!EntitledIsHandled
<1> SUFFICES ASSUME NEW w \in GuardWorkers, gPc[w] = "refused", gReq[w].token # Nil,
                    gNow < gReq[w].token.until,
                    \A s \in gSeen[w] : Guards!Entitled(w, s) /\ (Guards!IsEvent(gReq[w].path) => s.there)
             PROVE  FALSE
  BY DEF Guards!EntitledIsHandled
<1>1. Excluded(gReq[w], gSeen[w], gNow)
  BY AtGuard DEF Guards!Idle, Learned
<1>2. \A s \in gSeen[w] : Guards!Entitled(w, s) <=> May(gReq[w], s)
  BY EntitledIsMay
<1>3. gNow \in Nat /\ gReq[w].token.until \in Nat
  BY DEF GInv, Guards!TypeOK, ReqRow, GoodToken, Guards!Token
<1> QED BY <1>1, <1>2, <1>3 DEF Excluded

LEMMA GuardsRun == ASSUME Guards!RouteGuardsAssumption PROVE Guards!Spec => []GInv
<1>1. Guards!Init => GInv
  BY InitGInv
<1>2. GInv /\ [Guards!Next]_(Guards!vars) => GInv'
  BY NextKeepsGInv
<1> QED BY <1>1, <1>2, PTL DEF Guards!Spec

\* Whatever changes while the guards run, a handler runs only for a caller who was
\* entitled at some moment to what it does, with a token that was alive.
THEOREM OnlyEntitledAreHandled ==
  ASSUME Guards!RouteGuardsAssumption PROVE Guards!Spec => []Guards!HandledIfEntitled
<1> QED BY GuardsEntitle, GuardsRun, PTL

\* No guard refuses a caller who was entitled all the time since the request came.
THEOREM EntitledAreHandled ==
  ASSUME Guards!RouteGuardsAssumption PROVE Guards!Spec => []Guards!EntitledIsHandled
<1> QED BY GuardsAdmit, GuardsRun, PTL

-----------------------------------------------------------------------------
(* Accounts and guards.                                                    *)

\* What is checked of the guards beside accounts holds for any accounts, organizations,
\* events and lifetimes of tokens: a handler runs only for a caller who was entitled at
\* some time since the request came, and whoever was all the time is not refused.
THEOREM CallersAreGuarded == PartsSpec => []HandledIfEntitled
<1>1. PartsSpec => Spec /\ Guards!Spec
  <2>1. PartsInit => Init /\ Guards!Init
    BY DEF PartsInit
  <2>2. [PartsNext]_<<part, vars, gVars>> => [Next]_vars /\ [Guards!Next]_(Guards!vars)
    BY DEF PartsNext, gVars, Guards!vars, Guards!accounts, Guards!workers
  <2> QED BY <2>1, <2>2, PTL DEF PartsSpec, Spec, Guards!Spec
<1>2. GInv => Guards!TypeOK /\ Guards!HandledIfEntitled /\ Guards!EntitledIsHandled
  BY GuardsEntitle, GuardsAdmit DEF GInv
<1>3. Guards!Spec => []GInv
  BY PartsAssumption, GuardsRun
<1>4. TypeOK /\ Guards!TypeOK /\ Guards!HandledIfEntitled /\ Guards!EntitledIsHandled
        => HandledIfEntitled
  BY DEF HandledIfEntitled
<1> QED BY <1>1, <1>2, <1>3, <1>4, TypeInvariant, PTL
===============================================================================
