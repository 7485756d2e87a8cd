------------------------------ MODULE JoinTokens ------------------------------
(***************************************************************************)
(* The code that attendees scan to join an event.  An event is created     *)
(* with one; events of the time before codes get theirs when the code is   *)
(* first asked for.  Organizers show and replace it.  Whoever scans it and *)
(* is not signed in becomes an account first.  Duplicate joins and leaving *)
(* are in Membership, accounts in Accounts, deletion in EventAdmin.        *)
(***************************************************************************)
EXTENDS Naturals, Requests

CONSTANTS
  Events,    \* events
  Old,       \* those of them that were there before codes
  People,    \* attendees, by their address
  MaxTokens, \* bound on the codes issued
  Nil        \* no event, nobody

\* What an instance has to satisfy.
JoinTokensAssumption ==
  /\ Old \subseteq Events
  /\ Nil \notin Events \cup People
  /\ MaxTokens \in Nat

VARIABLES
  events,    \* events there are
  token,     \* events.qr_token, 0 for the empty string
  lastToken, \* the codes are random: each is one that was never used
  users,     \* attendees who have an account
  joins,     \* event_joins
  valid,     \* no column: the codes that the event of a request had since it began
  raced      \* no column: two requests have been in flight at the same time

tables == <<events, token, lastToken, users, joins>>
vars == <<tables, valid, raced, workers>>

JoinRow == [event : Events, user : People, token : Nat]

\* scanned is the code of the request, token the one that was read or issued.
NoRequest == [event |-> Nil, user |-> Nil, scanned |-> 0, token |-> 0, back |-> "share_answer"]

Begin(w, first, r) ==
  /\ Start(w, first, r)
  /\ raced' = (raced \/ \E v \in Workers : ~Idle(v))

Reply(w) == Step(w, "idle", NoRequest)
OnlyRead == UNCHANGED <<tables, raced>>

Check(w, label, ok, next) ==
  /\ At(w, label)
  /\ IF ok THEN Goto(w, next) ELSE Reply(w)
  /\ OnlyRead

Init ==
  /\ events = Old
  /\ token = [e \in Events |-> 0] /\ lastToken = 0
  /\ users = {} /\ joins = {}
  /\ valid = [w \in Workers |-> {}] /\ raced = FALSE
  /\ pc = [w \in Workers |-> "idle"] /\ req = [w \in Workers |-> NoRequest]

-----------------------------------------------------------------------------
(* Codes                                                                   *)

\* Mutation: the codes of an event are numbered.
NewTokenNumbered(e) ==
  /\ token[e] < MaxTokens
  /\ token' = [token EXCEPT ![e] = @ + 1]
  /\ lastToken' = IF token[e] < lastToken THEN lastToken ELSE lastToken + 1

NewToken(e) ==
  /\ lastToken < MaxTokens
  /\ lastToken' = lastToken + 1
  /\ token' = [token EXCEPT ![e] = lastToken']

\* The INSERT of an event has its code.
CreateEvent ==
  /\ SomeWorkerFree
  /\ \E e \in Events \ events : events' = events \cup {e} /\ NewToken(e)
  /\ raced' = (raced \/ \E v \in Workers : ~Idle(v))
  /\ UNCHANGED <<users, joins, workers>>

\* EnsureEventQRToken: the code there is, or a new one.
EnsureRead(w) ==
  LET e == req[w].event
  IN  /\ At(w, "ensure")
      /\ IF token[e] # 0
         THEN Step(w, req[w].back, [req[w] EXCEPT !.token = token[e]])
         ELSE Goto(w, "ensure_issue")
      /\ OnlyRead

\* Mutation: one code is shown and another one saved.
EnsureIssueTwice(w) ==
  /\ At(w, "ensure_issue")
  /\ NewToken(req[w].event)
  /\ Step(w, req[w].back, [req[w] EXCEPT !.token = lastToken' + 1])
  /\ UNCHANGED <<events, users, joins, raced>>

EnsureIssue(w) ==
  /\ At(w, "ensure_issue")
  /\ NewToken(req[w].event)
  /\ Step(w, req[w].back, [req[w] EXCEPT !.token = lastToken'])
  /\ UNCHANGED <<events, users, joins, raced>>

-----------------------------------------------------------------------------
(* GET share and POST share/regenerate                                     *)

GetShare(w) ==
  /\ \E e \in Events : Begin(w, "share_event", [NoRequest EXCEPT !.event = e])
  /\ UNCHANGED tables

ShareEvent(w) == Check(w, "share_event", req[w].event \in events, "ensure")

Regenerate(w) ==
  /\ \E e \in Events : Begin(w, "regenerate_event", [NoRequest EXCEPT !.event = e])
  /\ UNCHANGED tables

\* The handler looks for the event, and so does RegenerateEventQRToken.
RegenerateEvent(w) == Check(w, "regenerate_event", req[w].event \in events, "regenerate_write")

RegenerateWrite(w) ==
  /\ At(w, "regenerate_write")
  /\ NewToken(req[w].event)
  /\ Step(w, req[w].back, [req[w] EXCEPT !.token = lastToken'])
  /\ UNCHANGED <<events, users, joins, raced>>

\* The link with the code is built and sent.
ShareAnswer(w) == At(w, "share_answer") /\ Reply(w) /\ OnlyRead

-----------------------------------------------------------------------------
(* POST join-by-qr, signed in or as a guest                                *)

\* Any code there was, and one that there was not.
Codes == 1..(lastToken + 1)

JoinSignedIn(w) ==
  /\ \E e \in Events, u \in users, t \in Codes :
        Begin(w, "join_event", [NoRequest EXCEPT !.event = e, !.user = u, !.scanned = t,
                                                 !.back = "join_compare"])
  /\ UNCHANGED tables

JoinAsGuest(w) ==
  /\ \E e \in Events, p \in People, t \in Codes :
        Begin(w, "guest_lookup", [NoRequest EXCEPT !.event = e, !.user = p, !.scanned = t,
                                                   !.back = "join_compare"])
  /\ UNCHANGED tables

\* The account of the address, or else a new one, before the code is looked at.
GuestLookup(w) ==
  /\ At(w, "guest_lookup")
  /\ Goto(w, IF req[w].user \in users THEN "join_event" ELSE "guest_insert")
  /\ OnlyRead

\* The unique index of the address refuses the second INSERT.
GuestInsert(w) ==
  /\ At(w, "guest_insert")
  /\ IF req[w].user \in users THEN Reply(w) ELSE Goto(w, "join_event")
  /\ users' = users \cup {req[w].user}
  /\ UNCHANGED <<events, token, lastToken, joins, raced>>

JoinEvent(w) == Check(w, "join_event", req[w].event \in events, "ensure")

\* Mutation: any code of any event will do.
JoinCompareAny(w) == Check(w, "join_compare", req[w].scanned \in 1..lastToken, "join_lookup")

JoinCompare(w) == Check(w, "join_compare", req[w].scanned = req[w].token, "join_lookup")

JoinLookup(w) ==
  Check(w, "join_lookup",
        ~\E j \in joins : j.event = req[w].event /\ j.user = req[w].user, "join_insert")

JoinInsert(w) ==
  /\ At(w, "join_insert")
  /\ joins' = joins \cup {[event |-> req[w].event, user |-> req[w].user, token |-> req[w].scanned]}
  /\ Reply(w)
  /\ UNCHANGED <<events, token, lastToken, users, raced>>

-----------------------------------------------------------------------------
\* A statement fails or the process dies.
AbortRequest(w) == ~Idle(w) /\ Reply(w) /\ OnlyRead

Observe ==
  valid' = [w \in Workers |->
    IF pc'[w] = "idle" THEN {}
    ELSE (IF pc[w] = "idle" THEN {token[req'[w].event]} ELSE valid[w]) \cup {token'[req'[w].event]}]

Next ==
  /\ \/ CreateEvent
     \/ \E w \in Workers :
          \/ GetShare(w) \/ ShareEvent(w) \/ EnsureRead(w) \/ EnsureIssue(w) \/ ShareAnswer(w)
          \/ Regenerate(w) \/ RegenerateEvent(w) \/ RegenerateWrite(w)
          \/ JoinSignedIn(w) \/ JoinAsGuest(w) \/ GuestLookup(w) \/ GuestInsert(w)
          \/ JoinEvent(w) \/ JoinCompare(w) \/ JoinLookup(w) \/ JoinInsert(w)
          \/ AbortRequest(w)
  /\ Observe

Spec == Init /\ [][Next]_vars

-----------------------------------------------------------------------------
Labels == {"idle", "share_event", "ensure", "ensure_issue", "share_answer", "regenerate_event",
           "regenerate_write", "guest_lookup", "guest_insert", "join_event", "join_compare",
           "join_lookup", "join_insert"}

Request == [event : Events \cup {Nil}, user : People \cup {Nil}, scanned : Nat, token : Nat,
            back : {"share_answer", "join_compare"}]

\* The types of the rows and requests; every event has a code from its creation
\* but those of the time before codes.
TypeOK ==
  /\ events \subseteq Events /\ users \subseteq People
  /\ token \in [Events -> 0..lastToken] /\ lastToken \in 0..MaxTokens
  /\ \A e \in events \ Old : token[e] # 0
  /\ joins \subseteq JoinRow
  /\ valid \in [Workers -> SUBSET (0..lastToken)] /\ raced \in BOOLEAN
  /\ pc \in [Workers -> Labels] /\ req \in [Workers -> Request]

\* While requests run one at a time, the code that an organizer is about to be shown
\* lets attendees in.
SharedIsAccepted ==
  ~raced => \A w \in Workers : pc[w] = "share_answer" => req[w].token = token[req[w].event]

\* However requests interleave, the codes of two events differ, and one that was replaced
\* is never the code of any event again: a poster that was taken down is of no use.
ReplacedForGood ==
  [][\A e \in Events : token'[e] # token[e] => token'[e] = lastToken' /\ lastToken < lastToken']_vars

\* However requests interleave, nobody joins with a code that the event did not have
\* at some time since the request began.
JoinedWithCode ==
  [][\A j \in joins' \ joins : \E w \in Workers :
       req[w].event = j.event /\ req[w].user = j.user /\ j.token \in valid[w] \ {0}]_vars
=============================================================================
