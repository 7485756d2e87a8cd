----------------------------- MODULE OtpChallenge -----------------------------
(***************************************************************************)
(* One-time codes: the second step of a business login, the verification   *)
(* of an attendee's address and the reset of an attendee's password.  The  *)
(* three have tables and handlers of their own that run the same protocol  *)
(* and differ in what an accepted code does; a challenge's purpose says    *)
(* which one it belongs to.  A code is a number that no other challenge    *)
(* was given (two random codes are taken to differ); 0 is a wrong guess.   *)
(***************************************************************************)
EXTENDS Requests, Integers, Sequences

CONSTANTS
  Users,          \* the accounts
  Organizers,     \* the accounts of business users, the others are attendees
  Purposes,       \* the purposes in this instance
  maxOTPAttempts, \* wrong codes that a challenge allows
  TTL,            \* lifetime of a code
  MaxTime,        \* the clock stops here
  MaxChallenges,  \* bound on the challenges created
  MaxCodes,       \* bound on the codes sent
  Nil             \* no account

ASSUME OtpAssumption ==
  /\ Purposes \subseteq {"login", "registration", "reset"}
  /\ Organizers \subseteq Users /\ Nil \notin Users
  /\ {maxOTPAttempts, TTL, MaxTime, MaxChallenges, MaxCodes} \subseteq Nat

VARIABLES
  now,        \* the clock
  users,      \* accounts that exist
  verified,   \* users.email_verified
  challenges, \* the challenge rows, in order of creation
  lastCode,   \* the last code generated
  granted,    \* how often each challenge was answered with what it protects
  raced       \* no column: two requests have been in flight at the same time

accounts == <<users, verified>>
vars == <<now, accounts, challenges, lastCode, granted, raced, workers>>

WrongCode == 0
Unconsumed == 0                 \* consumed_at IS NULL

\* until is no column: the latest expiry that the row ever had.
Challenge == [user : Users, purpose : Purposes, code : Nat, expires : Nat, until : Nat,
              attempts : Nat, consumed : Nat]

NoRequest == [user |-> Nil, purpose |-> "login", challenge |-> 0, code |-> 0,
              attempts |-> 0, at |-> 0]
Request == [user : Users \cup {Nil}, purpose : Purposes \cup {"login"}, challenge : Nat,
            code : Nat, attempts : Nat, at : Nat]

Init ==
  /\ now = 1
  /\ users = Users /\ verified = {}
  /\ challenges = <<>> /\ granted = <<>>
  /\ lastCode = 0 /\ raced = FALSE
  /\ pc = [w \in Workers |-> "idle"]
  /\ req = [w \in Workers |-> NoRequest]

\* A request starts, alone or while others are in flight.
Overlap == raced' = (raced \/ \E w \in Workers : ~Idle(w))
Begin(w, first, r) == Start(w, first, r) /\ Overlap

Reply(w) == Step(w, "idle", NoRequest)

Check(w, label, ok, next) ==
  /\ At(w, label)
  /\ IF ok THEN Goto(w, next) ELSE Reply(w)

Row(w) == challenges[req[w].challenge]

\* The account of the challenge still exists (accounts are never disabled).
HasAccount(w) == Row(w).user \in users

Unwritten == UNCHANGED <<now, accounts, challenges, lastCode, granted>>
OnlyRead == Unwritten /\ UNCHANGED raced

-----------------------------------------------------------------------------
(* A new challenge: business login, registration or login of an address    *)
(* that is not verified, forgotten password.  The clock is read before the *)
(* transaction starts.                                                     *)

RequestCode(w) ==
  /\ \E u \in users, p \in Purposes :
        /\ p = "login" <=> u \in Organizers
        /\ Begin(w, "create", [NoRequest EXCEPT !.user = u, !.purpose = p, !.at = now])
  /\ Unwritten

\* The challenges that a new one invalidates.
OpenFor(r) == {i \in DOMAIN challenges :
                 /\ challenges[i].user = r.user
                 /\ challenges[i].purpose = r.purpose
                 /\ challenges[i].consumed = Unconsumed}

NewCode ==
  /\ lastCode < MaxCodes
  /\ lastCode' = lastCode + 1

NewChallenge(r) ==
  [user |-> r.user, purpose |-> r.purpose, code |-> lastCode', expires |-> r.at + TTL,
   until |-> r.at + TTL, attempts |-> 0, consumed |-> Unconsumed]

\* Mutation: earlier challenges stay open.
CreateChallengeOnly(w) ==
  LET r == req[w]
  IN  /\ At(w, "create")
      /\ Len(challenges) < MaxChallenges /\ NewCode
      /\ challenges' = Append(challenges, NewChallenge(r))
      /\ granted' = Append(granted, 0)
      /\ Step(w, "create_email",
              [r EXCEPT !.challenge = Len(challenges'), !.code = lastCode'])
      /\ UNCHANGED <<now, accounts, raced>>

\* One transaction: the open challenges are consumed, the new row inserted.
CreateChallenge(w) ==
  LET r == req[w]
      superseded == [i \in DOMAIN challenges |->
                       IF i \in OpenFor(r) THEN [challenges[i] EXCEPT !.consumed = r.at]
                       ELSE challenges[i]]
  IN  /\ At(w, "create")
      /\ Len(challenges) < MaxChallenges /\ NewCode
      /\ challenges' = Append(superseded, NewChallenge(r))
      /\ granted' = Append(granted, 0)
      /\ Step(w, "create_email",
              [r EXCEPT !.challenge = Len(challenges'), !.code = lastCode'])
      /\ UNCHANGED <<now, accounts, raced>>

\* The address is read back through the challenge.
CreateEmail(w) ==
  /\ Check(w, "create_email", HasAccount(w), "mail")
  /\ OnlyRead

\* A mail that cannot be sent is answered with an error: AbortRequest.
SendMail(w) == At(w, "mail") /\ Reply(w) /\ OnlyRead

-----------------------------------------------------------------------------
(* A new code for a challenge.                                             *)

Resend(w) ==
  /\ \E i \in DOMAIN challenges :
        Begin(w, "resend_read", [NoRequest EXCEPT !.challenge = i])
  /\ Unwritten

ResendRead(w) ==
  /\ Check(w, "resend_read", Row(w).consumed = Unconsumed, "resend_user")
  /\ OnlyRead

\* The clock is read when the account was found.
ResendUser(w) ==
  /\ At(w, "resend_user")
  /\ IF HasAccount(w)
     THEN Step(w, "resend_update", [req[w] EXCEPT !.at = now])
     ELSE Reply(w)
  /\ OnlyRead

\* The challenge with the new code; an expiry that another resend set later is
\* moved back.
Renewed(w) ==
  LET c == Row(w)
      expires == req[w].at + TTL
  IN  [c EXCEPT !.code = lastCode', !.expires = expires, !.attempts = 0,
                !.until = IF expires > @ THEN expires ELSE @]

\* Mutation: the row is reset as a whole, to an open challenge.
ResendUpdateReopens(w) ==
  /\ At(w, "resend_update")
  /\ NewCode
  /\ challenges' = [challenges EXCEPT ![req[w].challenge] =
                      [Renewed(w) EXCEPT !.consumed = Unconsumed]]
  /\ Step(w, "mail", [req[w] EXCEPT !.code = lastCode'])
  /\ UNCHANGED <<now, accounts, granted, raced>>

\* The row is updated whether it was consumed meanwhile or not.
ResendUpdate(w) ==
  /\ At(w, "resend_update")
  /\ NewCode
  /\ challenges' = [challenges EXCEPT ![req[w].challenge] = Renewed(w)]
  /\ Step(w, "mail", [req[w] EXCEPT !.code = lastCode'])
  /\ UNCHANGED <<now, accounts, granted, raced>>

-----------------------------------------------------------------------------
(* A code is submitted: any code that was generated, whether its mail      *)
(* arrived or not (a guess may be right), or a wrong one.                  *)

Verify(w) ==
  /\ \E i \in DOMAIN challenges :
       \E code \in 1..lastCode \cup {WrongCode} :
          Begin(w, "verify_read", [NoRequest EXCEPT !.challenge = i, !.code = code])
  /\ Unwritten

\* Mutation: expiry is not tested.
VerifiableEver(c) == c.consumed = Unconsumed /\ c.attempts < maxOTPAttempts

\* Mutation: wrong codes are not limited.
VerifiableUncounted(c) == c.consumed = Unconsumed /\ now <= c.expires

\* Consumed, expired and exhausted challenges are refused, in this order.
Verifiable(c) ==
  /\ c.consumed = Unconsumed
  /\ now <= c.expires
  /\ c.attempts < maxOTPAttempts

VerifyRead(w) ==
  /\ At(w, "verify_read")
  /\ IF Verifiable(Row(w))
     THEN Step(w, IF req[w].code = Row(w).code THEN "verify_consume" ELSE "verify_count",
                  [req[w] EXCEPT !.attempts = Row(w).attempts, !.at = now])
     ELSE Reply(w)
  /\ OnlyRead

\* attempts = attempts + 1 in SQL, whatever was read.
VerifyCount(w) ==
  /\ At(w, "verify_count")
  /\ challenges' = [challenges EXCEPT ![req[w].challenge].attempts = @ + 1]
  /\ Reply(w)
  /\ UNCHANGED <<now, accounts, lastCode, granted, raced>>

Consumed(w) == [challenges EXCEPT ![req[w].challenge] =
                  [@ EXCEPT !.consumed = req[w].at, !.attempts = req[w].attempts + 1]]

\* Mutation: the challenge is not marked.
VerifyConsumeNothing(w) ==
  /\ At(w, "verify_consume") /\ Row(w).purpose # "reset"
  /\ Goto(w, "verify_account")
  /\ OnlyRead

\* The row is marked as consumed, without a second look at it; a registration
\* verifies the address in the same transaction.
VerifyConsume(w) ==
  /\ At(w, "verify_consume") /\ Row(w).purpose # "reset"
  /\ challenges' = Consumed(w)
  /\ verified' = IF Row(w).purpose = "registration"
                 THEN verified \cup (users \cap {Row(w).user}) ELSE verified
  /\ Goto(w, "verify_account")
  /\ UNCHANGED <<now, users, lastCode, granted, raced>>

\* A token for the account, if it is still there.
VerifyAccount(w) ==
  /\ At(w, "verify_account")
  /\ granted' = IF HasAccount(w) THEN [granted EXCEPT ![req[w].challenge] = @ + 1] ELSE granted
  /\ Reply(w)
  /\ UNCHANGED <<now, accounts, challenges, lastCode, raced>>

\* One transaction: the challenge is consumed and the password replaced, or
\* neither when the account is gone.
ConfirmReset(w) ==
  /\ At(w, "verify_consume") /\ Row(w).purpose = "reset"
  /\ IF HasAccount(w)
     THEN /\ challenges' = Consumed(w)
          /\ granted' = [granted EXCEPT ![req[w].challenge] = @ + 1]
     ELSE UNCHANGED <<challenges, granted>>
  /\ Reply(w)
  /\ UNCHANGED <<now, accounts, lastCode, raced>>

-----------------------------------------------------------------------------
\* An attendee's account; its challenges stay.
DeleteAccount ==
  /\ SomeWorkerFree
  /\ \E u \in users \ Organizers : users' = users \ {u} /\ verified' = verified \ {u}
  /\ Overlap
  /\ UNCHANGED <<now, challenges, lastCode, granted, workers>>

AbortRequest(w) == ~Idle(w) /\ Reply(w) /\ OnlyRead

Tick ==
  /\ now < MaxTime
  /\ now' = now + 1
  /\ UNCHANGED <<accounts, challenges, lastCode, granted, raced, workers>>

WorkerStep(w) ==
  \/ RequestCode(w) \/ CreateChallenge(w) \/ CreateEmail(w) \/ SendMail(w)
  \/ Resend(w) \/ ResendRead(w) \/ ResendUser(w) \/ ResendUpdate(w)
  \/ Verify(w) \/ VerifyRead(w) \/ VerifyCount(w) \/ VerifyConsume(w)
  \/ VerifyAccount(w) \/ ConfirmReset(w) \/ AbortRequest(w)

Next == (\E w \in Workers : WorkerStep(w)) \/ DeleteAccount \/ Tick

Spec == Init /\ [][Next]_vars

-----------------------------------------------------------------------------
Labels == {"idle", "create", "create_email", "mail", "resend_read", "resend_user",
           "resend_update", "verify_read", "verify_count", "verify_consume",
           "verify_account"}

\* The types of the tables and of the requests; every request works on a
\* challenge that exists.
TypeOK ==
  /\ now \in Nat \ {0}
  /\ verified \subseteq users /\ users \subseteq Users
  /\ challenges \in Seq(Challenge)
  /\ granted \in Seq(Nat) /\ Len(granted) = Len(challenges)
  /\ lastCode \in Nat /\ raced \in BOOLEAN
  /\ pc \in [Workers -> Labels] /\ req \in [Workers -> Request]
  /\ \A w \in Workers :
       /\ pc[w] = "create" =>
            req[w].user \in Users /\ req[w].purpose \in Purposes /\ req[w].at > 0
       /\ pc[w] \notin {"idle", "create"} => req[w].challenge \in DOMAIN challenges

\* However requests interleave, an account has at most one open challenge of a
\* purpose: CreateChallenge invalidates the earlier ones, and nothing, a resend
\* that read the row before least of all, opens one again.
AtMostOneOpen ==
  \A i, j \in DOMAIN challenges :
    /\ challenges[i].user = challenges[j].user
    /\ challenges[i].purpose = challenges[j].purpose
    /\ challenges[i].consumed = Unconsumed
    /\ challenges[j].consumed = Unconsumed
    => i = j

\* No step reopens a challenge that was used or superseded.
ConsumedIsFinal ==
  [][\A i \in DOMAIN challenges :
       challenges[i].consumed # Unconsumed => challenges'[i].consumed # Unconsumed]_vars

\* What a challenge protects is granted only with the challenge consumed, at a
\* time in a lifetime that a code of it had, also when a resend or another
\* verification ran in between.
GrantTimely ==
  \A i \in DOMAIN challenges :
    granted[i] > 0 => challenges[i].consumed \in 1..challenges[i].until

-----------------------------------------------------------------------------
(* While requests run one at a time.                                       *)

\* A code is good for one grant ("Verification code was already used").
GrantedOnce == ~raced => \A i \in DOMAIN granted : granted[i] <= 1

\* Between two codes a challenge counts at most maxOTPAttempts attempts.
AttemptsBounded == ~raced => \A i \in DOMAIN challenges : challenges[i].attempts <= maxOTPAttempts

\* Only the last code sent for the newest challenge of an account and purpose
\* is granted: a new login and a resend both supersede the codes before them.
OnlyLatestCode ==
  [][~raced => \A i \in DOMAIN granted : granted'[i] # granted[i] =>
       /\ \A j \in DOMAIN challenges :
            (challenges[j].user = challenges[i].user
             /\ challenges[j].purpose = challenges[i].purpose) => j <= i
       /\ \E w \in Workers : req[w].challenge = i /\ req[w].code = challenges[i].code]_vars
=============================================================================
