------------------------------ MODULE OtpProofs -------------------------------
(***************************************************************************)
(* Proofs about OtpChallenge, for any number of requests, accounts and     *)
(* challenges and any clock: the types, AtMostOneOpen, ConsumedIsFinal and *)
(* GrantTimely.  None of the three is inductive: a verification writes a   *)
(* stamp that it took before another request ran, so what is known of that *)
(* stamp has to be carried along (StampsValid, ConsumptionRecorded).       *)
(***************************************************************************)
EXTENDS MCOtpAndDevices, SequenceTheorems, TLAPS

\* An expiry may be moved back, but was once no later than until.
LifetimesBounded == \A i \in DOMAIN challenges : challenges[i].expires <= challenges[i].until

\* A verification that is about to consume a challenge found it in its lifetime.
StampsValid ==
  \A w \in Workers : pc[w] = "verify_consume" =>
    req[w].at \in 1..challenges[req[w].challenge].until

\* A verification that is about to answer has consumed its challenge.
ConsumptionRecorded ==
  \A w \in Workers : pc[w] = "verify_account" =>
    LET c == challenges[req[w].challenge] IN c.consumed \in 1..c.until

IInv ==
  /\ TypeOK
  /\ AtMostOneOpen
  /\ LifetimesBounded /\ StampsValid /\ ConsumptionRecorded
  /\ GrantTimely
-----------------------------------------------------------------------------
(* Types                                                                   *)

\* The tables stay, a worker moves to another statement.
LEMMA MoveKeepsTypes ==
  ASSUME TypeOK, Unwritten, raced' \in BOOLEAN,
         NEW w \in Workers, NEW l \in Labels, NEW r \in Request, Step(w, l, r),
         l \notin {"idle", "create"} => r.challenge \in DOMAIN challenges,
         l = "create" => r.user \in Users /\ r.purpose \in Purposes /\ r.at > 0
  PROVE  TypeOK'
<1>1. \A v \in Workers : pc'[v] = IF v = w THEN l ELSE pc[v]
  BY DEF TypeOK, Step
<1>2. \A v \in Workers : req'[v] = IF v = w THEN r ELSE req[v]
  BY DEF TypeOK, Step
<1>3. pc' \in [Workers -> Labels] /\ req' \in [Workers -> Request]
  BY DEF TypeOK, Step
<1> QED
  BY <1>1, <1>2, <1>3 DEF TypeOK, Unwritten, accounts

LEMMA NoRequestType == NoRequest \in Request
BY DEF NoRequest, Request

\* Goto, Reply and Check are moves as well.
LEMMA GotoKeepsTypes ==
  ASSUME TypeOK, OnlyRead, NEW w \in Workers, NEW l \in Labels, Goto(w, l),
         l # "create", l # "idle" => req[w].challenge \in DOMAIN challenges
  PROVE  TypeOK'
<1>a. Unwritten /\ raced' \in BOOLEAN
  BY DEF OnlyRead, TypeOK
<1>1. Step(w, l, req[w])
  BY DEF TypeOK, Goto, Step
<1>2. req[w] \in Request
  BY DEF TypeOK
<1> QED
  BY <1>a, <1>1, <1>2, MoveKeepsTypes

LEMMA ReplyKeepsTypes ==
  ASSUME TypeOK, OnlyRead, NEW w \in Workers, Reply(w)
  PROVE  TypeOK'
<1>1. Unwritten /\ raced' \in BOOLEAN
  BY DEF OnlyRead, TypeOK
<1> QED
  BY <1>1, NoRequestType, MoveKeepsTypes DEF Reply, Labels

LEMMA CheckKeepsTypes ==
  ASSUME TypeOK, OnlyRead, NEW w \in Workers, NEW l, NEW next \in Labels \ {"idle", "create"},
         l \notin {"idle", "create"}, At(w, l), Goto(w, next) \/ Reply(w)
  PROVE  TypeOK'
<1>1. req[w].challenge \in DOMAIN challenges
  BY DEF TypeOK, At
<1> QED
  BY <1>1, GotoKeepsTypes, ReplyKeepsTypes

\* The initial tables are empty and every worker is idle.
LEMMA InitTypes == Init => TypeOK
<1> SUFFICES ASSUME Init PROVE TypeOK
  OBVIOUS
<1>1. raced \in BOOLEAN
  BY Zenon DEF Init
<1> QED
  BY <1>1, NoRequestType DEF Init, TypeOK, Labels

\* A request that begins is a move that may have raced.
LEMMA BeginMoves ==
  ASSUME NEW w \in Workers, NEW l, NEW r, Begin(w, l, r)
  PROVE  Step(w, l, r) /\ raced' \in BOOLEAN
BY Zenon DEF Begin, Overlap, Start

\* The requests that start.
LEMMA StartKeepsTypes ==
  ASSUME TypeOK, NEW w \in Workers, RequestCode(w) \/ Resend(w) \/ Verify(w)
  PROVE  TypeOK'
<1>1. CASE RequestCode(w)
  <2>1. PICK u \in users, p \in Purposes :
             Begin(w, "create", [NoRequest EXCEPT !.user = u, !.purpose = p, !.at = now])
    BY <1>1 DEF RequestCode
  <2> DEFINE r == [NoRequest EXCEPT !.user = u, !.purpose = p, !.at = now]
  <2>2. NoRequest \in Request /\ u \in Users /\ now \in Nat \ {0}
    BY NoRequestType DEF TypeOK
  <2>3. r \in Request /\ r.user = u /\ r.purpose = p /\ r.at = now
    BY <2>2 DEF Request
  <2>4. r.at > 0
    BY <2>2, <2>3
  <2>5. Step(w, "create", r) /\ raced' \in BOOLEAN
    BY <2>1, BeginMoves
  <2> QED
    BY <1>1, <2>2, <2>3, <2>4, <2>5, MoveKeepsTypes DEF RequestCode, Labels
<1>2. CASE Resend(w)
  <2>1. PICK i \in DOMAIN challenges : Begin(w, "resend_read", [NoRequest EXCEPT !.challenge = i])
    BY <1>2 DEF Resend
  <2>a. i \in Nat
    BY DEF TypeOK
  <2>2. [NoRequest EXCEPT !.challenge = i] \in Request
    BY <2>a DEF NoRequest, Request
  <2>3. Step(w, "resend_read", [NoRequest EXCEPT !.challenge = i]) /\ raced' \in BOOLEAN
    BY <2>1, BeginMoves
  <2> QED
    <3>1. [NoRequest EXCEPT !.challenge = i].challenge = i
      BY DEF NoRequest
    <3> QED
      BY <1>2, <2>2, <2>3, <3>1, MoveKeepsTypes DEF Resend, Labels
<1>3. CASE Verify(w)
  <2>1. PICK i \in DOMAIN challenges :
          \E code \in 1..lastCode \cup {WrongCode} :
             Begin(w, "verify_read", [NoRequest EXCEPT !.challenge = i, !.code = code])
    BY <1>3 DEF Verify
  <2>2. PICK code \in 1..lastCode \cup {WrongCode} :
             Begin(w, "verify_read", [NoRequest EXCEPT !.challenge = i, !.code = code])
    BY <2>1
  <2>a. i \in Nat /\ challenges[i] \in Challenge
    BY DEF TypeOK
  <2>4. code \in Nat
    BY <2>2 DEF TypeOK, WrongCode
  <2>5. [NoRequest EXCEPT !.challenge = i, !.code = code] \in Request
    BY <2>4, <2>a DEF NoRequest, Request
  <2>6. /\ Step(w, "verify_read", [NoRequest EXCEPT !.challenge = i, !.code = code])
        /\ raced' \in BOOLEAN
    BY <2>2, BeginMoves
  <2> QED
    BY <1>3, <2>5, <2>6, MoveKeepsTypes DEF Verify, Labels, NoRequest
<1> QED
  BY <1>1, <1>2, <1>3

\* The statements that read.
LEMMA ReadKeepsTypes ==
  ASSUME TypeOK, NEW w \in Workers,
         CreateEmail(w) \/ ResendRead(w) \/ ResendUser(w) \/ VerifyRead(w) \/ AbortRequest(w)
  PROVE  TypeOK'
<1>1. CASE CreateEmail(w)
  BY <1>1, CheckKeepsTypes DEF CreateEmail, Check, Labels
<1>2. CASE ResendRead(w)
  BY <1>2, CheckKeepsTypes DEF ResendRead, Check, Labels
<1>3. CASE ResendUser(w)
  <2> DEFINE r == [req[w] EXCEPT !.at = now]
  <2>1. req[w].challenge \in DOMAIN challenges /\ req[w] \in Request /\ now \in Nat
    BY <1>3 DEF ResendUser, At, TypeOK
  <2>2. r \in Request /\ r.challenge = req[w].challenge
    BY <2>1 DEF Request
  <2>3. Step(w, "resend_update", r) \/ Reply(w)
    BY <1>3 DEF ResendUser
  <2> QED
    BY <1>3, <2>1, <2>2, <2>3, MoveKeepsTypes, ReplyKeepsTypes
       DEF ResendUser, OnlyRead, TypeOK, Labels
<1>4. CASE VerifyRead(w)
  <2>1. req[w].challenge \in DOMAIN challenges /\ req[w] \in Request
    BY <1>4 DEF VerifyRead, At, TypeOK
  <2>2. Row(w) \in Challenge
    BY <2>1 DEF TypeOK, Row
  <2>3. [req[w] EXCEPT !.attempts = Row(w).attempts, !.at = now] \in Request
    BY <2>1, <2>2 DEF TypeOK, Request, Challenge
  <2>4. [req[w] EXCEPT !.attempts = Row(w).attempts, !.at = now].challenge = req[w].challenge
    BY <2>1 DEF Request
  <2>5. CASE Verifiable(Row(w))
    BY <1>4, <2>1, <2>3, <2>4, <2>5, MoveKeepsTypes DEF VerifyRead, OnlyRead, TypeOK, Labels
  <2>6. CASE ~Verifiable(Row(w))
    BY <1>4, <2>6, ReplyKeepsTypes DEF VerifyRead
  <2> QED
    BY <2>5, <2>6
<1>5. CASE AbortRequest(w)
  BY <1>5, ReplyKeepsTypes DEF AbortRequest
<1> QED
  BY <1>1, <1>2, <1>3, <1>4, <1>5

\* The tables change, and the requests in progress keep what they refer to.
LEMMA WriteKeepsTypes ==
  ASSUME TypeOK, NEW w \in Workers, NEW l \in Labels, NEW r \in Request,
         Step(w, l, r),
         now' = now, users' = users, verified' \subseteq users,
         challenges' \in Seq(Challenge), Len(challenges') >= Len(challenges),
         granted' \in Seq(Nat), Len(granted') = Len(challenges'),
         lastCode' \in Nat, raced' \in BOOLEAN,
         l # "create",
         l # "idle" => r.challenge \in DOMAIN challenges'
  PROVE  TypeOK'
<1>1. \A v \in Workers : pc'[v] = IF v = w THEN l ELSE pc[v]
  BY DEF TypeOK, Step
<1>2. \A v \in Workers : req'[v] = IF v = w THEN r ELSE req[v]
  BY DEF TypeOK, Step
<1>3. pc' \in [Workers -> Labels] /\ req' \in [Workers -> Request]
  BY DEF TypeOK, Step
<1>4. DOMAIN challenges \subseteq DOMAIN challenges'
  BY DEF TypeOK
<1> QED
  BY <1>1, <1>2, <1>3, <1>4 DEF TypeOK

\* An update of one challenge keeps the number and the type of the rows.
LEMMA UpdateKeepsRows ==
  ASSUME TypeOK, NEW i \in DOMAIN challenges, NEW c \in Challenge,
         challenges' = [challenges EXCEPT ![i] = c]
  PROVE  /\ challenges' \in Seq(Challenge)
         /\ Len(challenges') = Len(challenges)
BY DEF TypeOK

\* The request of a statement that writes refers to a row.
LEMMA WriterHasRow ==
  ASSUME TypeOK, NEW w \in Workers, pc[w] \notin {"idle", "create"}
  PROVE  /\ req[w] \in Request
         /\ req[w].challenge \in DOMAIN challenges
         /\ Row(w) \in Challenge
BY DEF TypeOK, Row

LEMMA CreateKeepsTypes ==
  ASSUME TypeOK, NEW w \in Workers, CreateChallenge(w)
  PROVE  TypeOK'
<1> DEFINE r == req[w]
           superseded == [i \in DOMAIN challenges |->
                            IF i \in OpenFor(r) THEN [challenges[i] EXCEPT !.consumed = r.at]
                            ELSE challenges[i]]
           row == NewChallenge(r)
<1>1. /\ challenges' = Append(superseded, row)
      /\ granted' = Append(granted, 0)
      /\ Step(w, "create_email", [r EXCEPT !.challenge = Len(challenges'), !.code = lastCode'])
  BY DEF CreateChallenge
<1>2. r \in Request /\ r.user \in Users /\ r.purpose \in Purposes /\ lastCode' \in Nat
  BY DEF CreateChallenge, At, TypeOK, NewCode
<1>a. r.at \in Nat /\ r.at + TTL \in Nat
  BY <1>2, OtpAssumption DEF Request
<1>3. row \in Challenge
  BY <1>2, <1>a DEF NewChallenge, Challenge, Unconsumed
<1>4. superseded \in Seq(Challenge) /\ Len(superseded) = Len(challenges)
  <2>1. \A i \in DOMAIN challenges : challenges[i] \in Challenge
    BY DEF TypeOK
  <2>2. \A c \in Challenge : [c EXCEPT !.consumed = r.at] \in Challenge
    BY <1>a DEF Challenge
  <2>3. \A i \in DOMAIN challenges : superseded[i] \in Challenge
    BY <2>1, <2>2
  <2> QED
    BY <2>3 DEF TypeOK
<1> HIDE DEF superseded, row
<1>5. challenges' \in Seq(Challenge) /\ Len(challenges') = Len(challenges) + 1
  BY <1>1, <1>3, <1>4 DEF TypeOK
<1>6. granted' \in Seq(Nat) /\ Len(granted') = Len(challenges')
  BY <1>1, <1>5 DEF TypeOK
<1>7. Len(challenges') \in Nat /\ Len(challenges') \in DOMAIN challenges'
  BY <1>5 DEF TypeOK
<1>8. [r EXCEPT !.challenge = Len(challenges'), !.code = lastCode'] \in Request
  BY <1>2, <1>7 DEF Request
<1>9. [r EXCEPT !.challenge = Len(challenges'), !.code = lastCode'].challenge = Len(challenges')
  BY <1>2 DEF Request
<1>10. /\ now' = now /\ users' = users /\ verified' \subseteq users
       /\ raced' \in BOOLEAN /\ lastCode' \in Nat
       /\ Len(challenges') >= Len(challenges)
  BY <1>2, <1>5 DEF CreateChallenge, accounts, TypeOK
<1> QED
  BY <1>1, <1>5, <1>6, <1>7, <1>8, <1>9, <1>10, WriteKeepsTypes DEF Labels

LEMMA MailKeepsTypes ==
  ASSUME TypeOK, NEW w \in Workers, SendMail(w)
  PROVE  TypeOK'
BY ReplyKeepsTypes DEF SendMail

\* A renewed challenge is the same one with a lifetime that until bounds.
LEMMA RenewedRow ==
  ASSUME NEW w \in Workers, req[w] \in Request, Row(w) \in Challenge, lastCode' \in Nat
  PROVE  LET c == Renewed(w)
         IN  /\ c \in Challenge
             /\ c.user = Row(w).user /\ c.purpose = Row(w).purpose
             /\ c.consumed = Row(w).consumed
             /\ c.expires <= c.until /\ Row(w).until <= c.until
<1> DEFINE expires == req[w].at + TTL
           until == IF expires > Row(w).until THEN expires ELSE Row(w).until
<1>1. expires \in Nat /\ Row(w).until \in Nat
  BY OtpAssumption DEF Request, Challenge
<1>2. until \in Nat /\ expires <= until /\ Row(w).until <= until
  BY <1>1
<1>3. Renewed(w) = [Row(w) EXCEPT !.code = lastCode', !.expires = expires, !.attempts = 0,
                                  !.until = until]
  BY DEF Renewed, Challenge
<1> DEFINE d == [Row(w) EXCEPT !.code = lastCode', !.expires = expires, !.attempts = 0,
                               !.until = until]
<1> HIDE DEF expires, until
<1>4. /\ d \in Challenge
      /\ d.user = Row(w).user /\ d.purpose = Row(w).purpose /\ d.consumed = Row(w).consumed
      /\ d.expires = expires /\ d.until = until
  BY <1>1, <1>2 DEF Challenge
<1>5. Renewed(w) = d
  BY <1>3
<1> HIDE DEF d
<1> QED
  BY <1>1, <1>2, <1>4, <1>5

LEMMA ResendUpdateKeepsTypes ==
  ASSUME TypeOK, NEW w \in Workers, ResendUpdate(w)
  PROVE  TypeOK'
<1> DEFINE c == Renewed(w)
           r == [req[w] EXCEPT !.code = lastCode']
<1>1. /\ req[w] \in Request /\ req[w].challenge \in DOMAIN challenges
      /\ Row(w) \in Challenge
  BY WriterHasRow DEF ResendUpdate, At
<1>2. lastCode' \in Nat
  BY DEF ResendUpdate, NewCode, TypeOK
<1>3. c \in Challenge
  BY <1>1, <1>2, RenewedRow
<1>4. challenges' = [challenges EXCEPT ![req[w].challenge] = c]
  BY DEF ResendUpdate
<1> HIDE DEF c
<1>5. challenges' \in Seq(Challenge) /\ Len(challenges') = Len(challenges)
  BY <1>1, <1>3, <1>4, UpdateKeepsRows
<1>6. r \in Request /\ r.challenge = req[w].challenge
  BY <1>1, <1>2 DEF Request
<1>7. r.challenge \in DOMAIN challenges'
  BY <1>1, <1>4, <1>6
<1>8. Step(w, "mail", r)
  BY DEF ResendUpdate
<1>9. /\ now' = now /\ users' = users /\ verified' \subseteq users
      /\ granted' \in Seq(Nat) /\ Len(granted') = Len(challenges')
      /\ raced' \in BOOLEAN
      /\ Len(challenges') >= Len(challenges)
  BY <1>5 DEF ResendUpdate, accounts, TypeOK
<1> QED
  BY <1>2, <1>5, <1>6, <1>7, <1>8, <1>9, WriteKeepsTypes DEF Labels

LEMMA VerifyCountKeepsTypes ==
  ASSUME TypeOK, NEW w \in Workers, VerifyCount(w)
  PROVE  TypeOK'
<1> DEFINE c == [Row(w) EXCEPT !.attempts = @ + 1]
<1>1. req[w].challenge \in DOMAIN challenges /\ Row(w) \in Challenge
  BY WriterHasRow DEF VerifyCount, At
<1>2. c \in Challenge
  BY <1>1 DEF Challenge
<1>3. challenges' = [challenges EXCEPT ![req[w].challenge] = c]
  BY DEF VerifyCount, Row
<1>4. challenges' \in Seq(Challenge) /\ Len(challenges') = Len(challenges)
  BY <1>1, <1>2, <1>3, UpdateKeepsRows
<1>5. Step(w, "idle", NoRequest)
  BY DEF VerifyCount, Reply
<1>6. /\ now' = now /\ users' = users /\ verified' = verified /\ lastCode' = lastCode
      /\ granted' = granted /\ raced' = raced
  BY DEF VerifyCount, accounts
<1> HIDE DEF c
<1> QED
  BY <1>4, <1>5, <1>6, NoRequestType, WriteKeepsTypes DEF TypeOK, Labels

\* Both ways of consuming a challenge write a row.
LEMMA ConsumedType ==
  ASSUME TypeOK, NEW w \in Workers, pc[w] = "verify_consume", challenges' = Consumed(w)
  PROVE  challenges' \in Seq(Challenge) /\ Len(challenges') = Len(challenges)
<1> DEFINE c == [Row(w) EXCEPT !.consumed = req[w].at, !.attempts = req[w].attempts + 1]
<1>1. /\ req[w] \in Request /\ req[w].challenge \in DOMAIN challenges
      /\ Row(w) \in Challenge
  BY WriterHasRow
<1>a. req[w].at \in Nat /\ req[w].attempts + 1 \in Nat
  BY <1>1 DEF Request
<1>2. c \in Challenge
  BY <1>1, <1>a DEF Challenge
<1>3. challenges' = [challenges EXCEPT ![req[w].challenge] = c]
  BY DEF Consumed, Row
<1> QED
  BY <1>1, <1>2, <1>3, UpdateKeepsRows

\* A grant is counted for a challenge there is.
LEMMA GrantType ==
  ASSUME TypeOK, NEW w \in Workers, pc[w] \notin {"idle", "create"},
         \/ granted' = granted
         \/ granted' = [granted EXCEPT ![req[w].challenge] = @ + 1]
  PROVE  granted' \in Seq(Nat) /\ Len(granted') = Len(granted)
<1>1. req[w].challenge \in DOMAIN granted
  BY WriterHasRow DEF TypeOK
<1>2. granted \in Seq(Nat)
  BY DEF TypeOK
<1> QED
  BY <1>1, <1>2

LEMMA VerifyConsumeKeepsTypes ==
  ASSUME TypeOK, NEW w \in Workers, VerifyConsume(w)
  PROVE  TypeOK'
<1>1. req[w] \in Request /\ req[w].challenge \in DOMAIN challenges
  BY WriterHasRow DEF VerifyConsume, At
<1>2. challenges' \in Seq(Challenge) /\ Len(challenges') = Len(challenges)
  BY ConsumedType DEF VerifyConsume, At
<1>3. req[w].challenge \in DOMAIN challenges'
  BY <1>1, <1>2 DEF TypeOK
<1>4. Step(w, "verify_account", req[w])
  BY DEF VerifyConsume, Goto, Step, TypeOK
<1>5. /\ now' = now /\ users' = users /\ verified' \subseteq users
      /\ lastCode' \in Nat /\ raced' \in BOOLEAN
      /\ granted' \in Seq(Nat) /\ Len(granted') = Len(challenges')
  BY <1>2 DEF VerifyConsume, TypeOK
<1>6. Len(challenges') >= Len(challenges)
  BY <1>2 DEF TypeOK
<1> QED
  BY <1>1, <1>2, <1>3, <1>4, <1>5, <1>6, WriteKeepsTypes DEF Labels

LEMMA GrantKeepsTypes ==
  ASSUME TypeOK, NEW w \in Workers, VerifyAccount(w) \/ ConfirmReset(w)
  PROVE  TypeOK'
<1>1. pc[w] \notin {"idle", "create"}
  BY DEF VerifyAccount, ConfirmReset, At
<1>2. granted' \in Seq(Nat) /\ Len(granted') = Len(granted)
  BY <1>1, GrantType DEF VerifyAccount, ConfirmReset
<1>3. challenges' \in Seq(Challenge) /\ Len(challenges') = Len(challenges)
  BY ConsumedType DEF VerifyAccount, ConfirmReset, At, TypeOK
<1>4. Step(w, "idle", NoRequest)
  BY DEF VerifyAccount, ConfirmReset, Reply
<1>5. /\ now' = now /\ users' = users /\ verified' = verified /\ lastCode' = lastCode
      /\ raced' = raced
  BY DEF VerifyAccount, ConfirmReset, accounts
<1> QED
  BY <1>2, <1>3, <1>4, <1>5, NoRequestType, WriteKeepsTypes DEF TypeOK, Labels

\* The types are an invariant.
THEOREM TypeInvariant == Spec => []TypeOK
<1>1. Init => TypeOK
  BY InitTypes
<1>2. TypeOK /\ [Next]_vars => TypeOK'
  <2> SUFFICES ASSUME TypeOK, [Next]_vars PROVE TypeOK'
    OBVIOUS
  <2>1. ASSUME NEW w \in Workers, WorkerStep(w) PROVE TypeOK'
    BY <2>1, StartKeepsTypes, ReadKeepsTypes, CreateKeepsTypes, MailKeepsTypes,
       ResendUpdateKeepsTypes, VerifyCountKeepsTypes, VerifyConsumeKeepsTypes, GrantKeepsTypes
       DEF WorkerStep
  <2>2. CASE DeleteAccount
    <3>1. raced' \in BOOLEAN
      BY <2>2, Zenon DEF DeleteAccount, Overlap
    <3> QED
      BY <2>2, <3>1 DEF DeleteAccount, TypeOK, workers
  <2>3. CASE Tick
    BY <2>3 DEF Tick, TypeOK, workers, accounts
  <2>4. CASE UNCHANGED vars
    BY <2>4 DEF vars, TypeOK, workers, accounts
  <2> QED
    BY <2>1, <2>2, <2>3, <2>4 DEF Next
<1> QED
  BY <1>1, <1>2, PTL DEF Spec

-----------------------------------------------------------------------------
(* The inductive invariant                                                 *)

LEMMA InitIInv == Init => IInv
BY InitTypes DEF Init, IInv, TypeOK, AtMostOneOpen, LifetimesBounded, StampsValid,
                 ConsumptionRecorded, GrantTimely

\* A statement that writes neither challenges nor grants, and does not go on to
\* consume or to grant.
LEMMA MoveKeepsIInv ==
  ASSUME IInv, TypeOK', NEW w \in Workers, NEW l, NEW r, Step(w, l, r),
         l \notin {"verify_consume", "verify_account"},
         now' = now, challenges' = challenges, granted' = granted
  PROVE  IInv'
<1>1. \A v \in Workers : pc'[v] \in {"verify_consume", "verify_account"} =>
                            pc'[v] = pc[v] /\ req'[v] = req[v]
  BY DEF Step, IInv, TypeOK
<1> QED
  BY <1>1 DEF IInv, AtMostOneOpen, LifetimesBounded, StampsValid, ConsumptionRecorded, GrantTimely

LEMMA CheckKeepsIInv ==
  ASSUME IInv, TypeOK', NEW w \in Workers, NEW next,
         Goto(w, next) \/ Reply(w), next \notin {"verify_consume", "verify_account"}, OnlyRead
  PROVE  IInv'
<1>1. Step(w, next, req[w]) \/ Step(w, "idle", NoRequest)
  BY DEF Goto, Reply, Step, IInv, TypeOK
<1> QED
  BY <1>1, MoveKeepsIInv DEF OnlyRead, Unwritten

\* The read of a verification is where the lifetime is tested.
LEMMA VerifyReadKeepsIInv ==
  ASSUME IInv, TypeOK', NEW w \in Workers, VerifyRead(w)
  PROVE  IInv'
<1> DEFINE r == [req[w] EXCEPT !.attempts = Row(w).attempts, !.at = now]
<1>1. TypeOK /\ challenges' = challenges /\ granted' = granted /\ now' = now
  BY DEF IInv, VerifyRead, OnlyRead, Unwritten
<1>2. CASE ~Verifiable(Row(w))
  BY <1>1, <1>2, MoveKeepsIInv DEF VerifyRead, Reply
<1>3. CASE Verifiable(Row(w)) /\ req[w].code # Row(w).code
  BY <1>1, <1>3, MoveKeepsIInv DEF VerifyRead
<1>4. CASE Verifiable(Row(w)) /\ req[w].code = Row(w).code
  <2>1. req[w] \in Request /\ Row(w) \in Challenge
    BY <1>1, WriterHasRow DEF VerifyRead, At
  <2>2. r.at = now /\ r.challenge = req[w].challenge
    BY <2>1 DEF Request
  <2>3. Step(w, "verify_consume", r)
    BY <1>4 DEF VerifyRead
  <2>4. \A v \in Workers : /\ pc'[v] = IF v = w THEN "verify_consume" ELSE pc[v]
                           /\ req'[v] = IF v = w THEN r ELSE req[v]
    BY <1>1, <2>3 DEF Step, TypeOK
  <2>5. now \in 1..Row(w).until
    <3>1. Row(w).expires <= Row(w).until
      BY <1>1, WriterHasRow DEF VerifyRead, At, Row, IInv, LifetimesBounded
    <3> QED
      BY <1>1, <1>4, <2>1, <3>1 DEF Verifiable, TypeOK, Challenge
  <2>6. StampsValid'
    BY <1>1, <2>2, <2>4, <2>5 DEF IInv, StampsValid, Row
  <2>7. ConsumptionRecorded'
    BY <1>1, <2>4 DEF IInv, ConsumptionRecorded
  <2> QED
    BY <1>1, <2>6, <2>7 DEF IInv, AtMostOneOpen, LifetimesBounded, GrantTimely
<1> QED
  BY <1>2, <1>3, <1>4

\* The new challenge is the only open one of its account and purpose, because
\* the transaction consumes the others.
LEMMA CreateKeepsIInv ==
  ASSUME IInv, TypeOK', NEW w \in Workers, CreateChallenge(w)
  PROVE  IInv'
<1> DEFINE r == req[w]
           n == Len(challenges)
           superseded == [i \in DOMAIN challenges |->
                            IF i \in OpenFor(r) THEN [challenges[i] EXCEPT !.consumed = r.at]
                            ELSE challenges[i]]
           row == NewChallenge(r)
           q == [r EXCEPT !.challenge = Len(challenges'), !.code = lastCode']
<1>a. TypeOK /\ TypeOK'
  BY DEF IInv
<1>b. r \in Request /\ r.at > 0
  BY <1>a DEF CreateChallenge, At, TypeOK
<1>1. TypeOK /\ TypeOK' /\ r.at \in Nat \ {0} /\ r.at + TTL \in Nat
  BY <1>a, <1>b, OtpAssumption DEF Request
<1>2. challenges' = Append(superseded, row) /\ granted' = Append(granted, 0)
  BY DEF CreateChallenge
<1>3. \A i \in DOMAIN challenges : challenges[i] \in Challenge /\ i # n + 1
  BY <1>1 DEF TypeOK
<1>4. n \in Nat /\ DOMAIN challenges = 1..n /\ DOMAIN challenges' = 1..(n + 1)
  <2>1. superseded \in Seq(Challenge) /\ Len(superseded) = n
    <3>1. \A i \in DOMAIN challenges : superseded[i] \in Challenge
      BY <1>1, <1>3 DEF Challenge
    <3> QED
      BY <1>1, <3>1 DEF TypeOK
  <2> HIDE DEF superseded, row
  <2> QED
    BY <1>1, <1>2, <2>1 DEF TypeOK
<1>5. /\ challenges'[n + 1] = row
      /\ \A i \in 1..n : challenges'[i] = superseded[i]
  BY <1>2, <1>4
<1>6. /\ Len(granted) = n
      /\ granted'[n + 1] = 0
      /\ \A i \in 1..n : granted'[i] = granted[i]
  BY <1>1, <1>2, <1>4 DEF TypeOK
<1>7. \A i \in 1..n : /\ challenges'[i].user = challenges[i].user
                      /\ challenges'[i].purpose = challenges[i].purpose
                      /\ challenges'[i].expires = challenges[i].expires
                      /\ challenges'[i].until = challenges[i].until
                      /\ challenges[i].consumed # Unconsumed =>
                           challenges'[i].consumed = challenges[i].consumed
                      /\ i \in OpenFor(r) => challenges'[i].consumed = r.at
  BY <1>3, <1>4, <1>5 DEF Challenge, OpenFor
<1>8. \A v \in Workers : pc'[v] \in {"verify_consume", "verify_account"} =>
                            /\ pc'[v] = pc[v] /\ req'[v] = req[v]
                            /\ req[v].challenge \in 1..n
  BY <1>1, <1>4 DEF CreateChallenge, Step, TypeOK
<1> HIDE DEF superseded, n
<1>9. AtMostOneOpen'
  <2>1. \A i \in 1..n : /\ challenges[i].user = r.user
                        /\ challenges[i].purpose = r.purpose
                        => challenges'[i].consumed # Unconsumed
    BY <1>1, <1>4, <1>7 DEF OpenFor, Unconsumed
  <2>2. \A i \in 1..n : challenges'[i].consumed = Unconsumed => challenges[i].consumed = Unconsumed
    BY <1>7
  <2>3. challenges'[n + 1].user = r.user /\ challenges'[n + 1].purpose = r.purpose
    BY <1>5 DEF NewChallenge
  <2>4. \A i \in 1..(n + 1) : i \in 1..n \/ i = n + 1
    BY <1>4
  <2> QED
    BY <1>4, <1>7, <2>1, <2>2, <2>3, <2>4 DEF IInv, AtMostOneOpen
<1>10. LifetimesBounded'
  <2>1. row.expires <= row.until
    BY <1>1 DEF NewChallenge
  <2> QED
    BY <1>4, <1>5, <1>7, <2>1 DEF IInv, LifetimesBounded
<1>11. StampsValid'
  BY <1>7, <1>8 DEF IInv, StampsValid
<1>12. ConsumptionRecorded'
  BY <1>7, <1>8 DEF IInv, ConsumptionRecorded, Unconsumed
<1>13. GrantTimely'
  <2>1. \A i \in 1..n : granted'[i] > 0 => challenges'[i].consumed \in 1..challenges'[i].until
    BY <1>4, <1>6, <1>7 DEF IInv, GrantTimely, Unconsumed
  <2> QED
    BY <1>4, <1>6, <2>1 DEF GrantTimely
<1> QED
  BY <1>9, <1>10, <1>11, <1>12, <1>13 DEF IInv

\* A resend gives the challenge a lifetime and opens nothing.
LEMMA ResendUpdateKeepsIInv ==
  ASSUME IInv, TypeOK', NEW w \in Workers, ResendUpdate(w)
  PROVE  IInv'
<1> DEFINE n == req[w].challenge
<1>1. TypeOK /\ TypeOK' /\ granted' = granted /\ lastCode' \in Nat
  BY DEF IInv, ResendUpdate, TypeOK
<1>2. /\ n \in DOMAIN challenges /\ req[w] \in Request /\ Row(w) \in Challenge
      /\ \A i \in DOMAIN challenges : challenges[i] \in Challenge
  BY <1>1, WriterHasRow DEF ResendUpdate, At, TypeOK
<1>3. /\ DOMAIN challenges' = DOMAIN challenges
      /\ \A i \in DOMAIN challenges : challenges'[i] = IF i = n THEN Renewed(w) ELSE challenges[i]
  BY <1>1 DEF ResendUpdate, TypeOK
<1>4. /\ Renewed(w).user = challenges[n].user /\ Renewed(w).purpose = challenges[n].purpose
      /\ Renewed(w).consumed = challenges[n].consumed
      /\ Renewed(w).expires <= Renewed(w).until /\ challenges[n].until <= Renewed(w).until
      /\ Renewed(w).until \in Nat
  BY <1>1, <1>2, RenewedRow DEF Row, Challenge
<1>5. \A i \in DOMAIN challenges : /\ challenges'[i].user = challenges[i].user
                                   /\ challenges'[i].purpose = challenges[i].purpose
                                   /\ challenges'[i].consumed = challenges[i].consumed
                                   /\ challenges[i].until \in Nat /\ challenges'[i].until \in Nat
                                   /\ challenges[i].consumed \in Nat
                                   /\ challenges[i].until <= challenges'[i].until
                                   /\ challenges'[i].expires <= challenges'[i].until
  BY <1>2, <1>3, <1>4 DEF Challenge, IInv, LifetimesBounded
<1>6. \A v \in Workers : pc'[v] \in {"verify_consume", "verify_account"} =>
                            /\ pc'[v] = pc[v] /\ req'[v] = req[v]
                            /\ req[v].challenge \in DOMAIN challenges /\ req[v].at \in Nat
  BY <1>1 DEF ResendUpdate, Step, TypeOK, Request
<1>7. AtMostOneOpen'
  BY <1>3, <1>5 DEF IInv, AtMostOneOpen
<1>8. LifetimesBounded'
  BY <1>3, <1>5 DEF LifetimesBounded
<1>9. StampsValid'
  BY <1>5, <1>6 DEF IInv, StampsValid
<1>10. ConsumptionRecorded'
  BY <1>5, <1>6 DEF IInv, ConsumptionRecorded
<1>11. GrantTimely'
  BY <1>1, <1>3, <1>5 DEF IInv, GrantTimely
<1> QED
  BY <1>7, <1>8, <1>9, <1>10, <1>11 DEF IInv

\* A wrong code changes nothing but the number of attempts.
LEMMA VerifyCountKeepsIInv ==
  ASSUME IInv, TypeOK', NEW w \in Workers, VerifyCount(w)
  PROVE  IInv'
<1>1. TypeOK /\ TypeOK' /\ now' = now /\ granted' = granted
  BY DEF IInv, VerifyCount
<1>2. \A i \in DOMAIN challenges : challenges[i] \in Challenge
  BY <1>1 DEF TypeOK
<1>3. /\ DOMAIN challenges' = DOMAIN challenges
      /\ \A i \in DOMAIN challenges : /\ challenges'[i].user = challenges[i].user
                                      /\ challenges'[i].purpose = challenges[i].purpose
                                      /\ challenges'[i].consumed = challenges[i].consumed
                                      /\ challenges'[i].expires = challenges[i].expires
                                      /\ challenges'[i].until = challenges[i].until
  BY <1>1, <1>2 DEF VerifyCount, Challenge, TypeOK
<1>4. \A v \in Workers : pc'[v] \in {"verify_consume", "verify_account"} =>
                            /\ pc'[v] = pc[v] /\ req'[v] = req[v]
                            /\ req[v].challenge \in DOMAIN challenges
  BY <1>1 DEF VerifyCount, Reply, Step, TypeOK
<1> QED
  BY <1>1, <1>3, <1>4 DEF IInv, AtMostOneOpen, LifetimesBounded, StampsValid,
                          ConsumptionRecorded, GrantTimely

\* A consumption writes a stamp of the challenge's lifetime, whether the
\* challenge was open or not.
LEMMA ConsumedRows ==
  ASSUME IInv, NEW w \in Workers, pc[w] = "verify_consume", challenges' = Consumed(w)
  PROVE  /\ req[w].challenge \in DOMAIN challenges
         /\ DOMAIN challenges' = DOMAIN challenges
         /\ \A i \in DOMAIN challenges :
              /\ challenges'[i].user = challenges[i].user
              /\ challenges'[i].purpose = challenges[i].purpose
              /\ challenges'[i].expires = challenges[i].expires
              /\ challenges'[i].until = challenges[i].until
              /\ IF i = req[w].challenge
                 THEN challenges'[i].consumed \in 1..challenges'[i].until
                 ELSE challenges'[i].consumed = challenges[i].consumed
<1>1. TypeOK /\ req[w].at \in 1..challenges[req[w].challenge].until
  BY DEF IInv, StampsValid
<1>2. req[w] \in Request /\ req[w].challenge \in DOMAIN challenges
  BY <1>1, WriterHasRow
<1>3. \A i \in DOMAIN challenges : challenges[i] \in Challenge
  BY <1>1 DEF TypeOK
<1> QED
  BY <1>1, <1>2, <1>3 DEF Consumed, Challenge

LEMMA VerifyConsumeKeepsIInv ==
  ASSUME IInv, TypeOK', NEW w \in Workers, VerifyConsume(w)
  PROVE  IInv'
<1> DEFINE n == req[w].challenge
<1>1. TypeOK /\ TypeOK' /\ now' = now /\ granted' = granted
  BY DEF IInv, VerifyConsume
<1>2. /\ n \in DOMAIN challenges
      /\ DOMAIN challenges' = DOMAIN challenges
      /\ \A i \in DOMAIN challenges :
           /\ challenges'[i].user = challenges[i].user
           /\ challenges'[i].purpose = challenges[i].purpose
           /\ challenges'[i].expires = challenges[i].expires
           /\ challenges'[i].until = challenges[i].until
           /\ IF i = n THEN challenges'[i].consumed \in 1..challenges'[i].until
                       ELSE challenges'[i].consumed = challenges[i].consumed
  BY ConsumedRows DEF VerifyConsume, At
<1>3. req' = req /\ \A v \in Workers : pc'[v] = IF v = w THEN "verify_account" ELSE pc[v]
  BY <1>1 DEF VerifyConsume, Goto, TypeOK
<1>4. \A v \in Workers : pc[v] \in {"verify_consume", "verify_account"} =>
                            req[v].challenge \in DOMAIN challenges
  BY <1>1 DEF TypeOK
<1>5. AtMostOneOpen'
  BY <1>2 DEF IInv, AtMostOneOpen, Unconsumed
<1>6. LifetimesBounded'
  BY <1>1, <1>2 DEF IInv, LifetimesBounded
<1>7. StampsValid'
  BY <1>2, <1>3, <1>4 DEF IInv, StampsValid
<1>8. ConsumptionRecorded'
  BY <1>2, <1>3, <1>4 DEF IInv, ConsumptionRecorded
<1>9. GrantTimely'
  BY <1>1, <1>2 DEF IInv, GrantTimely
<1> QED
  BY <1>5, <1>6, <1>7, <1>8, <1>9 DEF IInv

LEMMA VerifyAccountKeepsIInv ==
  ASSUME IInv, TypeOK', NEW w \in Workers, VerifyAccount(w)
  PROVE  IInv'
<1>1. TypeOK /\ challenges' = challenges /\ now' = now
  BY DEF IInv, VerifyAccount
<1>2. \A v \in Workers : pc'[v] \in {"verify_consume", "verify_account"} =>
                            pc'[v] = pc[v] /\ req'[v] = req[v]
  BY <1>1 DEF VerifyAccount, Reply, Step, TypeOK
<1>3. LET c == challenges[req[w].challenge] IN c.consumed \in 1..c.until
  BY DEF IInv, ConsumptionRecorded, VerifyAccount, At
<1>4. \A i \in DOMAIN challenges : i # req[w].challenge => granted'[i] = granted[i]
  BY <1>1 DEF VerifyAccount, TypeOK
<1>5. GrantTimely'
  BY <1>1, <1>3, <1>4 DEF IInv, GrantTimely
<1> QED
  BY <1>1, <1>2, <1>5 DEF IInv, AtMostOneOpen, LifetimesBounded, StampsValid, ConsumptionRecorded

LEMMA ConfirmResetKeepsIInv ==
  ASSUME IInv, TypeOK', NEW w \in Workers, ConfirmReset(w)
  PROVE  IInv'
<1> DEFINE n == req[w].challenge
<1>1. TypeOK /\ TypeOK' /\ now' = now
  BY DEF IInv, ConfirmReset
<1>2. CASE ~HasAccount(w)
  BY <1>1, <1>2, MoveKeepsIInv DEF ConfirmReset, Reply
<1>3. CASE HasAccount(w)
  <2>1. /\ n \in DOMAIN challenges
        /\ DOMAIN challenges' = DOMAIN challenges
        /\ \A i \in DOMAIN challenges :
             /\ challenges'[i].user = challenges[i].user
             /\ challenges'[i].purpose = challenges[i].purpose
             /\ challenges'[i].expires = challenges[i].expires
             /\ challenges'[i].until = challenges[i].until
             /\ IF i = n THEN challenges'[i].consumed \in 1..challenges'[i].until
                         ELSE challenges'[i].consumed = challenges[i].consumed
    BY <1>3, ConsumedRows DEF ConfirmReset, At
  <2>2. \A v \in Workers : pc'[v] \in {"verify_consume", "verify_account"} =>
                              /\ pc'[v] = pc[v] /\ req'[v] = req[v]
                              /\ req[v].challenge \in DOMAIN challenges
    BY <1>1 DEF ConfirmReset, Reply, Step, TypeOK
  <2>3. \A i \in DOMAIN challenges : i # n => granted'[i] = granted[i]
    BY <1>1, <1>3 DEF ConfirmReset, TypeOK
  <2>4. AtMostOneOpen'
    BY <2>1 DEF IInv, AtMostOneOpen, Unconsumed
  <2>5. LifetimesBounded'
    BY <1>1, <2>1 DEF IInv, LifetimesBounded
  <2>6. StampsValid'
    BY <2>1, <2>2 DEF IInv, StampsValid
  <2>7. ConsumptionRecorded'
    BY <2>1, <2>2 DEF IInv, ConsumptionRecorded
  <2>8. GrantTimely'
    BY <2>1, <2>3 DEF IInv, GrantTimely
  <2> QED
    BY <2>4, <2>5, <2>6, <2>7, <2>8 DEF IInv
<1> QED
  BY <1>2, <1>3

LEMMA WorkerKeepsIInv ==
  ASSUME IInv, TypeOK', NEW w \in Workers, WorkerStep(w)
  PROVE  IInv'
<1>1. CASE RequestCode(w) \/ Resend(w) \/ Verify(w)
  <2>1. PICK l \in {"create", "resend_read", "verify_read"} : \E r : Step(w, l, r)
    <3>1. CASE RequestCode(w)
      BY <3>1, BeginMoves DEF RequestCode
    <3>2. CASE Resend(w)
      BY <3>2, BeginMoves DEF Resend
    <3>3. CASE Verify(w)
      BY <3>3, BeginMoves DEF Verify
    <3> QED
      BY <1>1, <3>1, <3>2, <3>3
  <2>2. Unwritten
    BY <1>1 DEF RequestCode, Resend, Verify
  <2> QED
    BY <2>1, <2>2, MoveKeepsIInv DEF Unwritten
<1>2. CASE CreateEmail(w) \/ SendMail(w) \/ ResendRead(w) \/ AbortRequest(w)
  <2>1. \/ Goto(w, "mail") \/ Goto(w, "resend_user") \/ Reply(w)
    BY <1>2 DEF CreateEmail, SendMail, ResendRead, AbortRequest, Check
  <2>2. OnlyRead
    BY <1>2 DEF CreateEmail, SendMail, ResendRead, AbortRequest
  <2> QED
    BY <2>1, <2>2, CheckKeepsIInv
<1>3. CASE ResendUser(w)
  BY <1>3, MoveKeepsIInv DEF ResendUser, Reply, OnlyRead, Unwritten
<1> QED
  BY <1>1, <1>2, <1>3, VerifyReadKeepsIInv, CreateKeepsIInv, ResendUpdateKeepsIInv,
     VerifyCountKeepsIInv, VerifyConsumeKeepsIInv, VerifyAccountKeepsIInv,
     ConfirmResetKeepsIInv DEF WorkerStep

THEOREM InductiveInvariant == Spec => []IInv
<1>1. IInv /\ TypeOK' /\ [Next]_vars => IInv'
  <2> SUFFICES ASSUME IInv, TypeOK', [Next]_vars PROVE IInv'
    OBVIOUS
  <2>1. CASE \E w \in Workers : WorkerStep(w)
    BY <2>1, WorkerKeepsIInv
  <2>2. CASE DeleteAccount
    BY <2>2 DEF DeleteAccount, workers, IInv, AtMostOneOpen, LifetimesBounded, StampsValid,
                ConsumptionRecorded, GrantTimely
  <2>3. CASE Tick
    BY <2>3 DEF Tick, workers, IInv, AtMostOneOpen, LifetimesBounded, StampsValid,
                ConsumptionRecorded, GrantTimely
  <2>4. CASE UNCHANGED vars
    BY <2>4 DEF vars, workers, IInv, AtMostOneOpen, LifetimesBounded, StampsValid,
                ConsumptionRecorded, GrantTimely
  <2> QED
    BY <2>1, <2>2, <2>3, <2>4 DEF Next
<1> QED
  BY <1>1, InitIInv, TypeInvariant, PTL DEF Spec

-----------------------------------------------------------------------------
(* What it is for                                                          *)

\* CreateChallenge is the only statement that opens a challenge, and no
\* interleaving leaves an account with two open ones of a purpose.
THEOREM OpenChallengeUnique == Spec => []AtMostOneOpen
BY InductiveInvariant, PTL DEF IInv

\* Whatever runs between its read and its write, a verification that is granted
\* has consumed its challenge within the lifetime of the code.
THEOREM GrantsAreTimely == Spec => []GrantTimely
BY InductiveInvariant, PTL DEF IInv

\* A used or superseded challenge stays so: the late resend updates the code of
\* the row, never its consumption.
THEOREM ConsumptionIsFinal == Spec => ConsumedIsFinal
<1> DEFINE Final == \A i \in DOMAIN challenges :
             challenges[i].consumed # Unconsumed => challenges'[i].consumed # Unconsumed
<1>1. IInv /\ [Next]_vars => [Final]_vars
  <2> SUFFICES ASSUME IInv, Next PROVE Final
    OBVIOUS
  <2>1. TypeOK /\ \A i \in DOMAIN challenges : challenges[i] \in Challenge
    BY DEF IInv, TypeOK
  <2>2. ASSUME NEW w \in Workers, CreateChallenge(w) PROVE Final
    <3> DEFINE superseded == [i \in DOMAIN challenges |->
                                IF i \in OpenFor(req[w])
                                THEN [challenges[i] EXCEPT !.consumed = req[w].at]
                                ELSE challenges[i]]
         row == NewChallenge(req[w])
    <3>1. challenges' = Append(superseded, row)
      BY <2>2 DEF CreateChallenge
    <3>a. req[w].at \in Nat \ {0}
      BY <2>1, <2>2 DEF CreateChallenge, At, TypeOK, Request
    <3>2. superseded \in Seq(Challenge) /\ DOMAIN superseded = DOMAIN challenges
      <4>1. \A i \in DOMAIN challenges : superseded[i] \in Challenge
        BY <2>1, <3>a DEF Challenge
      <4> QED
        BY <4>1, <2>1 DEF TypeOK
    <3> HIDE DEF row
    <3>3. \A i \in DOMAIN challenges : challenges'[i] = superseded[i]
      BY <3>1, <3>2
    <3>4. req[w].at # Unconsumed
      BY <3>a DEF Unconsumed
    <3> QED
      BY <2>1, <3>3, <3>4 DEF OpenFor, Challenge
  <2>3. ASSUME NEW w \in Workers, ResendUpdate(w) \/ VerifyCount(w) PROVE Final
    <3>1. CASE ResendUpdate(w)
      <4>1. lastCode' \in Nat
        BY <2>1, <3>1 DEF ResendUpdate, NewCode, TypeOK
      <4>2. Renewed(w).consumed = challenges[req[w].challenge].consumed
        BY <2>1, <3>1, <4>1, WriterHasRow, RenewedRow DEF ResendUpdate, At, Row
      <4> QED
        BY <2>1, <3>1, <4>2 DEF ResendUpdate, TypeOK
    <3>2. CASE VerifyCount(w)
      BY <2>1, <3>2 DEF VerifyCount, Challenge, TypeOK
    <3> QED
      BY <2>3, <3>1, <3>2
  <2>4. ASSUME NEW w \in Workers, VerifyConsume(w) \/ ConfirmReset(w) PROVE Final
    BY <2>4, ConsumedRows DEF VerifyConsume, ConfirmReset, At, Unconsumed
  <2>5. CASE challenges' = challenges
    BY <2>5
  <2> QED
    BY <2>2, <2>3, <2>4, <2>5
       DEF Next, WorkerStep, OnlyRead, Unwritten, RequestCode, CreateEmail, SendMail, Resend, ResendRead,
           ResendUser, Verify, VerifyRead, VerifyAccount, AbortRequest, DeleteAccount, Tick
<1> QED
  BY <1>1, InductiveInvariant, PTL DEF Spec, ConsumedIsFinal

-------------------------------------------------------------------------------
(***************************************************************************)
(* Proofs about OtpChallenge while requests run one at a time, for any     *)
(* number of requests, accounts and challenges and any clock: GrantedOnce, *)
(* AttemptsBounded and OnlyLatestCode.  A verification reads a challenge,  *)
(* marks it and answers in three statements, so what it has read has to    *)
(* stay true from one to the next (NothingStale); and a code that is still *)
(* open belongs to the newest challenge (OlderClosed), also when requests  *)
(* interleave.                                                             *)
(***************************************************************************)

\* Until requests have overlapped, one is in flight at most.
Alone == ~raced => \A v, w \in Workers : ~Idle(v) /\ ~Idle(w) => v = w

SameKind(i, j) ==
  challenges[i].user = challenges[j].user /\ challenges[i].purpose = challenges[j].purpose

Newest(i) == \A j \in DOMAIN challenges : SameKind(j, i) => j <= i

\* Only the newest challenge of an account and purpose may be open.
OlderClosed ==
  \A i, j \in DOMAIN challenges : i < j /\ SameKind(i, j) => challenges[i].consumed # Unconsumed

\* What a verification knows of its challenge at statement l.
Knows(l, r) ==
  LET n == r.challenge
      c == challenges[n]
  IN  /\ l \in {"verify_count", "verify_consume"} =>
           /\ c.consumed = Unconsumed
           /\ c.attempts < maxOTPAttempts /\ r.attempts = c.attempts
      /\ l \in {"verify_consume", "verify_account"} => r.code = c.code /\ Newest(n)
      /\ l = "verify_account" => granted[n] = 0

NothingStale == ~raced => \A w \in Workers : Knows(pc[w], req[w])

Serial == Alone /\ NothingStale /\ GrantedOnce /\ AttemptsBounded

SInv == IInv /\ OlderClosed /\ Serial

-----------------------------------------------------------------------------
(* Moves                                                                   *)

LEMMA Moves ==
  ASSUME TypeOK, NEW w \in Workers, NEW l, NEW r, Step(w, l, r)
  PROVE  \A v \in Workers : /\ pc'[v] = IF v = w THEN l ELSE pc[v]
                            /\ req'[v] = IF v = w THEN r ELSE req[v]
BY DEF TypeOK, Step

LEMMA GotoMoves ==
  ASSUME TypeOK, NEW w \in Workers, NEW l, Goto(w, l)
  PROVE  Step(w, l, req[w])
BY DEF TypeOK, Goto, Step

\* The others are idle and know nothing, so only the worker that moves matters.
LEMMA MoveStaysFresh ==
  ASSUME SInv, NEW w \in Workers, ~Idle(w), NEW l, NEW r, Step(w, l, r),
         UNCHANGED raced, ~raced => Knows(l, r)'
  PROVE  Alone' /\ NothingStale'
<1>1. \A v \in Workers : /\ pc'[v] = IF v = w THEN l ELSE pc[v]
                         /\ req'[v] = IF v = w THEN r ELSE req[v]
  BY Moves DEF SInv, IInv
<1>2. Alone'
  BY <1>1 DEF SInv, Serial, Alone, Idle
<1>3. ASSUME NEW v \in Workers, ~raced, v # w
      PROVE  Knows(pc[v], req[v])'
  <2>1. pc'[v] = "idle"
    BY <1>1, <1>3 DEF SInv, Serial, Alone, Idle
  <2> QED BY <2>1 DEF Knows
<1>4. ~raced => Knows(pc[w], req[w])'
  BY <1>1
<1> QED BY <1>2, <1>3, <1>4 DEF NothingStale

\* A read: the rows stay, and the request knows what it has read.
LEMMA ReadStaysFresh ==
  ASSUME SInv, OnlyRead, NEW w \in Workers, ~Idle(w), NEW l, NEW r, Step(w, l, r),
         ~raced => Knows(l, r)
  PROVE  OlderClosed' /\ Serial'
<1>1. UNCHANGED <<challenges, granted, raced>>
  BY DEF OnlyRead, Unwritten
<1>2. ~raced => Knows(l, r)'
  BY <1>1 DEF Knows, Newest, SameKind
<1>3. OlderClosed' /\ GrantedOnce' /\ AttemptsBounded'
  BY <1>1 DEF SInv, Serial, OlderClosed, SameKind, GrantedOnce, AttemptsBounded
<1> QED BY <1>1, <1>2, <1>3, MoveStaysFresh DEF Serial

\* At most statements a request knows nothing of its challenge.
LEMMA KnowsNothing ==
  ASSUME NEW l, l \notin {"verify_count", "verify_consume", "verify_account"}, NEW r
  PROVE  Knows(l, r) /\ Knows(l, r)'
BY DEF Knows

LEMMA PlainReadStaysFresh ==
  ASSUME SInv, OnlyRead, NEW w \in Workers, ~Idle(w), NEW l, NEW r, Step(w, l, r),
         l \notin {"verify_count", "verify_consume", "verify_account"}
  PROVE  OlderClosed' /\ Serial'
BY KnowsNothing, ReadStaysFresh

\* A request that starts while another is in flight counts as racing.
LEMMA BeginStaysFresh ==
  ASSUME SInv, NEW w \in Workers, RequestCode(w) \/ Resend(w) \/ Verify(w)
  PROVE  OlderClosed' /\ Serial'
<1>0. PICK l \in {"create", "resend_read", "verify_read"} : \E r : Begin(w, l, r)
  BY DEF RequestCode, Resend, Verify
<1>1. PICK r : Begin(w, l, r)
  BY <1>0
<1>2. UNCHANGED <<challenges, granted>>
  BY DEF RequestCode, Resend, Verify, Unwritten
<1>3. /\ raced => raced'
      /\ ~raced' => \A v \in Workers : Idle(v)
  BY <1>1 DEF Begin, Overlap
<1>4. \A v \in Workers : pc'[v] = IF v = w THEN l ELSE pc[v]
  BY <1>1, Moves DEF Begin, Start, SInv, IInv
<1>5. Alone' /\ NothingStale'
  BY <1>3, <1>4 DEF Alone, NothingStale, Knows, Idle
<1>6. OlderClosed' /\ GrantedOnce' /\ AttemptsBounded'
  BY <1>2, <1>3 DEF SInv, Serial, OlderClosed, SameKind, GrantedOnce, AttemptsBounded
<1> QED BY <1>5, <1>6 DEF Serial

-----------------------------------------------------------------------------
(* The statements of a request, one step per action                        *)

\* A verification that goes on read a challenge that was open, so it is the newest.
LEMMA VerifyReadStaysFresh ==
  ASSUME SInv, NEW w \in Workers, VerifyRead(w)
  PROVE  OlderClosed' /\ Serial'
<1>0. PICK r : r = [req[w] EXCEPT !.attempts = Row(w).attempts, !.at = now]
  OBVIOUS
<1>1. ~Idle(w) /\ pc[w] = "verify_read" /\ OnlyRead
  BY DEF VerifyRead, At, Idle
<1>2. req[w] \in Request /\ req[w].challenge \in DOMAIN challenges /\ Row(w) \in Challenge
  BY <1>1, WriterHasRow DEF SInv, IInv
<1>3. r.challenge = req[w].challenge /\ r.code = req[w].code /\ r.attempts = Row(w).attempts
  BY <1>0, <1>2 DEF Request
<1>4. CASE Reply(w)
  BY <1>1, <1>4, PlainReadStaysFresh DEF Reply
<1>5. ASSUME Verifiable(Row(w)), NEW l \in {"verify_consume", "verify_count"},
             l = "verify_consume" => req[w].code = Row(w).code, Step(w, l, r)
      PROVE  OlderClosed' /\ Serial'
  <2>1. Row(w).consumed = Unconsumed /\ Row(w).attempts < maxOTPAttempts
    BY <1>5 DEF Verifiable
  <2>2. Newest(req[w].challenge)
    <3> SUFFICES ASSUME NEW j \in DOMAIN challenges, SameKind(j, req[w].challenge),
                        ~(j <= req[w].challenge)
                 PROVE  FALSE
      BY DEF Newest
    <3>1. req[w].challenge < j /\ SameKind(req[w].challenge, j)
      BY <1>2 DEF SInv, IInv, TypeOK, SameKind
    <3> QED BY <3>1, <2>1, <1>2 DEF SInv, OlderClosed, Row
  <2>3. Knows(l, r)
    BY <1>3, <1>5, <2>1, <2>2 DEF Knows, Row
  <2> QED BY <1>1, <1>5, <2>3, ReadStaysFresh
<1> QED BY <1>0, <1>4, <1>5 DEF VerifyRead

\* The new challenge closes the earlier ones of its account and purpose.
LEMMA CreateStaysFresh ==
  ASSUME SInv, NEW w \in Workers, CreateChallenge(w)
  PROVE  OlderClosed' /\ Serial'
<1>0. PICK r, row, superseded, s :
        /\ r = req[w] /\ row = NewChallenge(r)
        /\ superseded = [i \in DOMAIN challenges |->
                           IF i \in OpenFor(r) THEN [challenges[i] EXCEPT !.consumed = r.at]
                           ELSE challenges[i]]
        /\ s = [r EXCEPT !.challenge = Len(challenges'), !.code = lastCode']
  OBVIOUS
<1>1. /\ ~Idle(w) /\ pc[w] = "create" /\ UNCHANGED raced
      /\ challenges' = Append(superseded, row) /\ granted' = Append(granted, 0)
      /\ Step(w, "create_email", s)
  BY <1>0 DEF CreateChallenge, At, Idle
<1>2. r \in Request /\ r.at \in Nat \ {0}
  BY <1>0, <1>1 DEF SInv, IInv, TypeOK, Request
<1>3. \A i \in DOMAIN challenges : challenges[i] \in Challenge
  BY DEF SInv, IInv, TypeOK
<1>4. superseded \in Seq(Challenge) /\ Len(superseded) = Len(challenges)
  <2>1. \A i \in DOMAIN challenges : superseded[i] \in Challenge
    BY <1>0, <1>2, <1>3 DEF Challenge
  <2> QED BY <2>1, <1>0 DEF SInv, IInv, TypeOK
<1>5. row.user = r.user /\ row.purpose = r.purpose /\ row.attempts = 0
  BY <1>0 DEF NewChallenge
<1>6. PICK n : n = Len(challenges) + 1
  OBVIOUS
<1>7. /\ DOMAIN challenges = 1..Len(challenges) /\ Len(challenges) \in Nat
      /\ DOMAIN challenges' = 1..n /\ challenges'[n] = row
      /\ \A i \in DOMAIN challenges : challenges'[i] = superseded[i]
  BY <1>1, <1>4, <1>6 DEF SInv, IInv, TypeOK
<1>8. \A i \in DOMAIN challenges :
        /\ challenges'[i].user = challenges[i].user
        /\ challenges'[i].purpose = challenges[i].purpose
        /\ challenges'[i].attempts = challenges[i].attempts
        /\ i \in OpenFor(r) \/ challenges[i].consumed # Unconsumed =>
             challenges'[i].consumed # Unconsumed
  BY <1>0, <1>2, <1>3, <1>7 DEF Challenge, Unconsumed
<1>9. OlderClosed'
  <2> SUFFICES ASSUME NEW i \in 1..n, NEW j \in 1..n, i < j,
                      challenges'[i].user = challenges'[j].user,
                      challenges'[i].purpose = challenges'[j].purpose
               PROVE  challenges'[i].consumed # Unconsumed
    BY <1>7 DEF OlderClosed, SameKind
  <2>1. i \in DOMAIN challenges
    BY <1>6, <1>7
  <2>2. CASE j \in DOMAIN challenges
    BY <2>1, <2>2, <1>8 DEF SInv, OlderClosed, SameKind
  <2>3. CASE j \notin DOMAIN challenges
    <3>1. j = n
      BY <2>3, <1>6, <1>7
    <3>2. challenges[i].user = r.user /\ challenges[i].purpose = r.purpose
      BY <3>1, <2>1, <1>5, <1>7, <1>8
    <3> QED BY <3>2, <2>1, <1>8 DEF OpenFor
  <2> QED BY <2>2, <2>3
<1>10. GrantedOnce'
  BY <1>1 DEF SInv, IInv, TypeOK, Serial, GrantedOnce
<1>11. AttemptsBounded'
  <2> SUFFICES ASSUME ~raced, NEW i \in 1..n PROVE challenges'[i].attempts <= maxOTPAttempts
    BY <1>1, <1>7 DEF AttemptsBounded
  <2>1. CASE i \in DOMAIN challenges
    BY <2>1, <1>8 DEF SInv, Serial, AttemptsBounded
  <2>2. CASE i = n
    BY <2>2, <1>5, <1>7, OtpAssumption
  <2> QED BY <2>1, <2>2, <1>6, <1>7
<1>12. Alone' /\ NothingStale'
  BY <1>1, KnowsNothing, MoveStaysFresh
<1> QED BY <1>9, <1>10, <1>11, <1>12 DEF Serial

\* Updates keep the account and the purpose of a challenge and reopen none.
LEMMA UpdateKeepsNewest ==
  ASSUME SInv, DOMAIN challenges' = DOMAIN challenges,
         \A i \in DOMAIN challenges :
           /\ challenges'[i].user = challenges[i].user
           /\ challenges'[i].purpose = challenges[i].purpose
           /\ challenges[i].consumed # Unconsumed => challenges'[i].consumed # Unconsumed
  PROVE  OlderClosed' /\ \A i \in DOMAIN challenges : Newest(i) => Newest(i)'
BY DEF SInv, OlderClosed, Newest, SameKind

LEMMA ResendUpdateStaysFresh ==
  ASSUME SInv, NEW w \in Workers, ResendUpdate(w)
  PROVE  OlderClosed' /\ Serial'
<1>1. /\ ~Idle(w) /\ UNCHANGED <<granted, raced>>
      /\ challenges' = [challenges EXCEPT ![req[w].challenge] = Renewed(w)]
      /\ pc[w] = "resend_update" /\ lastCode' \in Nat
  BY DEF ResendUpdate, At, Idle, NewCode, SInv, IInv, TypeOK
<1>2. req[w] \in Request /\ req[w].challenge \in DOMAIN challenges /\ Row(w) \in Challenge
  BY <1>1, WriterHasRow DEF SInv, IInv
<1>3. /\ Renewed(w).user = Row(w).user /\ Renewed(w).purpose = Row(w).purpose
      /\ Renewed(w).consumed = Row(w).consumed
  BY <1>1, <1>2, RenewedRow
<1>4. Renewed(w).attempts = 0
  BY <1>2 DEF Renewed, Challenge
<1>5. OlderClosed'
  BY <1>1, <1>2, <1>3, UpdateKeepsNewest DEF Row, SInv, IInv, TypeOK
<1>6. GrantedOnce' /\ AttemptsBounded'
  BY <1>1, <1>2, <1>4, OtpAssumption DEF SInv, IInv, TypeOK, Serial, GrantedOnce, AttemptsBounded
<1>7. PICK s : Step(w, "mail", s)
  BY DEF ResendUpdate
<1>8. Alone' /\ NothingStale'
  BY <1>1, <1>7, KnowsNothing, MoveStaysFresh
<1> QED BY <1>5, <1>6, <1>8 DEF Serial

LEMMA VerifyCountStaysFresh ==
  ASSUME SInv, NEW w \in Workers, VerifyCount(w)
  PROVE  OlderClosed' /\ Serial'
<1>1. /\ ~Idle(w) /\ UNCHANGED <<granted, raced>> /\ pc[w] = "verify_count"
      /\ challenges' = [challenges EXCEPT ![req[w].challenge].attempts = @ + 1]
      /\ Step(w, "idle", NoRequest)
  BY DEF VerifyCount, At, Idle, Reply
<1>2. req[w].challenge \in DOMAIN challenges
  BY <1>1, WriterHasRow DEF SInv, IInv
<1>3. \A i \in DOMAIN challenges : challenges[i] \in Challenge
  BY DEF SInv, IInv, TypeOK
<1>4. /\ DOMAIN challenges' = DOMAIN challenges
      /\ \A i \in DOMAIN challenges :
           /\ challenges'[i].user = challenges[i].user
           /\ challenges'[i].purpose = challenges[i].purpose
           /\ challenges'[i].consumed = challenges[i].consumed
           /\ challenges'[i].attempts =
                IF i = req[w].challenge THEN challenges[i].attempts + 1 ELSE challenges[i].attempts
  BY <1>1, <1>2, <1>3 DEF Challenge
<1>5. ~raced => challenges[req[w].challenge].attempts < maxOTPAttempts
  BY <1>1 DEF SInv, Serial, NothingStale, Knows
<1>6. challenges[req[w].challenge].attempts \in Nat
  BY <1>2, <1>3 DEF Challenge
<1>7. AttemptsBounded'
  BY <1>1, <1>4, <1>5, <1>6, OtpAssumption DEF SInv, Serial, AttemptsBounded
<1>8. OlderClosed' /\ GrantedOnce'
  BY <1>1, <1>4, UpdateKeepsNewest DEF SInv, Serial, GrantedOnce
<1>9. Alone' /\ NothingStale'
  BY <1>1, KnowsNothing, MoveStaysFresh
<1> QED BY <1>7, <1>8, <1>9 DEF Serial

\* What marking a challenge as consumed does to the rows.
LEMMA ConsumedStaysFresh ==
  ASSUME SInv, NEW w \in Workers, pc[w] = "verify_consume", challenges' = Consumed(w),
         UNCHANGED raced
  PROVE  /\ OlderClosed' /\ AttemptsBounded'
         /\ req[w].challenge \in DOMAIN challenges
         /\ challenges'[req[w].challenge].code = challenges[req[w].challenge].code
         /\ \A i \in DOMAIN challenges : Newest(i) => Newest(i)'
<1> DEFINE n == req[w].challenge
<1>1. /\ n \in DOMAIN challenges /\ DOMAIN challenges' = DOMAIN challenges
      /\ \A i \in DOMAIN challenges :
           /\ challenges'[i].user = challenges[i].user
           /\ challenges'[i].purpose = challenges[i].purpose
           /\ IF i = n THEN challenges'[i].consumed \in 1..challenges'[i].until
              ELSE challenges'[i].consumed = challenges[i].consumed
  BY ConsumedRows DEF SInv
<1>2. \A i \in DOMAIN challenges : challenges[i] \in Challenge
  BY DEF SInv, IInv, TypeOK
<1>3. \A i \in DOMAIN challenges :
        /\ challenges'[i].code = challenges[i].code
        /\ challenges'[i].attempts = IF i = n THEN req[w].attempts + 1 ELSE challenges[i].attempts
  BY <1>1, <1>2 DEF Consumed, Challenge
<1>4. ~raced => req[w].attempts < maxOTPAttempts
  BY DEF SInv, Serial, NothingStale, Knows
<1>5. req[w].attempts \in Nat
  BY WriterHasRow DEF SInv, IInv, Request
<1>6. AttemptsBounded'
  BY <1>1, <1>3, <1>4, <1>5, OtpAssumption DEF SInv, Serial, AttemptsBounded
<1>7. OlderClosed' /\ \A i \in DOMAIN challenges : Newest(i) => Newest(i)'
  BY <1>1, UpdateKeepsNewest DEF Unconsumed
<1> QED BY <1>1, <1>3, <1>6, <1>7

\* A challenge that is open has granted nothing yet.
LEMMA OpenIsUngranted ==
  ASSUME SInv, NEW n \in DOMAIN challenges, challenges[n].consumed = Unconsumed
  PROVE  n \in DOMAIN granted /\ granted[n] = 0
BY DEF SInv, IInv, TypeOK, GrantTimely, Unconsumed

LEMMA VerifyConsumeStaysFresh ==
  ASSUME SInv, NEW w \in Workers, VerifyConsume(w)
  PROVE  OlderClosed' /\ Serial'
<1>0. PICK r : r = req[w]
  OBVIOUS
<1>1. /\ ~Idle(w) /\ pc[w] = "verify_consume" /\ challenges' = Consumed(w)
      /\ UNCHANGED <<granted, raced>>
  BY DEF VerifyConsume, At, Idle
<1>2. Step(w, "verify_account", r)
  BY <1>0, GotoMoves DEF VerifyConsume, SInv, IInv
<1>3. /\ OlderClosed' /\ AttemptsBounded' /\ r.challenge \in DOMAIN challenges
      /\ challenges'[r.challenge].code = challenges[r.challenge].code
      /\ Newest(r.challenge) => Newest(r.challenge)'
  BY <1>0, <1>1, ConsumedStaysFresh
<1>4. ~raced => Knows("verify_consume", r)
  BY <1>0, <1>1 DEF SInv, Serial, NothingStale
<1>5. ~raced => granted[r.challenge] = 0
  BY <1>3, <1>4, OpenIsUngranted DEF Knows
<1>6. ~raced => Knows("verify_account", r)'
  BY <1>1, <1>3, <1>4, <1>5 DEF Knows
<1>7. GrantedOnce'
  BY <1>1 DEF SInv, Serial, GrantedOnce
<1>8. Alone' /\ NothingStale'
  BY <1>1, <1>2, <1>6, MoveStaysFresh
<1> QED BY <1>3, <1>7, <1>8 DEF Serial

\* A grant counts once more for a challenge that counted none.
LEMMA GrantStaysOnce ==
  ASSUME SInv, UNCHANGED raced, NEW n \in DOMAIN granted, ~raced => granted[n] = 0,
         granted' = [granted EXCEPT ![n] = @ + 1]
  PROVE  GrantedOnce'
BY DEF SInv, IInv, TypeOK, Serial, GrantedOnce

LEMMA VerifyAccountStaysFresh ==
  ASSUME SInv, NEW w \in Workers, VerifyAccount(w)
  PROVE  OlderClosed' /\ Serial'
<1>1. /\ ~Idle(w) /\ pc[w] = "verify_account" /\ UNCHANGED <<challenges, raced>>
      /\ Step(w, "idle", NoRequest)
  BY DEF VerifyAccount, At, Idle, Reply
<1>2. req[w].challenge \in DOMAIN granted
  BY <1>1, WriterHasRow DEF SInv, IInv, TypeOK
<1>3. ~raced => granted[req[w].challenge] = 0
  BY <1>1 DEF SInv, Serial, NothingStale, Knows
<1>4. GrantedOnce'
  <2>1. CASE granted' = granted
    BY <1>1, <2>1 DEF SInv, Serial, GrantedOnce
  <2>2. CASE granted' = [granted EXCEPT ![req[w].challenge] = @ + 1]
    BY <1>1, <1>2, <1>3, <2>2, GrantStaysOnce
  <2> QED BY <2>1, <2>2 DEF VerifyAccount
<1>5. OlderClosed' /\ AttemptsBounded'
  BY <1>1 DEF SInv, Serial, OlderClosed, SameKind, AttemptsBounded
<1>6. Alone' /\ NothingStale'
  BY <1>1, KnowsNothing, MoveStaysFresh
<1> QED BY <1>4, <1>5, <1>6 DEF Serial

LEMMA ConfirmResetStaysFresh ==
  ASSUME SInv, NEW w \in Workers, ConfirmReset(w)
  PROVE  OlderClosed' /\ Serial'
<1>1. /\ ~Idle(w) /\ pc[w] = "verify_consume" /\ UNCHANGED raced
      /\ Step(w, "idle", NoRequest)
  BY DEF ConfirmReset, At, Idle, Reply
<1>2. CASE ~HasAccount(w)
  <2>1. UNCHANGED <<challenges, granted>>
    BY <1>2 DEF ConfirmReset
  <2>2. OlderClosed' /\ AttemptsBounded' /\ GrantedOnce'
    BY <1>1, <2>1 DEF SInv, Serial, OlderClosed, SameKind, AttemptsBounded, GrantedOnce
  <2> QED BY <1>1, <2>2, KnowsNothing, MoveStaysFresh DEF Serial
<1>3. CASE HasAccount(w)
  <2>1. challenges' = Consumed(w) /\ granted' = [granted EXCEPT ![req[w].challenge] = @ + 1]
    BY <1>3 DEF ConfirmReset
  <2>2. OlderClosed' /\ AttemptsBounded' /\ req[w].challenge \in DOMAIN challenges
    BY <1>1, <2>1, ConsumedStaysFresh
  <2>3. ~raced => challenges[req[w].challenge].consumed = Unconsumed
    BY <1>1 DEF SInv, Serial, NothingStale, Knows
  <2>4. req[w].challenge \in DOMAIN granted /\ (~raced => granted[req[w].challenge] = 0)
    BY <2>2, <2>3, OpenIsUngranted DEF SInv, IInv, TypeOK
  <2>5. GrantedOnce'
    BY <1>1, <2>1, <2>4, GrantStaysOnce
  <2> QED BY <1>1, <2>2, <2>5, KnowsNothing, MoveStaysFresh DEF Serial
<1> QED BY <1>2, <1>3

LEMMA WorkerStaysFresh ==
  ASSUME SInv, NEW w \in Workers, WorkerStep(w)
  PROVE  OlderClosed' /\ Serial'
<1>1. CASE CreateEmail(w) \/ SendMail(w) \/ ResendRead(w) \/ ResendUser(w) \/ AbortRequest(w)
  <2>1. ~Idle(w) /\ OnlyRead
    BY <1>1 DEF CreateEmail, SendMail, ResendRead, ResendUser, AbortRequest, Check, At, Idle
  <2>2. \E l \in {"idle", "mail", "resend_user", "resend_update"} : \E r : Step(w, l, r)
    <3>1. TypeOK
      BY DEF SInv, IInv
    <3>2. \/ Goto(w, "mail") \/ Goto(w, "resend_user") \/ Reply(w)
          \/ Step(w, "resend_update", [req[w] EXCEPT !.at = now])
      BY <1>1 DEF CreateEmail, SendMail, ResendRead, ResendUser, AbortRequest, Check
    <3> QED BY <3>1, <3>2, GotoMoves DEF Reply
  <2> QED BY <2>1, <2>2, PlainReadStaysFresh
<1>2. CASE RequestCode(w) \/ Resend(w) \/ Verify(w)
  BY <1>2, BeginStaysFresh
<1> QED
  BY <1>1, <1>2, CreateStaysFresh, ResendUpdateStaysFresh, VerifyReadStaysFresh,
     VerifyCountStaysFresh, VerifyConsumeStaysFresh, VerifyAccountStaysFresh,
     ConfirmResetStaysFresh DEF WorkerStep

-----------------------------------------------------------------------------
(* The specification                                                       *)

LEMMA Freshness == Spec => []SInv
<1>1. Init => OlderClosed /\ Serial
  BY DEF Init, OlderClosed, Serial, Alone, Idle, NothingStale, Knows, GrantedOnce, AttemptsBounded
<1>2. SInv /\ [Next]_vars => OlderClosed' /\ Serial'
  <2> SUFFICES ASSUME SInv, [Next]_vars PROVE OlderClosed' /\ Serial'
    OBVIOUS
  <2>1. CASE \E w \in Workers : WorkerStep(w)
    BY <2>1, WorkerStaysFresh
  <2>2. CASE DeleteAccount \/ Tick \/ UNCHANGED vars
    <3>0. raced \in BOOLEAN
      BY DEF SInv, IInv, TypeOK
    <3>1. UNCHANGED <<challenges, granted, pc, req>> /\ (raced => raced')
      <4>1. CASE DeleteAccount
        BY <4>1 DEF DeleteAccount, workers, Overlap
      <4>2. CASE Tick
        BY <4>2 DEF Tick, workers
      <4>3. CASE UNCHANGED vars
        BY <4>3 DEF vars, workers
      <4> QED BY <2>2, <4>1, <4>2, <4>3
    <3> QED
      BY <3>0, <3>1 DEF SInv, OlderClosed, SameKind, Newest, Serial, Alone, Idle, NothingStale, Knows,
                  GrantedOnce, AttemptsBounded
  <2> QED BY <2>1, <2>2 DEF Next
<1>3. SInv <=> IInv /\ OlderClosed /\ Serial
  BY DEF SInv
<1> QED BY <1>1, <1>2, <1>3, InductiveInvariant, PTL DEF Spec

\* As long as requests run one at a time, a code is good for one grant.
THEOREM CodesGrantOnce == Spec => []GrantedOnce
<1>1. SInv => GrantedOnce
  BY DEF SInv, Serial
<1> QED BY <1>1, Freshness, PTL

\* As long as requests run one at a time, a challenge counts no more attempts than
\* the code allows.
THEOREM AttemptsAreBounded == Spec => []AttemptsBounded
<1>1. SInv => AttemptsBounded
  BY DEF SInv, Serial
<1> QED BY <1>1, Freshness, PTL

\* As long as requests run one at a time, only the last code that was sent for the
\* newest challenge of an account and purpose is granted.
THEOREM LatestCodeIsGranted == Spec => OnlyLatestCode
<1> DEFINE Latest ==
      ~raced => \A i \in DOMAIN granted : granted'[i] # granted[i] =>
        /\ \A j \in DOMAIN challenges :
             (challenges[j].user = challenges[i].user
              /\ challenges[j].purpose = challenges[i].purpose) => j <= i
        /\ \E w \in Workers : req[w].challenge = i /\ req[w].code = challenges[i].code
<1>1. SInv /\ [Next]_vars => [Latest]_vars
  <2> SUFFICES ASSUME SInv, Next PROVE Latest
    OBVIOUS
  <2>1. ASSUME NEW w \in Workers, CreateChallenge(w) PROVE Latest
    BY <2>1 DEF CreateChallenge, SInv, IInv, TypeOK
  <2>2. ASSUME NEW w \in Workers, VerifyAccount(w) \/ ConfirmReset(w) PROVE Latest
    <3>1. pc[w] \in {"verify_consume", "verify_account"}
      BY <2>2 DEF VerifyAccount, ConfirmReset, At
    <3>2. ~raced => req[w].code = challenges[req[w].challenge].code /\ Newest(req[w].challenge)
      BY <3>1 DEF SInv, Serial, NothingStale, Knows
    <3>3. granted' = granted \/ granted' = [granted EXCEPT ![req[w].challenge] = @ + 1]
      BY <2>2 DEF VerifyAccount, ConfirmReset
    <3>4. \A i \in DOMAIN granted : granted'[i] # granted[i] => i = req[w].challenge
      BY <3>3 DEF SInv, IInv, TypeOK
    <3> QED BY <3>2, <3>4 DEF Newest, SameKind
  <2>3. CASE granted' = granted
    BY <2>3
  <2> QED
    BY <2>1, <2>2, <2>3
       DEF Next, WorkerStep, OnlyRead, Unwritten, RequestCode, CreateEmail, SendMail, Resend,
           ResendRead, ResendUser, ResendUpdate, Verify, VerifyRead, VerifyCount, VerifyConsume,
           AbortRequest, DeleteAccount, Tick
<1> QED BY <1>1, Freshness, PTL DEF Spec, OnlyLatestCode

-----------------------------------------------------------------------------
(* Codes and devices.                                                      *)

\* What is checked of codes and notifications together holds of any number of them: an
\* attendee is sent only what he wanted that way since, on devices that were his since,
\* and a confirmed device is the caller's while requests run one at a time.
THEOREM NotificationsAreWanted == PartsSpec => []DeliveredAsWanted
<1>1. PartsSpec => Spec /\ Devices!Spec
  <2>1. PartsInit => Init /\ Devices!Init
    BY DEF PartsInit
  <2>2. [PartsNext]_<<part, vars, dVars>> => [Next]_vars /\ [Devices!Next]_(Devices!vars)
    BY DEF PartsNext, dVars, Devices!vars, Devices!attendees, Devices!gatherings, Devices!inbox,
           Devices!delivery, Devices!history, Devices!observed, Devices!workers
  <2> QED BY <2>1, <2>2, PTL DEF PartsSpec, Spec, Devices!Spec
<1>2. Devices!Spec => []Devices!TypeOK
  BY PartsAssumption, Devices!TypeInvariant
<1>3. Devices!Spec => []Devices!DeliveredAsWanted
  BY PartsAssumption, Devices!OnlyWantedIsDelivered
<1>4. Devices!Spec => []Devices!RegisteredIsMine
  BY PartsAssumption, Devices!ConfirmedDevicesAreMine
<1>5. TypeOK /\ Devices!TypeOK /\ Devices!DeliveredAsWanted /\ Devices!RegisteredIsMine
        => DeliveredAsWanted
  BY DEF DeliveredAsWanted
<1> QED BY <1>1, <1>2, <1>3, <1>4, <1>5, TypeInvariant, PTL
===============================================================================
