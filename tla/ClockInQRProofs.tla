--------------------------- MODULE ClockInQRProofs ----------------------------
(***************************************************************************)
(* Proofs about the codes and forms of events: the codes to clock in, for  *)
(* any number of requests, events, codes and rotations and any clock; then *)
(* those to join, the consent forms, the keys of their fields, and the     *)
(* alerts.  A code is issued with a time that the request read earlier, so *)
(* the type invariant has to carry what that time is.                      *)
(***************************************************************************)
EXTENDS MCCodesFormsAlerts, FiniteSetTheorems, SequenceTheorems, TLAPS

\* A request works on an event, and one that is about to issue a code has read
\* the clock.
RequestsFit ==
  \A w \in Workers :
    /\ pc[w] # "idle" => req[w].event \in Events
    /\ pc[w] = "issue" => req[w].at \in 1..now

TInv == TypeOK /\ RequestsFit

LEMMA NoRequestType == NoRequest \in Request
BY DEF NoRequest, Request

\* A worker moves to another statement and the columns stay.
LEMMA StepKeepsTypes ==
  ASSUME TInv, Unwritten, raced' \in BOOLEAN,
         NEW w \in Workers, NEW l \in Labels, NEW r \in Request, Step(w, l, r),
         l # "idle" => r.event \in Events,
         l = "issue" => r.at \in 1..now
  PROVE  TInv'
<1>1. \A v \in Workers : /\ pc'[v] = IF v = w THEN l ELSE pc[v]
                         /\ req'[v] = IF v = w THEN r ELSE req[v]
  BY DEF TInv, TypeOK, Step
<1>2. pc' \in [Workers -> Labels] /\ req' \in [Workers -> Request]
  BY DEF TInv, TypeOK, Step
<1>3. TypeOK'
  BY <1>2 DEF TInv, TypeOK, Unwritten, settings, code
<1>4. RequestsFit'
  BY <1>1 DEF TInv, RequestsFit, Unwritten
<1> QED
  BY <1>3, <1>4 DEF TInv

LEMMA ReplyKeepsTypes ==
  ASSUME TInv, OnlyRead, NEW w \in Workers, Reply(w)
  PROVE  TInv'
<1>1. raced' \in BOOLEAN /\ Unwritten
  BY DEF OnlyRead, TInv, TypeOK
<1> QED
  BY <1>1, NoRequestType, StepKeepsTypes DEF Reply, Labels

\* A read that goes on with the same event.
LEMMA ReadKeepsTypes ==
  ASSUME TInv, OnlyRead, NEW w \in Workers, NEW l \in Labels, NEW r \in Request, Step(w, l, r),
         r.event \in Events, l = "issue" => r.at \in 1..now
  PROVE  TInv'
<1>1. raced' \in BOOLEAN /\ Unwritten
  BY DEF OnlyRead, TInv, TypeOK
<1> QED
  BY <1>1, StepKeepsTypes

LEMMA BeginKeepsTypes ==
  ASSUME TInv, NEW w \in Workers,
         GetShare(w) \/ Regenerate(w) \/ PatchSettings(w)
  PROVE  TInv'
<1>1. ASSUME NEW l \in Labels \ {"issue"}, NEW r \in Request, r.event \in Events,
             Begin(w, l, r), Unwritten
      PROVE  TInv'
  <2>1. raced' \in BOOLEAN /\ Step(w, l, r)
    BY <1>1 DEF Begin, Start, TInv, TypeOK
  <2> QED
    BY <1>1, <2>1, StepKeepsTypes
<1>2. CASE GetShare(w)
  <2>1. PICK e \in Events : Begin(w, "share_event", [NoRequest EXCEPT !.event = e]) /\ Unwritten
    BY <1>2 DEF GetShare
  <2>2. [NoRequest EXCEPT !.event = e] \in Request
    BY DEF NoRequest, Request
  <2>3. [NoRequest EXCEPT !.event = e].event = e
    BY DEF NoRequest
  <2> QED
    BY <1>1, <2>1, <2>2, <2>3 DEF Labels
<1>3. CASE Regenerate(w)
  <2>1. PICK e \in Events : Begin(w, "regenerate_event", [NoRequest EXCEPT !.event = e]) /\ Unwritten
    BY <1>3 DEF Regenerate
  <2>2. [NoRequest EXCEPT !.event = e] \in Request
    BY DEF NoRequest, Request
  <2>3. [NoRequest EXCEPT !.event = e].event = e
    BY DEF NoRequest
  <2> QED
    BY <1>1, <2>1, <2>2, <2>3 DEF Labels
<1>4. CASE PatchSettings(w)
  <2>1. PICK e \in Events, b \in BOOLEAN, m \in Rotations :
          Begin(w, "settings_read", [NoRequest EXCEPT !.event = e, !.enable = b, !.rotation = m])
          /\ Unwritten
    BY <1>4 DEF PatchSettings
  <2>2. [NoRequest EXCEPT !.event = e, !.enable = b, !.rotation = m] \in Request
    BY ClockInQRAssumption DEF NoRequest, Request
  <2>3. [NoRequest EXCEPT !.event = e, !.enable = b, !.rotation = m].event = e
    BY DEF NoRequest
  <2> QED
    BY <1>1, <2>1, <2>2, <2>3 DEF Labels
<1> QED
  BY <1>2, <1>3, <1>4

\* The columns of the event of a request, and the request itself.
LEMMA RequestAt ==
  ASSUME TInv, NEW w \in Workers, pc[w] # "idle"
  PROVE  /\ req[w] \in Request /\ req[w].event \in Events
         /\ token[req[w].event] \in Nat /\ issued[req[w].event] \in Nat
         /\ rotation[req[w].event] \in Nat /\ now \in Nat \ {0}
<1>1. req[w] \in Request /\ req[w].event \in Events
  BY DEF TInv, TypeOK, RequestsFit
<1> QED
  BY <1>1, ClockInQRAssumption DEF TInv, TypeOK

LEMMA ReadsKeepTypes ==
  ASSUME TInv, NEW w \in Workers,
         \/ ShareEvent(w) \/ EnsureRead(w) \/ Answer(w) \/ RegenerateEvent(w) \/ RegenerateRead(w)
         \/ SettingsRead(w) \/ SettingsReread(w) \/ AbortRequest(w)
  PROVE  TInv'
<1> DEFINE r == req[w]
           e == req[w].event
<1>1. pc[w] # "idle" /\ OnlyRead
  BY DEF ShareEvent, EnsureRead, Answer, RegenerateEvent, RegenerateRead, SettingsRead,
         SettingsReread, AbortRequest, At, Idle
<1>2. /\ r \in Request /\ e \in Events /\ token[e] \in Nat /\ issued[e] \in Nat
      /\ rotation[e] \in Nat /\ now \in Nat \ {0}
  BY <1>1, RequestAt
<1>3. CASE Reply(w)
  BY <1>1, <1>3, ReplyKeepsTypes
<1>4. CASE EnsureForAnswer(w)
  <2>1. [r EXCEPT !.rotation = rotation[e], !.back = "answer"] \in Request
    BY <1>2 DEF Request
  <2>2. [r EXCEPT !.rotation = rotation[e], !.back = "answer"].event = e
    BY <1>2 DEF Request
  <2> QED
    BY <1>1, <1>2, <1>4, <2>1, <2>2, ReadKeepsTypes DEF EnsureForAnswer, Labels
<1>5. CASE \E b \in {"answer", "settings_reread"}, i \in Nat :
             Step(w, b, [r EXCEPT !.token = token[e], !.at = now, !.issued = i])
  <2>1. PICK b \in {"answer", "settings_reread"}, i \in Nat :
             Step(w, b, [r EXCEPT !.token = token[e], !.at = now, !.issued = i])
    BY <1>5
  <2>2. [r EXCEPT !.token = token[e], !.at = now, !.issued = i] \in Request
    BY <1>2 DEF Request
  <2>3. [r EXCEPT !.token = token[e], !.at = now, !.issued = i].event = e
    BY <1>2 DEF Request
  <2> QED
    BY <1>1, <1>2, <2>1, <2>2, <2>3, ReadKeepsTypes DEF Labels
<1>6. CASE Step(w, "issue", [r EXCEPT !.at = now])
  <2>1. [r EXCEPT !.at = now] \in Request
    BY <1>2 DEF Request
  <2>2. [r EXCEPT !.at = now].event = e /\ [r EXCEPT !.at = now].at \in 1..now
    BY <1>2 DEF Request
  <2> QED
    BY <1>1, <1>2, <1>6, <2>1, <2>2, ReadKeepsTypes DEF Labels
<1>7. CASE Step(w, "regenerate_read", [r EXCEPT !.rotation = rotation[e]])
  <2>1. [r EXCEPT !.rotation = rotation[e]] \in Request
    BY <1>2 DEF Request
  <2>2. [r EXCEPT !.rotation = rotation[e]].event = e
    BY <1>2 DEF Request
  <2> QED
    BY <1>1, <1>2, <1>7, <2>1, <2>2, ReadKeepsTypes DEF Labels
<1>8. CASE Step(w, "settings_write", [r EXCEPT !.token = token[e], !.issued = issued[e]])
  <2>1. [r EXCEPT !.token = token[e], !.issued = issued[e]] \in Request
    BY <1>2 DEF Request
  <2>2. [r EXCEPT !.token = token[e], !.issued = issued[e]].event = e
    BY <1>2 DEF Request
  <2> QED
    BY <1>1, <1>2, <1>8, <2>1, <2>2, ReadKeepsTypes DEF Labels
<1>9. EnsureRead(w) => \/ Reply(w)
                       \/ \E b \in {"answer", "settings_reread"}, i \in Nat :
                            Step(w, b, [r EXCEPT !.token = token[e], !.at = now, !.issued = i])
                       \/ Step(w, "issue", [r EXCEPT !.at = now])
  <2>1. r.back \in {"answer", "settings_reread"}
    BY <1>2 DEF Request
  <2>2. (IF issued[e] = 0 THEN now ELSE issued[e]) \in Nat
    BY <1>2
  <2> QED
    BY <2>1, <2>2 DEF EnsureRead
<1> QED
  BY <1>3, <1>4, <1>5, <1>6, <1>7, <1>8, <1>9
     DEF ShareEvent, Answer, RegenerateEvent, RegenerateRead, SettingsRead,
         SettingsReread, AbortRequest

\* What the two statements that write do to the columns and to the request.
LEMMA WritesKeepTypes ==
  ASSUME TInv, NEW w \in Workers, Issue(w) \/ SettingsWrite(w)
  PROVE  TInv'
<1> DEFINE r == req[w]
           e == req[w].event
<1>1. pc[w] # "idle"
  BY DEF Issue, SettingsWrite, At
<1>2. r \in Request /\ e \in Events /\ now \in Nat \ {0}
  BY <1>1, RequestAt
<1>3. ASSUME NEW l \in Labels \ {"issue"}, NEW s \in Request, Step(w, l, s), s.event \in Events,
             now' = now
      PROVE  pc' \in [Workers -> Labels] /\ req' \in [Workers -> Request] /\ RequestsFit'
  <2>1. \A v \in Workers : /\ pc'[v] = IF v = w THEN l ELSE pc[v]
                           /\ req'[v] = IF v = w THEN s ELSE req[v]
    BY <1>3 DEF TInv, TypeOK, Step
  <2>2. pc' \in [Workers -> Labels] /\ req' \in [Workers -> Request]
    BY <1>3 DEF TInv, TypeOK, Step
  <2> QED
    BY <1>3, <2>1, <2>2 DEF TInv, RequestsFit
<1>4. CASE Issue(w)
  <2>1. r.at \in 1..now
    BY <1>4 DEF TInv, RequestsFit, Issue, At
  <2>2. lastToken \in Nat /\ lastToken' = lastToken + 1 /\ lastToken < MaxTokens
    BY <1>4, ClockInQRAssumption DEF TInv, TypeOK, Issue
  <2>3. [r EXCEPT !.token = lastToken', !.issued = r.at] \in Request
    <3> DEFINE t == lastToken'
    <3>1. t \in Nat /\ r.at \in Nat
      BY <2>1, <2>2
    <3>2. ASSUME NEW n \in Nat, NEW m \in Nat
          PROVE  [r EXCEPT !.token = n, !.issued = m] \in Request
      BY <1>2 DEF Request
    <3> QED
      BY <3>1, <3>2
  <2>4. [r EXCEPT !.token = lastToken', !.issued = r.at].event = e
    BY <1>2 DEF Request
  <2>5. r.back \in {"answer", "settings_reread"}
    BY <1>2 DEF Request
  <2>6. pc' \in [Workers -> Labels] /\ req' \in [Workers -> Request] /\ RequestsFit'
    BY <1>2, <1>3, <1>4, <2>3, <2>4, <2>5 DEF Issue, Labels
  <2>7. /\ token' \in [Events -> 0..lastToken'] /\ issued' \in [Events -> 0..now]
        /\ \A d \in Events : token'[d] = 0 <=> issued'[d] = 0
    BY <1>2, <1>4, <2>1, <2>2 DEF TInv, TypeOK, Issue
  <2> QED
    BY <1>4, <2>2, <2>6, <2>7, ClockInQRAssumption DEF TInv, TypeOK, Issue, settings
<1>5. CASE SettingsWrite(w)
  <2>1. [r EXCEPT !.back = "settings_reread"] \in Request
    BY <1>2 DEF Request
  <2>2. [r EXCEPT !.back = "settings_reread"].event = e
    BY <1>2 DEF Request
  <2>3. \/ Step(w, "ensure", [r EXCEPT !.back = "settings_reread"])
        \/ Step(w, "settings_reread", r)
    <3>1. Goto(w, "settings_reread") => Step(w, "settings_reread", r)
      BY DEF Goto, Step, TInv, TypeOK
    <3> QED
      BY <1>5, <3>1 DEF SettingsWrite, AfterWrite
  <2>4. pc' \in [Workers -> Labels] /\ req' \in [Workers -> Request] /\ RequestsFit'
    BY <1>2, <1>3, <1>5, <2>1, <2>2, <2>3 DEF SettingsWrite, Labels
  <2>5. r.enable \in BOOLEAN /\ r.rotation \in Nat
    BY <1>2 DEF Request
  <2>6. enabled' \in [Events -> BOOLEAN] /\ rotation' \in [Events -> Nat]
    BY <1>2, <1>5, <2>5 DEF SettingsWrite, Switch, TInv, TypeOK
  <2>7. /\ token' \in [Events -> 0..lastToken] /\ issued' \in [Events -> 0..now]
        /\ \A d \in Events : token'[d] = 0 <=> issued'[d] = 0
    <3>1. CASE UNCHANGED code
      BY <3>1 DEF TInv, TypeOK, code
    <3>2. CASE token' = [token EXCEPT ![e] = 0] /\ issued' = [issued EXCEPT ![e] = 0]
      BY <1>2, <3>2, ClockInQRAssumption DEF TInv, TypeOK
    <3> QED
      BY <1>5, <3>1, <3>2 DEF SettingsWrite
  <2> QED
    BY <1>5, <2>4, <2>6, <2>7 DEF TInv, TypeOK, SettingsWrite
<1> QED
  BY <1>4, <1>5

LEMMA InitTypes == Init => TInv
<1> SUFFICES ASSUME Init PROVE TInv
  OBVIOUS
<1>1. pc \in [Workers -> Labels] /\ req \in [Workers -> Request]
  BY NoRequestType DEF Init, Labels
<1>2. RequestsFit
  BY DEF Init, RequestsFit
<1>3. MaxTime \in Nat /\ MaxTime > 0 /\ MaxTokens \in Nat
  BY ClockInQRAssumption
<1>4. now \in 1..MaxTime /\ lastToken \in 0..MaxTokens
  <2>1. now = 1 /\ lastToken = 0
    BY DEF Init
  <2> QED
    BY <1>3, <2>1
<1>5. enabled \in [Events -> BOOLEAN] /\ rotation \in [Events -> Nat]
  BY DEF Init
<1>6. /\ token \in [Events -> 0..lastToken] /\ issued \in [Events -> 0..now]
      /\ \A e \in Events : token[e] = 0 <=> issued[e] = 0
  BY DEF Init
<1>7. raced \in BOOLEAN
  BY Zenon DEF Init
<1> QED
  BY <1>1, <1>2, <1>4, <1>5, <1>6, <1>7 DEF TInv, TypeOK

LEMMA NextKeepsTypes == TInv /\ [Next]_vars => TInv'
<1> SUFFICES ASSUME TInv, [Next]_vars PROVE TInv'
  OBVIOUS
<1>1. CASE Tick
  <2>1. now \in Nat /\ now' \in 1..MaxTime /\ now' = now + 1
    BY <1>1, ClockInQRAssumption DEF TInv, TypeOK, Tick
  <2>2. TypeOK'
    BY <1>1, <2>1 DEF TInv, TypeOK, Tick, settings, code, workers
  <2>3. RequestsFit'
    BY <1>1, <2>1 DEF TInv, RequestsFit, Tick, workers
  <2> QED
    BY <2>2, <2>3 DEF TInv
<1>2. CASE UNCHANGED vars
  BY <1>2 DEF TInv, TypeOK, RequestsFit, vars, settings, code, workers
<1> QED
  BY <1>1, <1>2, BeginKeepsTypes, ReadsKeepTypes, WritesKeepTypes DEF Next

\* Every column and every request keeps its type, and a code always has the issue
\* time that its expiry is computed from, however requests interleave.
THEOREM TypeInvariant == Spec => []TypeOK
<1>1. TInv => TypeOK
  BY DEF TInv
<1> QED
  BY <1>1, InitTypes, NextKeepsTypes, PTL DEF Spec

-----------------------------------------------------------------------------
\* Only two statements write the code: one clears it, the other stores a code that
\* was never used before.  So no request, however late it writes, brings back a
\* code that was replaced or switched off.
LEMMA CodeChanges ==
  ASSUME TInv, [Next]_vars, NEW e \in Events, token'[e] # token[e]
  PROVE  token'[e] = 0 \/ (token'[e] = lastToken' /\ lastToken < lastToken')
<1>1. ASSUME NEW w \in Workers, Issue(w)
      PROVE  token'[e] = lastToken' /\ lastToken < lastToken'
  <2>1. token' = [token EXCEPT ![req[w].event] = lastToken'] /\ lastToken' = lastToken + 1
    BY <1>1 DEF Issue
  <2> QED
    BY <2>1, ClockInQRAssumption DEF TInv, TypeOK
<1>2. ASSUME NEW w \in Workers, SettingsWrite(w)
      PROVE  token'[e] = 0
  <2>1. UNCHANGED code \/ token' = [token EXCEPT ![req[w].event] = 0]
    BY <1>2 DEF SettingsWrite
  <2> QED
    BY <2>1 DEF TInv, TypeOK, code
<1>3. ASSUME NEW w \in Workers,
             \/ GetShare(w) \/ ShareEvent(w) \/ EnsureRead(w) \/ Answer(w)
             \/ Regenerate(w) \/ RegenerateEvent(w) \/ RegenerateRead(w)
             \/ PatchSettings(w) \/ SettingsRead(w) \/ SettingsReread(w) \/ AbortRequest(w)
      PROVE  UNCHANGED token
  BY <1>3 DEF GetShare, ShareEvent, EnsureRead, Answer, Regenerate, RegenerateEvent, RegenerateRead,
              PatchSettings, SettingsRead, SettingsReread, AbortRequest, OnlyRead, Unwritten, code
<1>4. (Tick \/ UNCHANGED vars) => UNCHANGED token
  BY DEF Tick, vars, code
<1> QED
  BY <1>1, <1>2, <1>3, <1>4 DEF Next

\* However requests interleave, a code that was replaced or switched off is never
\* the code of its event again.
THEOREM ReplacedCodesStayReplaced == Spec => ReplacedForGood
<1>1. Init => TInv
  BY InitTypes
<1>2. TInv /\ [Next]_vars => TInv'
  BY NextKeepsTypes
<1>3. TInv /\ [Next]_vars =>
        [\A e \in Events : token'[e] # token[e] =>
           token'[e] = 0 \/ (token'[e] = lastToken' /\ lastToken < lastToken')]_vars
  BY CodeChanges
<1> QED
  BY <1>1, <1>2, <1>3, PTL DEF Spec, ReplacedForGood

-----------------------------------------------------------------------------
(* While requests run one at a time.  What a request has read is still     *)
(* so when it writes or answers, because nobody else is in flight.         *)

Alone == ~raced => \A v, w \in Workers : ~Idle(v) /\ ~Idle(w) => v = w

\* What a request knows of its event at statement l.
Knows(l, r) ==
  LET e == r.event
  IN  /\ l = "issue" => enabled[e]
      /\ l \in {"ensure", "issue"} /\ r.back = "answer" => r.rotation = rotation[e]
      /\ l = "regenerate_read" => r.rotation = rotation[e]
      /\ l = "answer" =>
           Accepted(e, r.token, r.at) /\ r.issued = issued[e] /\ r.rotation = rotation[e]

NothingStale == ~raced => \A w \in Workers : Knows(pc[w], req[w])

SInv == TInv /\ Alone /\ NothingStale /\ DisabledHasNoCode

\* The others are idle and know nothing, so only the worker that moves matters.
LEMMA MoveStaysFresh ==
  ASSUME SInv, NEW w \in Workers, ~Idle(w), NEW l \in Labels, NEW r \in Request, Step(w, l, r),
         UNCHANGED raced, ~raced => Knows(l, r)'
  PROVE  Alone' /\ NothingStale'
<1>1. \A v \in Workers : /\ pc'[v] = IF v = w THEN l ELSE pc[v]
                         /\ req'[v] = IF v = w THEN r ELSE req[v]
  BY DEF SInv, TInv, TypeOK, Step
<1>2. Alone'
  BY <1>1 DEF SInv, Alone, Idle
<1>3. ASSUME NEW v \in Workers, ~raced, v # w
      PROVE  Knows(pc[v], req[v])'
  <2>1. pc'[v] = "idle"
    BY <1>1, <1>3 DEF SInv, Alone, Idle
  <2> QED BY <2>1 DEF Knows
<1>4. ~raced => Knows(pc[w], req[w])'
  BY <1>1
<1> QED BY <1>2, <1>3, <1>4 DEF NothingStale

\* What a request knows at its next statement l and has read, it knows after a read.
LEMMA ReadStaysFresh ==
  ASSUME SInv, OnlyRead, NEW w \in Workers, ~Idle(w), NEW l \in Labels, NEW r \in Request,
         Step(w, l, r), ~raced => Knows(l, r)
  PROVE  Alone' /\ NothingStale' /\ DisabledHasNoCode'
<1>1. UNCHANGED <<now, enabled, rotation, token, issued, lastToken, raced>>
  BY DEF OnlyRead, Unwritten, settings, code
<1>2. ~raced => Knows(l, r)'
  BY <1>1 DEF Knows, Accepted
<1>3. DisabledHasNoCode'
  BY <1>1 DEF SInv, DisabledHasNoCode
<1> QED BY <1>1, <1>2, <1>3, MoveStaysFresh

LEMMA ReplyStaysFresh ==
  ASSUME SInv, OnlyRead, NEW w \in Workers, ~Idle(w), Reply(w)
  PROVE  Alone' /\ NothingStale' /\ DisabledHasNoCode'
<1>1. Knows("idle", NoRequest) /\ "idle" \in Labels
  BY DEF Knows, Labels
<1> QED BY <1>1, NoRequestType, ReadStaysFresh DEF Reply

LEMMA BeginStaysFresh ==
  ASSUME SInv, NEW w \in Workers, GetShare(w) \/ Regenerate(w) \/ PatchSettings(w)
  PROVE  Alone' /\ NothingStale' /\ DisabledHasNoCode'
<1>0. PICK l \in {"share_event", "regenerate_event", "settings_read"} : \E r : Begin(w, l, r)
  BY DEF GetShare, Regenerate, PatchSettings
<1>1. PICK r : Begin(w, l, r)
  BY <1>0
<1>2. UNCHANGED <<now, enabled, rotation, token, issued, lastToken>>
  BY DEF GetShare, Regenerate, PatchSettings, Unwritten, settings, code
<1>3. /\ raced => raced'
      /\ ~raced' => \A v \in Workers : Idle(v)
      /\ \A v \in Workers : pc'[v] = IF v = w THEN l ELSE pc[v]
  BY <1>1 DEF Begin, Start, Step, SInv, TInv, TypeOK
<1>4. Alone'
  BY <1>3 DEF Alone, Idle
<1>5. NothingStale'
  BY <1>3 DEF NothingStale, Knows, Idle
<1>6. DisabledHasNoCode'
  BY <1>2, <1>3 DEF SInv, DisabledHasNoCode
<1> QED BY <1>4, <1>5, <1>6

\* EnsureEventClockInQRToken finds a code that the gate accepts, or goes on to issue
\* one while the switch is on.
LEMMA EnsureStaysFresh ==
  ASSUME SInv, NEW w \in Workers, EnsureRead(w)
  PROVE  Alone' /\ NothingStale' /\ DisabledHasNoCode'
<1> DEFINE r == req[w]
           e == req[w].event
<1>1. pc[w] = "ensure" /\ ~Idle(w) /\ OnlyRead
  BY DEF EnsureRead, At, Idle
<1>2. /\ r \in Request /\ e \in Events /\ token[e] \in Nat /\ issued[e] \in Nat
      /\ rotation[e] \in Nat /\ now \in Nat \ {0}
  BY <1>1, RequestAt DEF SInv
<1>3. ~raced /\ r.back = "answer" => r.rotation = rotation[e]
  BY <1>1 DEF SInv, NothingStale, Knows
<1>4. CASE Reply(w)
  BY <1>1, <1>4, ReplyStaysFresh
<1>5. CASE enabled[e] /\ Step(w, "issue", [r EXCEPT !.at = now])
  <2>1. LET s == [r EXCEPT !.at = now]
        IN  s \in Request /\ s.event = e /\ s.back = r.back /\ s.rotation = r.rotation
    BY <1>2 DEF Request
  <2>2. ~raced => Knows("issue", [r EXCEPT !.at = now])
    BY <2>1, <1>3, <1>5 DEF Knows
  <2> QED BY <1>1, <1>5, <2>1, <2>2, ReadStaysFresh DEF Labels
<1>6. CASE /\ enabled[e]
           /\ token[e] # 0 /\ ~ClockInQRIsExpired(issued[e], rotation[e], now)
           /\ Step(w, r.back, [r EXCEPT !.token = token[e], !.at = now,
                                        !.issued = IF issued[e] = 0 THEN now ELSE issued[e]])
  <2>1. issued[e] # 0
    BY <1>2, <1>6 DEF SInv, TInv, TypeOK
  <2>2. PICK s : s = [r EXCEPT !.token = token[e], !.at = now, !.issued = issued[e]]
    OBVIOUS
  <2>3. /\ s \in Request /\ s.event = e /\ s.token = token[e] /\ s.at = now
        /\ s.issued = issued[e] /\ s.rotation = r.rotation
        /\ r.back \in {"answer", "settings_reread"}
    BY <1>2, <2>2 DEF Request
  <2>4. Step(w, r.back, s)
    BY <1>6, <2>1, <2>2
  <2>5. ~raced => Knows(r.back, s)
    BY <1>3, <1>6, <2>3 DEF Knows, Accepted
  <2> QED BY <1>1, <2>3, <2>4, <2>5, ReadStaysFresh DEF Labels
<1> QED BY <1>4, <1>5, <1>6 DEF EnsureRead

LEMMA ReadsStayFresh ==
  ASSUME SInv, NEW w \in Workers,
         \/ ShareEvent(w) \/ EnsureRead(w) \/ Answer(w) \/ RegenerateEvent(w) \/ RegenerateRead(w)
         \/ SettingsRead(w) \/ SettingsReread(w) \/ AbortRequest(w)
  PROVE  Alone' /\ NothingStale' /\ DisabledHasNoCode'
<1> DEFINE r == req[w]
           e == req[w].event
<1>1. pc[w] # "idle" /\ ~Idle(w) /\ OnlyRead
  BY DEF ShareEvent, EnsureRead, Answer, RegenerateEvent, RegenerateRead, SettingsRead,
         SettingsReread, AbortRequest, At, Idle
<1>2. r \in Request /\ e \in Events /\ token[e] \in Nat /\ issued[e] \in Nat
      /\ rotation[e] \in Nat /\ now \in Nat \ {0}
  BY <1>1, RequestAt DEF SInv
<1>3. CASE Reply(w)
  BY <1>1, <1>3, ReplyStaysFresh
<1>4. CASE EnsureForAnswer(w)
  <2>1. LET s == [r EXCEPT !.rotation = rotation[e], !.back = "answer"]
        IN  s \in Request /\ s.event = e /\ s.rotation = rotation[e]
    BY <1>2 DEF Request
  <2>2. Knows("ensure", [r EXCEPT !.rotation = rotation[e], !.back = "answer"])
    BY <2>1 DEF Knows
  <2> QED BY <1>1, <1>4, <2>1, <2>2, ReadStaysFresh DEF EnsureForAnswer, Labels
<1>5. CASE Step(w, "regenerate_read", [r EXCEPT !.rotation = rotation[e]])
  <2>1. LET s == [r EXCEPT !.rotation = rotation[e]]
        IN  s \in Request /\ s.event = e /\ s.rotation = rotation[e]
    BY <1>2 DEF Request
  <2>2. Knows("regenerate_read", [r EXCEPT !.rotation = rotation[e]])
    BY <2>1 DEF Knows
  <2> QED BY <1>1, <1>5, <2>1, <2>2, ReadStaysFresh DEF Labels
<1>6. CASE /\ pc[w] = "regenerate_read" /\ enabled[e]
           /\ Step(w, "issue", [r EXCEPT !.at = now])
  <2>1. LET s == [r EXCEPT !.at = now]
        IN  s \in Request /\ s.event = e /\ s.rotation = r.rotation
    BY <1>2 DEF Request
  <2>2. ~raced => r.rotation = rotation[e]
    BY <1>6 DEF SInv, NothingStale, Knows
  <2>3. ~raced => Knows("issue", [r EXCEPT !.at = now])
    BY <1>6, <2>1, <2>2 DEF Knows
  <2> QED BY <1>1, <1>6, <2>1, <2>3, ReadStaysFresh DEF Labels
<1>7. CASE SettingsRead(w)
  <2>1. [r EXCEPT !.token = token[e], !.issued = issued[e]] \in Request
    BY <1>2 DEF Request
  <2>2. Knows("settings_write", [r EXCEPT !.token = token[e], !.issued = issued[e]])
    BY DEF Knows
  <2> QED BY <1>1, <1>7, <2>1, <2>2, ReadStaysFresh DEF SettingsRead, Labels
<1> QED
  BY <1>3, <1>4, <1>5, <1>6, <1>7, EnsureStaysFresh
     DEF ShareEvent, Answer, RegenerateEvent, RegenerateRead, SettingsReread, AbortRequest, At

\* A code is issued while the switch is on, and is not expired at its issue time.
LEMMA IssueStaysFresh ==
  ASSUME SInv, NEW w \in Workers, Issue(w)
  PROVE  Alone' /\ NothingStale' /\ DisabledHasNoCode'
<1>0. PICK r, t, s : r = req[w] /\ t = lastToken' /\ s = [r EXCEPT !.token = t, !.issued = r.at]
  OBVIOUS
<1>1. /\ ~Idle(w) /\ pc[w] = "issue"
      /\ lastToken' = lastToken + 1 /\ Step(w, r.back, s)
      /\ UNCHANGED <<enabled, rotation, raced>>
      /\ token' = [token EXCEPT ![r.event] = t] /\ issued' = [issued EXCEPT ![r.event] = r.at]
  BY <1>0 DEF Issue, At, Idle, settings
<1>2. r \in Request /\ r.event \in Events /\ r.at \in 1..now /\ now \in Nat
  BY <1>0, <1>1, RequestAt DEF SInv, TInv, RequestsFit
<1>3. lastToken \in Nat /\ t \in Nat \ {0}
  BY <1>0, <1>1, ClockInQRAssumption DEF SInv, TInv, TypeOK
<1>4. /\ s \in Request /\ s.event = r.event /\ s.token = t /\ s.issued = r.at /\ s.at = r.at
      /\ s.rotation = r.rotation /\ r.back \in {"answer", "settings_reread"} /\ s.back = r.back
  BY <1>0, <1>2, <1>3 DEF Request
<1>5. ~raced => /\ enabled[r.event]
                /\ r.back = "answer" => r.rotation = rotation[r.event]
  BY <1>0, <1>1 DEF SInv, NothingStale, Knows
<1>6. token'[r.event] = t /\ issued'[r.event] = r.at
  BY <1>1, <1>2 DEF SInv, TInv, TypeOK
<1>7. ~ClockInQRIsExpired(r.at, rotation[r.event], r.at)
  BY <1>2 DEF ClockInQRIsExpired, SInv, TInv, TypeOK
<1>8. ~raced => Knows(r.back, s)'
  BY <1>1, <1>3, <1>4, <1>5, <1>6, <1>7 DEF Knows, Accepted, ClockInQRIsExpired
<1>9. Alone' /\ NothingStale'
  BY <1>1, <1>4, <1>8, MoveStaysFresh DEF Labels
<1>10. DisabledHasNoCode'
  BY <1>1, <1>2, <1>5 DEF SInv, TInv, TypeOK, DisabledHasNoCode
<1> QED BY <1>9, <1>10

\* Switching off clears the code.
LEMMA SettingsStayFresh ==
  ASSUME SInv, NEW w \in Workers, SettingsWrite(w)
  PROVE  Alone' /\ NothingStale' /\ DisabledHasNoCode'
<1>0. PICK r, s : r = req[w] /\ s = [r EXCEPT !.back = "settings_reread"]
  OBVIOUS
<1>1. /\ ~Idle(w) /\ UNCHANGED raced
      /\ enabled' = [enabled EXCEPT ![r.event] = r.enable]
      /\ IF r.enable THEN UNCHANGED code ELSE token' = [token EXCEPT ![r.event] = 0]
  BY <1>0 DEF SettingsWrite, Switch, At, Idle
<1>2. r \in Request /\ r.event \in Events
  BY <1>0, <1>1, RequestAt DEF SInv, Idle
<1>3. Step(w, "ensure", s) \/ Step(w, "settings_reread", r)
  <2>1. Goto(w, "settings_reread") => Step(w, "settings_reread", r)
    BY <1>0 DEF Goto, Step, SInv, TInv, TypeOK
  <2> QED BY <2>1, <1>0 DEF SettingsWrite, AfterWrite
<1>4. s \in Request /\ s.back = "settings_reread"
  BY <1>0, <1>2 DEF Request
<1>5. Knows("ensure", s)' /\ Knows("settings_reread", r)'
  BY <1>4 DEF Knows
<1>6. Alone' /\ NothingStale'
  BY <1>1, <1>2, <1>3, <1>4, <1>5, MoveStaysFresh DEF Labels
<1>7. DisabledHasNoCode'
  BY <1>1, <1>2 DEF SInv, TInv, TypeOK, DisabledHasNoCode, code
<1> QED BY <1>6, <1>7

LEMMA NextStaysFresh == SInv /\ [Next]_vars => SInv'
<1> SUFFICES ASSUME SInv, [Next]_vars PROVE SInv'
  OBVIOUS
<1>1. TInv'
  BY NextKeepsTypes DEF SInv
<1>2. CASE Tick \/ UNCHANGED vars
  <2>1. UNCHANGED <<enabled, rotation, token, issued, raced, pc, req>>
    BY <1>2 DEF Tick, vars, settings, code, workers
  <2> QED
    BY <1>1, <2>1 DEF SInv, Alone, Idle, NothingStale, Knows, Accepted, DisabledHasNoCode
<1>3. ASSUME NEW w \in Workers,
             \/ GetShare(w) \/ ShareEvent(w) \/ EnsureRead(w) \/ Issue(w) \/ Answer(w)
             \/ Regenerate(w) \/ RegenerateEvent(w) \/ RegenerateRead(w)
             \/ PatchSettings(w) \/ SettingsRead(w) \/ SettingsWrite(w) \/ SettingsReread(w)
             \/ AbortRequest(w)
      PROVE  Alone' /\ NothingStale' /\ DisabledHasNoCode'
  BY <1>3, BeginStaysFresh, ReadsStayFresh, IssueStaysFresh, SettingsStayFresh
<1> QED BY <1>1, <1>2, <1>3 DEF SInv, Next

LEMMA Freshness == Spec => []SInv
<1>1. Init => SInv
  <2> SUFFICES ASSUME Init PROVE SInv
    OBVIOUS
  <2>1. TInv
    BY InitTypes
  <2>2. Alone /\ NothingStale /\ DisabledHasNoCode
    BY DEF Init, Alone, Idle, NothingStale, Knows, DisabledHasNoCode
  <2> QED BY <2>1, <2>2 DEF SInv
<1> QED BY <1>1, NextStaysFresh, PTL DEF Spec

\* As long as requests run one at a time, an event that is switched off has no code,
\* wherever one of its requests failed.
THEOREM SwitchedOffHasNoCode == Spec => []DisabledHasNoCode
<1>1. SInv => DisabledHasNoCode
  BY DEF SInv
<1> QED BY <1>1, Freshness, PTL

\* As long as requests run one at a time, a dashboard shows a code that the gate
\* accepts at the time it was read, with the issue time and the rotation that the
\* gate computes its expiry from.
THEOREM ShownCodesAreAccepted == Spec => []CodeShownIsAccepted
<1>1. SInv => CodeShownIsAccepted
  BY DEF SInv, NothingStale, Knows, CodeShownIsAccepted
<1> QED BY <1>1, Freshness, PTL

-----------------------------------------------------------------------------
(***************************************************************************)
(* Codes to join, for any number of requests, events, people and codes.  A *)
(* request reads the code of its event, compares it with the one that was  *)
(* scanned and joins two statements later: what it knows of the code has   *)
(* to be carried along (CodesKnown).  While requests run one at a time,    *)
(* what an organizer is about to be shown cannot be replaced (JoinsAlone). *)
(***************************************************************************)

JoinLabels == {"guest_lookup", "guest_insert", "join_event", "join_compare", "join_lookup", "join_insert"}

\* What a request r has by statement l: an event, and on its way to join a user.
JoinFits(l, r) ==
  l # "idle" =>
    /\ r.event \in JoinEvents
    /\ l \in {"guest_lookup", "guest_insert", "join_event"} => r.back = "join_compare"
    /\ l \in JoinLabels \/ r.back = "join_compare" => r.user \in People

JoinTypes == Joins!TypeOK /\ \A w \in Workers : JoinFits(jPc[w], jReq[w])

\* The code of its event is among those that a request may have met, and so is the
\* one that it read, and the one that it is about to join with.
CodesKnown ==
  \A w \in Workers : jPc[w] # "idle" =>
    /\ jToken[jReq[w].event] \in jValid[w]
    /\ jPc[w] = "join_compare" => jReq[w].token \in jValid[w] \ {0}
    /\ jPc[w] \in {"join_lookup", "join_insert"} => jReq[w].scanned \in jValid[w] \ {0}

KnownInv == JoinTypes /\ CodesKnown

\* Until requests have overlapped, one is in flight at most.
JoinsAlone == ~jRaced => \A v, w \in Workers : ~Joins!Idle(v) /\ ~Joins!Idle(w) => v = w

SharedInv == JoinTypes /\ JoinsAlone /\ Joins!SharedIsAccepted

\* The statements of requests, which Next lists.
JoinStep(w) ==
  \/ Joins!GetShare(w) \/ Joins!ShareEvent(w) \/ Joins!EnsureRead(w) \/ Joins!EnsureIssue(w) \/ Joins!ShareAnswer(w)
  \/ Joins!Regenerate(w) \/ Joins!RegenerateEvent(w) \/ Joins!RegenerateWrite(w)
  \/ Joins!JoinSignedIn(w) \/ Joins!JoinAsGuest(w) \/ Joins!GuestLookup(w) \/ Joins!GuestInsert(w)
  \/ Joins!JoinEvent(w) \/ Joins!JoinCompare(w) \/ Joins!JoinLookup(w) \/ Joins!JoinInsert(w)
  \/ Joins!AbortRequest(w)

-----------------------------------------------------------------------------
(* Moves                                                                   *)

\* Where a statement takes its request: it keeps to its event, and by what it has
\* read, issued or compared it gets on.
JoinGoes(w, l, r) ==
  /\ Joins!Step(w, l, r)
  /\ l \in Joins!Labels /\ r \in Joins!Request /\ JoinFits(l, r)
  /\ ~Joins!Idle(w) /\ l # "idle" => r.event = jReq[w].event
  /\ l \in {"join_compare", "share_answer"} => r.token = jToken'[r.event] /\ jToken'[r.event] # 0
  /\ l = "join_lookup" => Joins!At(w, "join_compare") /\ jReq[w].scanned = jReq[w].token /\ r = jReq[w]
  /\ l = "join_insert" => Joins!At(w, "join_lookup") /\ r = jReq[w]

LEMMA JoinMoves ==
  ASSUME JoinTypes, NEW w \in Workers, NEW l, NEW r, Joins!Step(w, l, r)
  PROVE  \A v \in Workers : /\ jPc'[v] = IF v = w THEN l ELSE jPc[v]
                            /\ jReq'[v] = IF v = w THEN r ELSE jReq[v]
BY DEF JoinTypes, Joins!TypeOK, Joins!Step

LEMMA JoinGotoMoves ==
  ASSUME JoinTypes, NEW w \in Workers, NEW l, Joins!Goto(w, l)
  PROVE  Joins!Step(w, l, jReq[w])
BY DEF JoinTypes, Joins!TypeOK, Joins!Goto, Joins!Step

LEMMA JoinReplyGoes ==
  ASSUME JoinTypes, NEW w \in Workers, Joins!Reply(w)
  PROVE  JoinGoes(w, "idle", Joins!NoRequest)
BY DEF Joins!Reply, JoinGoes, JoinFits, Joins!NoRequest, Joins!Request, Joins!Labels

\* A statement that only goes on keeps what its request carries.
LEMMA JoinGotoGoes ==
  ASSUME JoinTypes, NEW w \in Workers, NEW l \in Joins!Labels, Joins!Goto(w, l), ~Joins!Idle(w),
         JoinFits(l, jReq[w]),
         l \notin {"join_compare", "share_answer", "join_lookup", "join_insert"}
  PROVE  JoinGoes(w, l, jReq[w])
BY JoinGotoMoves DEF JoinGoes, JoinTypes, Joins!TypeOK

\* A code is one that was never used.
LEMMA IssueTypes ==
  ASSUME JoinTypes, MaxTokens \in Nat, NEW e \in JoinEvents, Joins!NewToken(e)
  PROVE  /\ jLast' \in 1..MaxTokens /\ jLast < jLast'
         /\ jToken' \in [JoinEvents -> 0..jLast']
         /\ \A f \in JoinEvents : jToken'[f] = IF f = e THEN jLast' ELSE jToken[f]
<1>1. jLast \in 0..MaxTokens /\ jToken \in [JoinEvents -> 0..jLast]
  BY DEF JoinTypes, Joins!TypeOK
<1>2. jLast' = jLast + 1 /\ jLast < MaxTokens
  BY DEF Joins!NewToken
<1>3. jLast' \in 1..MaxTokens /\ jLast < jLast'
  BY <1>1, <1>2
<1>4. \A f \in JoinEvents : jToken'[f] = IF f = e THEN jLast' ELSE jToken[f]
  BY <1>1 DEF Joins!NewToken
<1>5. jToken' \in [JoinEvents -> 0..jLast']
  <2>1. \A f \in JoinEvents : jToken'[f] \in 0..jLast'
    BY <1>1, <1>2, <1>4
  <2>2. jToken' = [f \in JoinEvents |-> jToken'[f]]
    BY <1>1 DEF Joins!NewToken
  <2> QED BY <2>1, <2>2
<1> QED BY <1>3, <1>4, <1>5

\* Requests begin.
LEMMA JoinBeginsGo ==
  ASSUME JoinTypes, NEW w \in Workers,
         Joins!GetShare(w) \/ Joins!Regenerate(w) \/ Joins!JoinSignedIn(w) \/ Joins!JoinAsGuest(w)
  PROVE  \E l, r : JoinGoes(w, l, r)
<1>1. CASE Joins!GetShare(w) \/ Joins!Regenerate(w)
  <2>1. PICK e \in JoinEvents, l \in {"share_event", "regenerate_event"} :
          Joins!Begin(w, l, [Joins!NoRequest EXCEPT !.event = e])
    BY <1>1 DEF Joins!GetShare, Joins!Regenerate
  <2>2. PICK r : r = [Joins!NoRequest EXCEPT !.event = e]
    OBVIOUS
  <2>3. r \in Joins!Request /\ r.event = e /\ r.back = "share_answer"
    BY <2>2 DEF Joins!NoRequest, Joins!Request
  <2>4. JoinFits(l, r)
    BY <2>3 DEF JoinFits, JoinLabels
  <2> QED
    BY <2>1, <2>2, <2>3, <2>4 DEF Joins!Begin, Joins!Start, JoinGoes, Joins!Labels
<1>2. CASE Joins!JoinSignedIn(w) \/ Joins!JoinAsGuest(w)
  <2>1. PICK e \in JoinEvents, p \in People, t \in Joins!Codes, l \in {"join_event", "guest_lookup"} :
          Joins!Begin(w, l, [Joins!NoRequest EXCEPT !.event = e, !.user = p, !.scanned = t, !.back = "join_compare"])
    BY <1>2 DEF Joins!JoinSignedIn, Joins!JoinAsGuest, JoinTypes, Joins!TypeOK
  <2>2. PICK r : r = [Joins!NoRequest EXCEPT !.event = e, !.user = p, !.scanned = t, !.back = "join_compare"]
    OBVIOUS
  <2>3. t \in Nat
    BY DEF Joins!Codes, JoinTypes, Joins!TypeOK
  <2>4. r \in Joins!Request /\ r.event = e /\ r.user = p /\ r.back = "join_compare"
    BY <2>2, <2>3 DEF Joins!NoRequest, Joins!Request
  <2>5. JoinFits(l, r)
    BY <2>4 DEF JoinFits, JoinLabels
  <2> QED
    BY <2>1, <2>2, <2>4, <2>5 DEF Joins!Begin, Joins!Start, JoinGoes, Joins!Labels
<1> QED BY <1>1, <1>2

\* Statements that go on or answer.
LEMMA ChecksGo ==
  ASSUME JoinTypes, NEW w \in Workers,
         \/ Joins!ShareEvent(w) \/ Joins!ShareAnswer(w) \/ Joins!RegenerateEvent(w) \/ Joins!GuestLookup(w) \/ Joins!GuestInsert(w)
         \/ Joins!JoinEvent(w) \/ Joins!JoinInsert(w) \/ Joins!AbortRequest(w)
  PROVE  \E l, r : JoinGoes(w, l, r)
<1>1. JoinFits(jPc[w], jReq[w])
  BY DEF JoinTypes
<1>2. CASE Joins!Reply(w)
  BY <1>2, JoinReplyGoes
<1>3. CASE ~Joins!Reply(w)
  <2>1. PICK l \in {"ensure", "regenerate_write", "join_event", "guest_insert"} :
          /\ Joins!Goto(w, l) /\ ~Joins!Idle(w)
          /\ jPc[w] \in {"share_event", "regenerate_event", "join_event", "guest_lookup", "guest_insert"}
          /\ l \in {"join_event", "guest_insert"} => jPc[w] \in {"guest_lookup", "guest_insert"}
    <3>1. CASE Joins!ShareEvent(w)
      BY <3>1, <1>3 DEF Joins!ShareEvent, Joins!Check, Joins!At, Joins!Idle
    <3>2. CASE Joins!RegenerateEvent(w)
      BY <3>2, <1>3 DEF Joins!RegenerateEvent, Joins!Check, Joins!At, Joins!Idle
    <3>3. CASE Joins!GuestLookup(w)
      BY <3>3, <1>3 DEF Joins!GuestLookup, Joins!At, Joins!Idle
    <3>4. CASE Joins!GuestInsert(w)
      BY <3>4, <1>3 DEF Joins!GuestInsert, Joins!At, Joins!Idle
    <3>5. CASE Joins!JoinEvent(w)
      BY <3>5, <1>3 DEF Joins!JoinEvent, Joins!Check, Joins!At, Joins!Idle
    <3>6. CASE Joins!ShareAnswer(w) \/ Joins!JoinInsert(w) \/ Joins!AbortRequest(w)
      BY <3>6, <1>3 DEF Joins!ShareAnswer, Joins!JoinInsert, Joins!AbortRequest
    <3> QED BY <3>1, <3>2, <3>3, <3>4, <3>5, <3>6
  <2>2. JoinFits(l, jReq[w])
    BY <1>1, <2>1 DEF JoinFits, JoinLabels, Joins!Idle
  <2> QED
    BY <2>1, <2>2, JoinGotoGoes DEF Joins!Labels
<1> QED BY <1>2, <1>3

\* The code was read: it is the one that there is, and not the empty string.
LEMMA ReadGoes ==
  ASSUME JoinTypes, NEW w \in Workers, Joins!EnsureRead(w)
  PROVE  \E l, r : JoinGoes(w, l, r)
<1>1. PICK q : q = jReq[w]
  OBVIOUS
<1>2. Joins!At(w, "ensure") /\ ~Joins!Idle(w) /\ JoinFits("ensure", q) /\ q \in Joins!Request /\ jToken' = jToken
  BY <1>1
     DEF Joins!EnsureRead, Joins!At, Joins!Idle, JoinTypes, Joins!TypeOK, Joins!OnlyRead,
         Joins!tables
<1>3. CASE Joins!Goto(w, "ensure_issue")
  BY <1>1, <1>2, <1>3, JoinGotoGoes DEF JoinFits, JoinLabels, Joins!Labels
<1>4. CASE /\ jToken[q.event] # 0
           /\ Joins!Step(w, q.back, [q EXCEPT !.token = jToken[q.event]])
  <2>1. PICK r : r = [q EXCEPT !.token = jToken[q.event]]
    OBVIOUS
  <2>2. q.event \in JoinEvents /\ jToken[q.event] \in Nat
    BY <1>2 DEF JoinFits, JoinTypes, Joins!TypeOK
  <2>3. /\ r \in Joins!Request /\ r.event = q.event /\ r.user = q.user /\ r.back = q.back
        /\ r.token = jToken[q.event] /\ q.back \in {"share_answer", "join_compare"}
    BY <1>2, <2>1, <2>2 DEF Joins!Request
  <2>4. JoinFits(q.back, r)
    BY <1>2, <2>3 DEF JoinFits, JoinLabels
  <2> QED
    BY <1>1, <1>2, <1>4, <2>1, <2>3, <2>4 DEF JoinGoes, Joins!Labels
<1> QED BY <1>1, <1>3, <1>4 DEF Joins!EnsureRead

\* A code was issued.
LEMMA IssueGoes ==
  ASSUME JoinTypes, MaxTokens \in Nat, NEW w \in Workers,
         Joins!EnsureIssue(w) \/ Joins!RegenerateWrite(w)
  PROVE  \E l, r : JoinGoes(w, l, r)
<1>1. PICK q : q = jReq[w]
  OBVIOUS
<1>2. /\ jPc[w] # "idle" /\ ~Joins!Idle(w) /\ q \in Joins!Request /\ Joins!NewToken(q.event)
      /\ Joins!Step(w, q.back, [q EXCEPT !.token = jLast'])
  BY <1>1
     DEF Joins!EnsureIssue, Joins!RegenerateWrite, Joins!At, Joins!Idle, JoinTypes, Joins!TypeOK
<1>3. JoinFits(jPc[w], q)
  BY <1>1 DEF JoinTypes
<1>4. PICK r : r = [q EXCEPT !.token = jLast']
  OBVIOUS
<1>5. /\ q.event \in JoinEvents /\ jToken'[q.event] = jLast'
      /\ jLast' \in Nat /\ jLast' # 0
  BY <1>2, <1>3, IssueTypes DEF JoinFits
<1>6. /\ r \in Joins!Request /\ r.event = q.event /\ r.user = q.user /\ r.back = q.back
      /\ r.token = jLast' /\ q.back \in {"share_answer", "join_compare"}
  BY <1>2, <1>4, <1>5 DEF Joins!Request
<1>7. JoinFits(q.back, r)
  BY <1>2, <1>3, <1>6 DEF JoinFits, JoinLabels
<1> QED
  BY <1>1, <1>2, <1>4, <1>5, <1>6, <1>7 DEF JoinGoes, Joins!Labels

\* The codes are compared, and the join is looked for.
LEMMA ComparesGo ==
  ASSUME JoinTypes, NEW w \in Workers, Joins!JoinCompare(w) \/ Joins!JoinLookup(w)
  PROVE  \E l, r : JoinGoes(w, l, r)
<1>1. CASE Joins!Reply(w)
  BY <1>1, JoinReplyGoes
<1>2. CASE ~Joins!Reply(w)
  <2>1. \/ Joins!At(w, "join_compare") /\ jReq[w].scanned = jReq[w].token /\ Joins!Goto(w, "join_lookup")
        \/ Joins!At(w, "join_lookup") /\ Joins!Goto(w, "join_insert")
    BY <1>2 DEF Joins!JoinCompare, Joins!JoinLookup, Joins!Check
  <2>2. JoinFits(jPc[w], jReq[w]) /\ jReq[w] \in Joins!Request
    BY DEF JoinTypes, Joins!TypeOK
  <2>3. JoinFits("join_lookup", jReq[w]) /\ JoinFits("join_insert", jReq[w])
    BY <2>1, <2>2 DEF JoinFits, Joins!At, JoinLabels
  <2> QED
    BY <2>1, <2>2, <2>3, JoinGotoMoves DEF JoinGoes, Joins!Labels, Joins!At
<1> QED BY <1>1, <1>2

LEMMA JoinStepGoes ==
  ASSUME JoinTypes, MaxTokens \in Nat, NEW w \in Workers, JoinStep(w)
  PROVE  \E l, r : JoinGoes(w, l, r)
BY JoinBeginsGo, ChecksGo, ReadGoes, IssueGoes, ComparesGo DEF JoinStep

-----------------------------------------------------------------------------
(* Rows                                                                    *)

JoinRowsOK ==
  /\ jEvents \subseteq JoinEvents /\ jUsers \subseteq People
  /\ jToken \in [JoinEvents -> 0..jLast] /\ jLast \in 0..MaxTokens
  /\ \A e \in jEvents \ OldEvents : jToken[e] # 0
  /\ jJoins \subseteq Joins!JoinRow /\ jRaced \in BOOLEAN

\* The codes stay, or an event gets one that was never used.
CodesStep ==
  \/ UNCHANGED <<jToken, jLast>>
  \/ \E e \in JoinEvents : Joins!NewToken(e)

LEMMA CodesKeepTypes ==
  ASSUME JoinTypes, MaxTokens \in Nat, CodesStep
  PROVE  /\ jToken' \in [JoinEvents -> 0..jLast'] /\ jLast' \in 0..MaxTokens
         /\ jLast <= jLast'
         /\ \A e \in JoinEvents : jToken[e] # 0 => jToken'[e] # 0
         /\ \A e \in JoinEvents : jToken'[e] # jToken[e] => jToken'[e] = jLast' /\ jLast < jLast'
<1>1. jLast \in 0..MaxTokens /\ jToken \in [JoinEvents -> 0..jLast]
  BY DEF JoinTypes, Joins!TypeOK
<1>2. CASE UNCHANGED <<jToken, jLast>>
  BY <1>1, <1>2
<1>3. ASSUME NEW e \in JoinEvents, Joins!NewToken(e)
      PROVE  /\ jToken' \in [JoinEvents -> 0..jLast'] /\ jLast' \in 0..MaxTokens
             /\ jLast <= jLast'
             /\ \A f \in JoinEvents : jToken[f] # 0 => jToken'[f] # 0
             /\ \A f \in JoinEvents : jToken'[f] # jToken[f] => jToken'[f] = jLast' /\ jLast < jLast'
  BY <1>1, <1>3, IssueTypes
<1> QED BY <1>2, <1>3 DEF CodesStep

LEMMA WorkersWriteCodes ==
  ASSUME JoinTypes, NEW w \in Workers, JoinStep(w)
  PROVE  CodesStep
<1>1. CASE Joins!EnsureIssue(w) \/ Joins!RegenerateWrite(w)
  <2>1. jReq[w].event \in JoinEvents /\ Joins!NewToken(jReq[w].event)
    BY <1>1 DEF Joins!EnsureIssue, Joins!RegenerateWrite, Joins!At, JoinTypes, JoinFits
  <2> QED BY <2>1 DEF CodesStep
<1>2. CASE Joins!GetShare(w) \/ Joins!Regenerate(w) \/ Joins!JoinSignedIn(w) \/ Joins!JoinAsGuest(w)
  BY <1>2
     DEF Joins!GetShare, Joins!Regenerate, Joins!JoinSignedIn, Joins!JoinAsGuest, Joins!tables,
         CodesStep
<1>3. CASE \/ Joins!ShareEvent(w) \/ Joins!EnsureRead(w) \/ Joins!ShareAnswer(w) \/ Joins!RegenerateEvent(w)
           \/ Joins!GuestLookup(w) \/ Joins!GuestInsert(w) \/ Joins!JoinEvent(w)
  BY <1>3
     DEF Joins!ShareEvent, Joins!EnsureRead, Joins!ShareAnswer, Joins!RegenerateEvent,
         Joins!GuestLookup, Joins!GuestInsert,
              Joins!JoinEvent, Joins!Check, Joins!OnlyRead, Joins!tables, CodesStep
<1>4. CASE Joins!JoinCompare(w) \/ Joins!JoinLookup(w) \/ Joins!JoinInsert(w) \/ Joins!AbortRequest(w)
  BY <1>4
     DEF Joins!JoinCompare, Joins!JoinLookup, Joins!JoinInsert, Joins!AbortRequest, Joins!Check,
         Joins!OnlyRead, Joins!tables, CodesStep
<1> QED BY <1>1, <1>2, <1>3, <1>4 DEF JoinStep

\* What else requests write: only these begin, register guests and join.
LEMMA WorkersWriteRows ==
  ASSUME JoinTypes, NEW w \in Workers, JoinStep(w)
  PROVE  /\ jEvents' = jEvents /\ jRaced' \in BOOLEAN
         /\ jUsers' \subseteq People /\ jJoins' \subseteq Joins!JoinRow
<1>1. CASE Joins!GetShare(w) \/ Joins!Regenerate(w) \/ Joins!JoinSignedIn(w) \/ Joins!JoinAsGuest(w)
  BY <1>1
     DEF Joins!GetShare, Joins!Regenerate, Joins!JoinSignedIn, Joins!JoinAsGuest, Joins!Begin,
         Joins!tables, JoinTypes, Joins!TypeOK
<1>2. CASE Joins!GuestInsert(w)
  <2>1. jReq[w].user \in People
    BY <1>2 DEF Joins!GuestInsert, Joins!At, JoinTypes, JoinFits, JoinLabels
  <2> QED BY <1>2, <2>1 DEF Joins!GuestInsert, JoinTypes, Joins!TypeOK
<1>3. CASE Joins!JoinInsert(w)
  <2>1. jReq[w].user \in People /\ jReq[w].event \in JoinEvents /\ jReq[w].scanned \in Nat
    BY <1>3
       DEF Joins!JoinInsert, Joins!At, JoinTypes, Joins!TypeOK, Joins!Request, JoinFits, JoinLabels
  <2> QED BY <1>3, <2>1 DEF Joins!JoinInsert, Joins!JoinRow, JoinTypes, Joins!TypeOK
<1>4. CASE Joins!EnsureIssue(w) \/ Joins!RegenerateWrite(w)
  BY <1>4 DEF Joins!EnsureIssue, Joins!RegenerateWrite, JoinTypes, Joins!TypeOK
<1>5. CASE Joins!ShareEvent(w) \/ Joins!EnsureRead(w) \/ Joins!ShareAnswer(w) \/ Joins!RegenerateEvent(w) \/ Joins!GuestLookup(w)
  BY <1>5
     DEF Joins!ShareEvent, Joins!EnsureRead, Joins!ShareAnswer, Joins!RegenerateEvent,
         Joins!GuestLookup, Joins!Check, Joins!OnlyRead,
              Joins!tables, JoinTypes, Joins!TypeOK
<1>6. CASE Joins!JoinEvent(w) \/ Joins!JoinCompare(w) \/ Joins!JoinLookup(w) \/ Joins!AbortRequest(w)
  BY <1>6
     DEF Joins!JoinEvent, Joins!JoinCompare, Joins!JoinLookup, Joins!AbortRequest, Joins!Check,
         Joins!OnlyRead, Joins!tables, JoinTypes, Joins!TypeOK
<1> QED BY <1>1, <1>2, <1>3, <1>4, <1>5, <1>6 DEF JoinStep

LEMMA NextKeepsRows ==
  ASSUME JoinTypes, MaxTokens \in Nat, Joins!CreateEvent \/ \E w \in Workers : JoinStep(w)
  PROVE  JoinRowsOK' /\ CodesStep
<1>1. ASSUME NEW w \in Workers, JoinStep(w) PROVE JoinRowsOK' /\ CodesStep
  <2>1. CodesStep
    BY <1>1, WorkersWriteCodes
  <2>2. \A e \in jEvents' \ OldEvents : jToken'[e] # 0
    BY <1>1, <2>1, WorkersWriteRows, CodesKeepTypes DEF JoinTypes, Joins!TypeOK
  <2> QED BY <1>1, <2>1, <2>2, WorkersWriteRows, CodesKeepTypes
             DEF JoinRowsOK, JoinTypes, Joins!TypeOK
<1>2. ASSUME Joins!CreateEvent PROVE JoinRowsOK' /\ CodesStep
  <2>1. PICK e \in JoinEvents \ jEvents : jEvents' = jEvents \cup {e} /\ Joins!NewToken(e)
    BY <1>2 DEF Joins!CreateEvent
  <2>2. CodesStep
    BY <2>1 DEF CodesStep
  <2>3. jToken'[e] # 0
    BY <2>1, IssueTypes
  <2>4. \A f \in jEvents' \ OldEvents : jToken'[f] # 0
    BY <2>1, <2>2, <2>3, CodesKeepTypes DEF JoinTypes, Joins!TypeOK
  <2> QED BY <1>2, <2>1, <2>2, <2>4, CodesKeepTypes
             DEF JoinRowsOK, Joins!CreateEvent, JoinTypes, Joins!TypeOK
<1> QED BY <1>1, <1>2

-----------------------------------------------------------------------------
(* Types                                                                   *)

\* What Observe records for a request that goes on or begins.
LEMMA JoinObserved ==
  ASSUME Joins!Observe, NEW v \in Workers
  PROVE  /\ jPc'[v] = "idle" => jValid'[v] = {}
         /\ jPc'[v] # "idle" => jValid'[v] = (IF jPc[v] = "idle" THEN {jToken[jReq'[v].event]} ELSE jValid[v])
                                             \cup {jToken'[jReq'[v].event]}
BY DEF Joins!Observe

LEMMA ObservedTypes ==
  ASSUME JoinTypes, MaxTokens \in Nat, CodesStep, Joins!Observe,
         \A v \in Workers : JoinFits(jPc'[v], jReq'[v])
  PROVE  jValid' \in [Workers -> SUBSET (0..jLast')]
<1>1. ASSUME NEW v \in Workers PROVE jValid'[v] \subseteq 0..jLast'
  <2>1. CASE jPc'[v] # "idle"
    <3>1. jReq'[v].event \in JoinEvents
      BY <2>1 DEF JoinFits
    <3>2. /\ jToken[jReq'[v].event] \in 0..jLast /\ jToken'[jReq'[v].event] \in 0..jLast'
          /\ jValid[v] \subseteq 0..jLast
      BY <3>1, CodesKeepTypes DEF JoinTypes, Joins!TypeOK
    <3>3. 0..jLast \subseteq 0..jLast'
      BY CodesKeepTypes DEF JoinTypes, Joins!TypeOK
    <3> QED BY <2>1, <3>2, <3>3, JoinObserved
  <2> QED BY <2>1, JoinObserved
<1> QED BY <1>1 DEF Joins!Observe

LEMMA JoinsKeepTypes ==
  ASSUME JoinTypes, MaxTokens \in Nat, [Joins!Next]_(Joins!vars)
  PROVE  JoinTypes'
<1>1. ASSUME NEW w \in Workers, JoinStep(w), Joins!Observe PROVE JoinTypes'
  <2>1. PICK l, r : JoinGoes(w, l, r)
    BY <1>1, JoinStepGoes
  <2>2. \A v \in Workers : /\ jPc'[v] = IF v = w THEN l ELSE jPc[v]
                           /\ jReq'[v] = IF v = w THEN r ELSE jReq[v]
    BY <2>1, JoinMoves DEF JoinGoes
  <2>3. \A v \in Workers : JoinFits(jPc'[v], jReq'[v])
    BY <2>1, <2>2 DEF JoinGoes, JoinTypes
  <2>4. jPc' \in [Workers -> Joins!Labels] /\ jReq' \in [Workers -> Joins!Request]
    BY <2>1 DEF JoinGoes, Joins!Step, JoinTypes, Joins!TypeOK
  <2>5. JoinRowsOK' /\ CodesStep
    BY <1>1, NextKeepsRows
  <2>6. jValid' \in [Workers -> SUBSET (0..jLast')]
    BY <1>1, <2>3, <2>5, ObservedTypes
  <2>7. \A v \in Workers : JoinFits(jPc[v], jReq[v])'
    BY <2>3 DEF JoinFits
  <2> QED BY <2>4, <2>5, <2>6, <2>7 DEF JoinTypes, Joins!TypeOK, JoinRowsOK
<1>2. ASSUME Joins!CreateEvent, Joins!Observe PROVE JoinTypes'
  <2>1. jPc' = jPc /\ jReq' = jReq
    BY <1>2 DEF Joins!CreateEvent, Joins!workers
  <2>2. \A v \in Workers : JoinFits(jPc'[v], jReq'[v])
    BY <2>1 DEF JoinTypes
  <2>3. JoinRowsOK' /\ CodesStep
    BY <1>2, NextKeepsRows
  <2>4. jValid' \in [Workers -> SUBSET (0..jLast')]
    BY <1>2, <2>2, <2>3, ObservedTypes
  <2>5. \A v \in Workers : JoinFits(jPc[v], jReq[v])'
    BY <2>2 DEF JoinFits
  <2> QED BY <2>1, <2>3, <2>4, <2>5 DEF JoinTypes, Joins!TypeOK, JoinRowsOK
<1>3. CASE UNCHANGED Joins!vars
  BY <1>3 DEF Joins!vars, Joins!tables, Joins!workers, JoinTypes, Joins!TypeOK, JoinFits
<1> QED BY <1>1, <1>2, <1>3 DEF Joins!Next, JoinStep

LEMMA JoinsInitTypes == ASSUME Joins!JoinTokensAssumption, Joins!Init PROVE JoinTypes
<1>1. Joins!NoRequest \in Joins!Request
  BY DEF Joins!NoRequest, Joins!Request
<1>2. jLast \in 0..MaxTokens /\ jToken \in [JoinEvents -> 0..jLast]
  BY DEF Joins!JoinTokensAssumption, Joins!Init
<1>3. jValid \in [Workers -> SUBSET (0..jLast)]
  BY DEF Joins!Init
<1>4. jPc \in [Workers -> Joins!Labels] /\ jReq \in [Workers -> Joins!Request]
  BY <1>1 DEF Joins!Init, Joins!Labels
<1>5. Joins!TypeOK
  BY <1>2, <1>3, <1>4 DEF Joins!JoinTokensAssumption, Joins!Init, Joins!TypeOK
<1> QED BY <1>5 DEF Joins!Init, JoinTypes, JoinFits

\* The types of rows and requests; an event that was created has a code.
LEMMA JoinRowsFit == ASSUME Joins!JoinTokensAssumption PROVE Joins!Spec => []Joins!TypeOK
<1>1. Joins!Init => JoinTypes
  BY JoinsInitTypes
<1>2. JoinTypes /\ [Joins!Next]_(Joins!vars) => JoinTypes'
  BY JoinsKeepTypes DEF Joins!JoinTokensAssumption
<1>3. JoinTypes => Joins!TypeOK
  BY DEF JoinTypes
<1> QED BY <1>1, <1>2, <1>3, PTL DEF Joins!Spec

-----------------------------------------------------------------------------
(* Codes                                                                   *)

LEMMA CodesAreNew ==
  ASSUME JoinTypes, MaxTokens \in Nat, [Joins!Next]_(Joins!vars)
  PROVE  \A e \in JoinEvents : jToken'[e] # jToken[e] => jToken'[e] = jLast' /\ jLast < jLast'
<1>1. CASE Joins!CreateEvent \/ \E w \in Workers : JoinStep(w)
  BY <1>1, NextKeepsRows, CodesKeepTypes
<1>2. CASE UNCHANGED Joins!vars
  BY <1>2 DEF Joins!vars, Joins!tables
<1> QED BY <1>1, <1>2 DEF Joins!Next, JoinStep

\* However requests interleave, a code that was replaced is never again the code of
\* any event.
LEMMA ReplacedCodesAreGone == ASSUME Joins!JoinTokensAssumption PROVE Joins!Spec => Joins!ReplacedForGood
<1>1. Joins!Init => JoinTypes
  BY JoinsInitTypes
<1>2. JoinTypes /\ [Joins!Next]_(Joins!vars) => JoinTypes'
  BY JoinsKeepTypes DEF Joins!JoinTokensAssumption
<1>3. JoinTypes /\ [Joins!Next]_(Joins!vars) =>
        [\A e \in JoinEvents : jToken'[e] # jToken[e] => jToken'[e] = jLast' /\ jLast < jLast']_(Joins!vars)
  BY CodesAreNew DEF Joins!JoinTokensAssumption
<1> QED BY <1>1, <1>2, <1>3, PTL DEF Joins!Spec, Joins!ReplacedForGood

\* A request that stays where it is, or moves, has met the code that it compares.
LEMMA NextKeepsCodesKnown ==
  ASSUME KnownInv, MaxTokens \in Nat, [Joins!Next]_(Joins!vars)
  PROVE  CodesKnown'
<1>1. ASSUME Joins!Observe, NEW v \in Workers, jPc'[v] # "idle", jPc'[v] = jPc[v],
             jReq'[v] = jReq[v]
      PROVE  /\ jToken'[jReq'[v].event] \in jValid'[v]
             /\ jPc'[v] = "join_compare" => jReq'[v].token \in jValid'[v] \ {0}
             /\ jPc'[v] \in {"join_lookup", "join_insert"} => jReq'[v].scanned \in jValid'[v] \ {0}
  BY <1>1, JoinObserved DEF KnownInv, CodesKnown
<1>2. ASSUME NEW w \in Workers, JoinStep(w), Joins!Observe PROVE CodesKnown'
  <2>1. PICK l, r : JoinGoes(w, l, r)
    BY <1>2, JoinStepGoes DEF KnownInv
  <2>2. \A v \in Workers : /\ jPc'[v] = IF v = w THEN l ELSE jPc[v]
                           /\ jReq'[v] = IF v = w THEN r ELSE jReq[v]
    BY <2>1, JoinMoves DEF JoinGoes, KnownInv
  <2>3. ASSUME l # "idle"
        PROVE  /\ jToken'[r.event] \in jValid'[w]
               /\ l = "join_compare" => r.token \in jValid'[w] \ {0}
               /\ l \in {"join_lookup", "join_insert"} => r.scanned \in jValid'[w] \ {0}
    <3>1. jValid'[w] = (IF jPc[w] = "idle" THEN {jToken[r.event]} ELSE jValid[w]) \cup {jToken'[r.event]}
      BY <1>2, <2>2, <2>3, JoinObserved
    <3>2. l = "join_compare" => r.token = jToken'[r.event] /\ jToken'[r.event] # 0
      BY <2>1 DEF JoinGoes
    <3>3. l \in {"join_lookup", "join_insert"} => jPc[w] # "idle" /\ r.scanned \in jValid[w] \ {0}
      BY <2>1 DEF JoinGoes, Joins!At, KnownInv, CodesKnown
    <3> QED BY <3>1, <3>2, <3>3
  <2> QED BY <1>1, <1>2, <2>2, <2>3 DEF CodesKnown
<1>3. CASE Joins!CreateEvent /\ Joins!Observe
  BY <1>1, <1>3 DEF Joins!CreateEvent, Joins!workers, CodesKnown
<1>4. CASE UNCHANGED Joins!vars
  BY <1>4 DEF Joins!vars, Joins!tables, Joins!workers, KnownInv, CodesKnown
<1> QED BY <1>2, <1>3, <1>4 DEF Joins!Next, JoinStep

LEMMA JoinsAreWithCode ==
  ASSUME KnownInv, [Joins!Next]_(Joins!vars)
  PROVE  \A j \in jJoins' \ jJoins : \E w \in Workers :
           jReq[w].event = j.event /\ jReq[w].user = j.user /\ j.token \in jValid[w] \ {0}
<1>1. ASSUME NEW w \in Workers, Joins!JoinInsert(w), NEW j \in jJoins' \ jJoins
      PROVE  jReq[w].event = j.event /\ jReq[w].user = j.user /\ j.token \in jValid[w] \ {0}
  <2>1. j = [event |-> jReq[w].event, user |-> jReq[w].user, token |-> jReq[w].scanned]
    BY <1>1 DEF Joins!JoinInsert
  <2>2. jReq[w].scanned \in jValid[w] \ {0}
    BY <1>1 DEF Joins!JoinInsert, Joins!At, KnownInv, CodesKnown
  <2> QED BY <2>1, <2>2
<1>2. ASSUME NEW w \in Workers, JoinStep(w), ~Joins!JoinInsert(w) PROVE jJoins' = jJoins
  <2>1. CASE \/ Joins!GetShare(w) \/ Joins!Regenerate(w) \/ Joins!JoinSignedIn(w) \/ Joins!JoinAsGuest(w)
             \/ Joins!GuestInsert(w) \/ Joins!EnsureIssue(w) \/ Joins!RegenerateWrite(w)
    BY <2>1
       DEF Joins!GetShare, Joins!Regenerate, Joins!JoinSignedIn, Joins!JoinAsGuest,
           Joins!GuestInsert, Joins!EnsureIssue,
                Joins!RegenerateWrite, Joins!tables
  <2>2. CASE \/ Joins!ShareEvent(w) \/ Joins!EnsureRead(w) \/ Joins!ShareAnswer(w) \/ Joins!RegenerateEvent(w)
             \/ Joins!GuestLookup(w) \/ Joins!JoinEvent(w) \/ Joins!JoinCompare(w) \/ Joins!JoinLookup(w) \/ Joins!AbortRequest(w)
    BY <2>2
       DEF Joins!ShareEvent, Joins!EnsureRead, Joins!ShareAnswer, Joins!RegenerateEvent,
           Joins!GuestLookup, Joins!JoinEvent,
                Joins!JoinCompare, Joins!JoinLookup, Joins!AbortRequest, Joins!Check,
                Joins!OnlyRead, Joins!tables
  <2> QED BY <1>2, <2>1, <2>2 DEF JoinStep
<1>3. CASE Joins!CreateEvent \/ UNCHANGED Joins!vars
  BY <1>3 DEF Joins!CreateEvent, Joins!vars, Joins!tables
<1> QED BY <1>1, <1>2, <1>3 DEF Joins!Next, JoinStep

\* However requests interleave, nobody joins with a code that the event did not have
\* since the request began.
LEMMA JoinsHaveACode == ASSUME Joins!JoinTokensAssumption PROVE Joins!Spec => Joins!JoinedWithCode
<1>1. Joins!Init => KnownInv
  BY JoinsInitTypes DEF Joins!Init, KnownInv, CodesKnown
<1>2. KnownInv /\ [Joins!Next]_(Joins!vars) => KnownInv'
  BY JoinsKeepTypes, NextKeepsCodesKnown DEF KnownInv, Joins!JoinTokensAssumption
<1>3. KnownInv /\ [Joins!Next]_(Joins!vars) =>
        [\A j \in jJoins' \ jJoins : \E w \in Workers :
           jReq[w].event = j.event /\ jReq[w].user = j.user /\ j.token \in jValid[w] \ {0}]_(Joins!vars)
  BY JoinsAreWithCode
<1> QED BY <1>1, <1>2, <1>3, PTL DEF Joins!Spec, Joins!JoinedWithCode

-----------------------------------------------------------------------------
(* Requests that run one at a time                                         *)

\* A request that begins while another is in flight races, and so does the creation
\* of an event.
LEMMA Racing ==
  ASSUME JoinTypes, NEW w \in Workers, JoinStep(w)
  PROVE  /\ jRaced => jRaced'
         /\ Joins!Idle(w) => (jRaced' <=> jRaced \/ \E v \in Workers : ~Joins!Idle(v))
<1>1. CASE Joins!GetShare(w) \/ Joins!Regenerate(w) \/ Joins!JoinSignedIn(w) \/ Joins!JoinAsGuest(w)
  BY <1>1 DEF Joins!GetShare, Joins!Regenerate, Joins!JoinSignedIn, Joins!JoinAsGuest, Joins!Begin
<1>2. CASE \/ Joins!ShareEvent(w) \/ Joins!EnsureRead(w) \/ Joins!ShareAnswer(w) \/ Joins!RegenerateEvent(w)
           \/ Joins!GuestLookup(w) \/ Joins!GuestInsert(w) \/ Joins!EnsureIssue(w) \/ Joins!RegenerateWrite(w)
  BY <1>2
     DEF Joins!ShareEvent, Joins!EnsureRead, Joins!ShareAnswer, Joins!RegenerateEvent,
         Joins!GuestLookup, Joins!GuestInsert,
              Joins!EnsureIssue, Joins!RegenerateWrite, Joins!Check, Joins!OnlyRead, Joins!At,
              Joins!Idle
<1>3. CASE Joins!JoinEvent(w) \/ Joins!JoinCompare(w) \/ Joins!JoinLookup(w) \/ Joins!JoinInsert(w) \/ Joins!AbortRequest(w)
  BY <1>3
     DEF Joins!JoinEvent, Joins!JoinCompare, Joins!JoinLookup, Joins!JoinInsert, Joins!AbortRequest,
         Joins!Check, Joins!OnlyRead, Joins!At, Joins!Idle
<1> QED BY <1>1, <1>2, <1>3 DEF JoinStep

LEMMA SharedStaysFresh ==
  ASSUME SharedInv, MaxTokens \in Nat, [Joins!Next]_(Joins!vars)
  PROVE  JoinsAlone' /\ Joins!SharedIsAccepted'
<1>1. ASSUME NEW w \in Workers, JoinStep(w) PROVE JoinsAlone' /\ Joins!SharedIsAccepted'
  <2>1. PICK l, r : JoinGoes(w, l, r)
    BY <1>1, JoinStepGoes DEF SharedInv
  <2>2. \A v \in Workers : /\ jPc'[v] = IF v = w THEN l ELSE jPc[v]
                           /\ jReq'[v] = IF v = w THEN r ELSE jReq[v]
    BY <2>1, JoinMoves DEF JoinGoes, SharedInv
  <2>3. ~jRaced' => \A v \in Workers : v # w => Joins!Idle(v)
    BY <1>1, Racing DEF SharedInv, JoinsAlone
  <2>4. JoinsAlone'
    BY <2>2, <2>3 DEF JoinsAlone, Joins!Idle
  <2>5. Joins!SharedIsAccepted'
    BY <2>1, <2>2, <2>3 DEF Joins!SharedIsAccepted, JoinGoes, Joins!Idle
  <2> QED BY <2>4, <2>5
<1>2. CASE Joins!CreateEvent
  BY <1>2
     DEF Joins!CreateEvent, Joins!workers, Joins!Idle, SharedInv, JoinsAlone,
         Joins!SharedIsAccepted
<1>3. CASE UNCHANGED Joins!vars
  BY <1>3
     DEF Joins!vars, Joins!tables, Joins!workers, SharedInv, JoinsAlone, Joins!SharedIsAccepted,
         Joins!Idle
<1> QED BY <1>1, <1>2, <1>3 DEF Joins!Next, JoinStep

\* As long as requests run one at a time, the code that an organizer is shown is the
\* one that lets attendees in.
LEMMA SharedCodesAreAccepted == ASSUME Joins!JoinTokensAssumption PROVE Joins!Spec => []Joins!SharedIsAccepted
<1>1. Joins!Init => SharedInv
  BY JoinsInitTypes DEF Joins!Init, SharedInv, JoinsAlone, Joins!Idle, Joins!SharedIsAccepted
<1>2. SharedInv /\ [Joins!Next]_(Joins!vars) => SharedInv'
  BY JoinsKeepTypes, SharedStaysFresh DEF SharedInv, Joins!JoinTokensAssumption
<1>3. SharedInv => Joins!SharedIsAccepted
  BY DEF SharedInv
<1> QED BY <1>1, <1>2, <1>3, PTL DEF Joins!Spec

-----------------------------------------------------------------------------
(***************************************************************************)
(* Consent forms, for any number of requests, events, attendees and forms: *)
(* what is stored answers a form that the event had, and what is confirmed *)
(* is counted.                                                             *)
(***************************************************************************)

ValueSets == UNION {[K -> Forms!Values] : K \in SUBSET Forms!Keys}

FormRequest == [event : Events \cup {Nil}, user : FormUsers \cup {Nil}, form : SUBSET Forms!Entry, values : ValueSets,
            fields : SUBSET Forms!Fields, todo : SUBSET Forms!Fields, key : Forms!Keys \cup {Nil}, count : Nat]

Submitting == {"consent_template", "consent_lookup", "consent_insert", "consent_save"}
Counting == {"count", "count_insert", "count_save"}
Saving == {"template_lookup", "template_insert", "template_save", "saved", "refused"} \cup Counting

\* What a request r carries at the statement l.
Carries(l, r) ==
  /\ l # "idle" => r.event \in Events
  /\ l \in Submitting => r.user \in FormUsers /\ r.form \in SentForms
  /\ l \in Submitting \ {"consent_template"} => r.values \in Forms!Snapshots(r.form)
  /\ l \in Saving => r.fields \in FormTemplates
  /\ l \in Counting => r.todo \subseteq {f \in r.fields : f.custom}
  /\ l \in {"count_insert", "count_save"} => \E f \in r.todo : f.key = r.key

RowsOK ==
  /\ fTemplate \in [Events -> FormTemplates \cup {{}}]
  /\ fConsents \subseteq Forms!ConsentRow
  /\ \A c, d \in fConsents : c.event = d.event /\ c.user = d.user => c = d
  /\ fWritten \in [Forms!Keys -> 0..MaxSaves]
  /\ fUses \in [Forms!Keys -> Nat] /\ fConfirmed \in [Forms!Keys -> Nat]
  /\ fRaced \in BOOLEAN

RequestsOK ==
  /\ fPc \in [Workers -> Forms!Labels] /\ fReq \in [Workers -> FormRequest]
  /\ \A w \in Workers : Carries(fPc[w], fReq[w])

FormTypes == RowsOK /\ RequestsOK

WorkerStep(w) ==
  \/ Forms!SubmitConsent(w) \/ Forms!ConsentTemplate(w) \/ Forms!ConsentLookup(w) \/ Forms!ConsentInsert(w) \/ Forms!ConsentSave(w)
  \/ Forms!PutTemplate(w) \/ Forms!TemplateLookup(w) \/ Forms!TemplateInsert(w) \/ Forms!TemplateSave(w)
  \/ Forms!CountRead(w) \/ Forms!CountInsert(w) \/ Forms!CountSave(w) \/ Forms!Saved(w) \/ Forms!Refused(w)
  \/ Forms!AbortRequest(w)

-----------------------------------------------------------------------------
(* Types                                                                   *)

\* Where a statement takes its request: it keeps its parameters, and counts what it has
\* to count, each field once.
Goes(w, l, r) ==
  /\ Forms!Step(w, l, r)
  /\ l \in Forms!Labels /\ r \in FormRequest /\ Carries(l, r)
  /\ ~Forms!Idle(w) /\ l # "idle" =>
       /\ r.event = fReq[w].event /\ r.user = fReq[w].user /\ r.form = fReq[w].form
       /\ r.fields = fReq[w].fields

LEMMA Moves ==
  ASSUME FormTypes, NEW w \in Workers, NEW l, NEW r, Forms!Step(w, l, r)
  PROVE  \A v \in Workers : /\ fPc'[v] = IF v = w THEN l ELSE fPc[v]
                            /\ fReq'[v] = IF v = w THEN r ELSE fReq[v]
BY DEF FormTypes, RequestsOK, Forms!Step

LEMMA GotoMoves ==
  ASSUME FormTypes, NEW w \in Workers, NEW l, Forms!Goto(w, l)
  PROVE  Forms!Step(w, l, fReq[w])
BY DEF FormTypes, RequestsOK, Forms!Goto, Forms!Step

LEMMA NoFormRequest == Forms!NoRequest \in FormRequest
<1>1. Forms!NoValues \in [{} -> Forms!Values]
  BY DEF Forms!NoValues
<1>2. Forms!NoValues \in ValueSets
  BY <1>1 DEF ValueSets
<1> QED BY <1>2 DEF Forms!NoRequest, FormRequest

LEMMA ReplyGoes ==
  ASSUME NEW w \in Workers, Forms!Reply(w)
  PROVE  Goes(w, "idle", Forms!NoRequest)
BY NoFormRequest DEF Forms!Reply, Goes, Carries, Forms!Labels, Submitting, Saving, Counting

LEMMA GotoGoes ==
  ASSUME FormTypes, NEW w \in Workers, NEW l \in Forms!Labels, Forms!Goto(w, l), ~Forms!Idle(w),
         Carries(l, fReq[w])
  PROVE  Goes(w, l, fReq[w])
BY GotoMoves DEF Goes, FormTypes, RequestsOK

\* A snapshot has values for keys.
LEMMA SnapshotTypes ==
  ASSUME NEW F \in SUBSET Forms!Entry, NEW v \in Forms!Snapshots(F)
  PROVE  v \in ValueSets /\ DOMAIN v = {x.key : x \in F}
<1>1. {x.key : x \in F} \in SUBSET Forms!Keys
  BY DEF Forms!Entry
<1>2. v \in [{x.key : x \in F} -> Forms!Values]
  BY DEF Forms!Snapshots
<1> QED BY <1>1, <1>2 DEF ValueSets

LEMMA BeginsGo ==
  ASSUME FormTypes, Forms!ConsentFormsAssumption, NEW w \in Workers,
         Forms!SubmitConsent(w) \/ Forms!PutTemplate(w)
  PROVE  \E l, r : Goes(w, l, r)
<1>1. CASE Forms!SubmitConsent(w)
  <2>1. PICK e \in Events, u \in FormUsers, F \in SentForms :
          Forms!Begin(w, "consent_template", [Forms!NoRequest EXCEPT !.event = e, !.user = u, !.form = F])
    BY <1>1 DEF Forms!SubmitConsent
  <2>2. PICK r : r = [Forms!NoRequest EXCEPT !.event = e, !.user = u, !.form = F]
    OBVIOUS
  <2>3. r \in FormRequest /\ r.event = e /\ r.user = u /\ r.form = F
    BY <2>2, NoFormRequest DEF Forms!NoRequest, FormRequest, Forms!ConsentFormsAssumption
  <2>4. Carries("consent_template", r)
    BY <2>3 DEF Carries, Submitting, Saving, Counting
  <2> QED BY <2>1, <2>2, <2>3, <2>4 DEF Forms!Begin, Forms!Start, Goes, Forms!Labels
<1>2. CASE Forms!PutTemplate(w)
  <2>1. PICK e \in Events, T \in FormTemplates :
          Forms!Begin(w, "template_lookup", [Forms!NoRequest EXCEPT !.event = e, !.fields = T])
    BY <1>2 DEF Forms!PutTemplate
  <2>2. PICK r : r = [Forms!NoRequest EXCEPT !.event = e, !.fields = T]
    OBVIOUS
  <2>3. r \in FormRequest /\ r.event = e /\ r.fields = T
    BY <2>2, NoFormRequest DEF Forms!NoRequest, FormRequest, Forms!Fields
  <2>4. Carries("template_lookup", r)
    BY <2>3 DEF Carries, Submitting, Saving, Counting
  <2> QED BY <2>1, <2>2, <2>3, <2>4 DEF Forms!Begin, Forms!Start, Goes, Forms!Labels
<1> QED BY <1>1, <1>2

LEMMA SubmissionsGo ==
  ASSUME FormTypes, NEW w \in Workers,
         Forms!ConsentTemplate(w) \/ Forms!ConsentLookup(w) \/ Forms!ConsentInsert(w) \/ Forms!ConsentSave(w)
  PROVE  \E l, r : Goes(w, l, r)
<1>1. fReq[w] \in FormRequest /\ Carries(fPc[w], fReq[w])
  BY DEF FormTypes, RequestsOK
<1>2. CASE Forms!Reply(w)
  BY <1>2, ReplyGoes
<1>3. CASE Forms!ConsentTemplate(w) /\ ~Forms!Reply(w)
  <2>1. PICK v \in Forms!Snapshots(fReq[w].form) : Forms!Step(w, "consent_lookup", [fReq[w] EXCEPT !.values = v])
    BY <1>3 DEF Forms!ConsentTemplate
  <2>2. PICK r : r = [fReq[w] EXCEPT !.values = v]
    OBVIOUS
  <2>3. v \in ValueSets
    BY <1>1, SnapshotTypes DEF FormRequest
  <2>4. /\ r \in FormRequest /\ r.event = fReq[w].event /\ r.user = fReq[w].user
        /\ r.form = fReq[w].form /\ r.fields = fReq[w].fields /\ r.values = v
    BY <1>1, <2>2, <2>3 DEF FormRequest
  <2>5. Carries("consent_lookup", r)
    BY <1>1, <1>3, <2>4 DEF Forms!ConsentTemplate, Forms!At, Carries, Submitting, Saving, Counting
  <2> QED BY <2>1, <2>2, <2>4, <2>5 DEF Goes, Forms!Labels
<1>4. CASE Forms!ConsentLookup(w)
  <2>1. PICK l \in {"consent_save", "consent_insert"} : Forms!Goto(w, l)
    BY <1>4 DEF Forms!ConsentLookup
  <2>2. Carries(l, fReq[w]) /\ ~Forms!Idle(w) /\ l \in Forms!Labels
    BY <1>1, <1>4, <2>1
       DEF Forms!ConsentLookup, Forms!At, Forms!Idle, Forms!Labels, Carries, Submitting, Saving,
           Counting
  <2> QED BY <2>1, <2>2, GotoGoes
<1> QED BY <1>2, <1>3, <1>4 DEF Forms!ConsentInsert, Forms!ConsentSave

\* Writing a form sets out to count its custom fields.
LEMMA WrittenGoes ==
  ASSUME FormTypes, NEW w \in Workers, fPc[w] \in {"template_insert", "template_save"},
         Forms!TemplateWritten(w)
  PROVE  \E r : /\ Goes(w, "count", r)
                /\ r.fields = fReq[w].fields /\ r.todo = {f \in fReq[w].fields : f.custom}
<1>1. fReq[w] \in FormRequest /\ Carries(fPc[w], fReq[w])
  BY DEF FormTypes, RequestsOK
<1>2. PICK r : r = [fReq[w] EXCEPT !.todo = {f \in fReq[w].fields : f.custom}]
  OBVIOUS
<1>3. /\ r \in FormRequest /\ r.event = fReq[w].event /\ r.user = fReq[w].user
      /\ r.form = fReq[w].form /\ r.fields = fReq[w].fields
      /\ r.todo = {f \in fReq[w].fields : f.custom}
  BY <1>1, <1>2 DEF FormRequest
<1>4. Carries("count", r)
  BY <1>1, <1>3 DEF Carries, Submitting, Saving, Counting
<1> QED BY <1>2, <1>3, <1>4 DEF Forms!TemplateWritten, Goes, Forms!Labels, Forms!Idle

\* A field that was counted is done with, and no other.
LEMMA CountNextGoes ==
  ASSUME FormTypes, Forms!ConsentFormsAssumption, NEW w \in Workers,
         fPc[w] \in {"count_insert", "count_save"},
         Forms!CountNext(w)
  PROVE  \E r : /\ Goes(w, "count", r)
                /\ r.fields = fReq[w].fields
                /\ {f.key : f \in r.todo} = {f.key : f \in fReq[w].todo} \ {fReq[w].key}
<1>1. fReq[w] \in FormRequest /\ Carries(fPc[w], fReq[w])
  BY DEF FormTypes, RequestsOK
<1>2. PICK r : r = [fReq[w] EXCEPT !.todo = @ \ {Forms!Reading(w)}, !.key = Nil, !.count = 0]
  OBVIOUS
<1>3. /\ r \in FormRequest /\ r.event = fReq[w].event /\ r.user = fReq[w].user
      /\ r.form = fReq[w].form /\ r.fields = fReq[w].fields
      /\ r.todo = fReq[w].todo \ {Forms!Reading(w)}
  BY <1>1, <1>2 DEF FormRequest
<1>4. Forms!Reading(w) \in fReq[w].todo /\ Forms!Reading(w).key = fReq[w].key
  BY <1>1 DEF Forms!Reading, Carries
<1>5. \A f \in fReq[w].todo : f.key = fReq[w].key => f = Forms!Reading(w)
  BY <1>1, <1>4 DEF Carries, Saving, Counting, Forms!ConsentFormsAssumption
<1>6. Carries("count", r)
  BY <1>1, <1>3 DEF Carries, Submitting, Saving, Counting
<1>7. {f.key : f \in r.todo} = {f.key : f \in fReq[w].todo} \ {fReq[w].key}
  BY <1>3, <1>4, <1>5
<1> QED BY <1>2, <1>3, <1>6, <1>7 DEF Forms!CountNext, Goes, Forms!Labels, Forms!Idle

LEMMA SavingsGo ==
  ASSUME FormTypes, Forms!ConsentFormsAssumption, NEW w \in Workers,
         \/ Forms!TemplateLookup(w) \/ Forms!TemplateInsert(w) \/ Forms!TemplateSave(w)
         \/ Forms!CountRead(w) \/ Forms!CountInsert(w) \/ Forms!CountSave(w) \/ Forms!Saved(w) \/ Forms!Refused(w)
         \/ Forms!AbortRequest(w)
  PROVE  \E l, r : Goes(w, l, r)
<1>1. fReq[w] \in FormRequest /\ Carries(fPc[w], fReq[w])
  BY DEF FormTypes, RequestsOK
<1>2. CASE Forms!Reply(w)
  BY <1>2, ReplyGoes
<1>3. CASE Forms!TemplateLookup(w)
  <2>1. PICK l \in {"template_insert", "template_save"} : Forms!Goto(w, l)
    BY <1>3 DEF Forms!TemplateLookup
  <2>2. Carries(l, fReq[w]) /\ ~Forms!Idle(w) /\ l \in Forms!Labels
    BY <1>1, <1>3, <2>1
       DEF Forms!TemplateLookup, Forms!At, Forms!Idle, Forms!Labels, Carries, Submitting, Saving,
           Counting
  <2> QED BY <2>1, <2>2, GotoGoes
<1>4. CASE (Forms!TemplateInsert(w) \/ Forms!TemplateSave(w)) /\ ~Forms!Reply(w)
  BY <1>4, WrittenGoes DEF Forms!TemplateInsert, Forms!TemplateSave, Forms!At
<1>5. CASE Forms!CountRead(w)
  <2>1. CASE Forms!Goto(w, "saved")
    <3>1. Carries("saved", fReq[w]) /\ ~Forms!Idle(w)
      BY <1>1, <1>5 DEF Forms!CountRead, Forms!At, Forms!Idle, Carries, Submitting, Saving, Counting
    <3> QED BY <2>1, <3>1, GotoGoes DEF Forms!Labels
  <2>2. CASE \E f \in fReq[w].todo :
               Forms!Step(w, IF fUses[f.key] = 0 THEN "count_insert" ELSE "count_save",
                    [fReq[w] EXCEPT !.key = f.key, !.count = fUses[f.key]])
    <3>1. PICK f \in fReq[w].todo, l \in {"count_insert", "count_save"} :
            Forms!Step(w, l, [fReq[w] EXCEPT !.key = f.key, !.count = fUses[f.key]])
      BY <2>2
    <3>2. f.key \in Forms!Keys /\ fUses[f.key] \in Nat
      BY <1>1, <3>1 DEF FormRequest, Forms!Keys, FormTypes, RowsOK
    <3>3. PICK r : r = [fReq[w] EXCEPT !.key = f.key, !.count = fUses[f.key]]
      OBVIOUS
    <3>4. /\ r \in FormRequest /\ r.event = fReq[w].event /\ r.user = fReq[w].user
          /\ r.form = fReq[w].form /\ r.fields = fReq[w].fields
          /\ r.todo = fReq[w].todo /\ r.key = f.key
      BY <1>1, <3>2, <3>3 DEF FormRequest
    <3>5. Carries(l, r)
      BY <1>1, <1>5, <3>4 DEF Forms!CountRead, Forms!At, Carries, Submitting, Saving, Counting
    <3> QED BY <3>1, <3>3, <3>4, <3>5 DEF Goes, Forms!Labels
  <2> QED BY <1>5, <2>1, <2>2 DEF Forms!CountRead
<1>6. CASE (Forms!CountInsert(w) \/ Forms!CountSave(w)) /\ Forms!CountNext(w)
  BY <1>6, CountNextGoes DEF Forms!CountInsert, Forms!CountSave, Forms!At
<1>7. CASE Forms!CountInsert(w) /\ Forms!Goto(w, "refused")
  <2>1. Carries("refused", fReq[w]) /\ ~Forms!Idle(w)
    BY <1>1, <1>7 DEF Forms!CountInsert, Forms!At, Forms!Idle, Carries, Submitting, Saving, Counting
  <2> QED BY <1>7, <2>1, GotoGoes DEF Forms!Labels
<1> QED BY <1>2, <1>3, <1>4, <1>5, <1>6, <1>7
           DEF Forms!CountInsert, Forms!CountSave, Forms!Saved, Forms!Refused, Forms!AbortRequest

LEMMA StepGoes ==
  ASSUME FormTypes, Forms!ConsentFormsAssumption, NEW w \in Workers, WorkerStep(w)
  PROVE  \E l, r : Goes(w, l, r)
BY BeginsGo, SubmissionsGo, SavingsGo DEF WorkerStep

LEMMA RequestsStayOK ==
  ASSUME FormTypes, Forms!ConsentFormsAssumption, NEW w \in Workers, WorkerStep(w)
  PROVE  RequestsOK'
<1>1. PICK l, r : Goes(w, l, r)
  BY StepGoes
<1>2. \A v \in Workers : /\ fPc'[v] = IF v = w THEN l ELSE fPc[v]
                         /\ fReq'[v] = IF v = w THEN r ELSE fReq[v]
  BY <1>1, Moves DEF Goes
<1>3. \A v \in Workers : Carries(fPc'[v], fReq'[v])
  BY <1>1, <1>2 DEF FormTypes, RequestsOK, Goes
<1>4. fPc' \in [Workers -> Forms!Labels] /\ fReq' \in [Workers -> FormRequest]
  BY <1>1 DEF FormTypes, RequestsOK, Goes, Forms!Step
<1>5. \A v \in Workers : Carries(fPc[v], fReq[v])'
  BY <1>3 DEF Carries, Submitting, Saving, Counting, Forms!Snapshots
<1> QED BY <1>4, <1>5 DEF RequestsOK

\* What is to be stored is a row.
LEMMA ConsentType ==
  ASSUME FormTypes, Forms!ConsentFormsAssumption, NEW w \in Workers,
         fPc[w] \in {"consent_insert", "consent_save"}
  PROVE  Forms!Consent(w) \in Forms!ConsentRow
<1>1. Carries(fPc[w], fReq[w])
  BY DEF FormTypes, RequestsOK
<1>2. fReq[w].event \in Events /\ fReq[w].user \in FormUsers /\ fReq[w].values \in ValueSets
  BY <1>1, SnapshotTypes DEF Carries, Submitting, Forms!ConsentFormsAssumption
<1> QED BY <1>2 DEF Forms!Consent, Forms!ConsentRow, ValueSets

LEMMA CountedType ==
  ASSUME NEW count \in [Forms!Keys -> Nat], NEW keys
  PROVE  /\ Forms!Counted(count, keys) \in [Forms!Keys -> Nat]
         /\ \A k \in Forms!Keys : Forms!Counted(count, keys)[k] = IF k \in keys THEN count[k] + 1 ELSE count[k]
BY DEF Forms!Counted

LEMMA RowsStayOK ==
  ASSUME FormTypes, Forms!ConsentFormsAssumption, NEW w \in Workers, WorkerStep(w)
  PROVE  RowsOK'
<1>1. fReq[w] \in FormRequest /\ Carries(fPc[w], fReq[w])
  BY DEF FormTypes, RequestsOK
<1>2. MaxSaves \in Nat
  BY DEF Forms!ConsentFormsAssumption
<1>3. CASE UNCHANGED <<Forms!tables, Forms!counts>> /\ fRaced' \in BOOLEAN
  BY <1>3 DEF FormTypes, RowsOK, Forms!tables, Forms!counts
<1>4. CASE Forms!ConsentInsert(w)
  <2>1. Forms!Consent(w) \in Forms!ConsentRow
    BY <1>4, ConsentType DEF Forms!ConsentInsert, Forms!At
  <2>2. /\ fConsents' = IF Forms!HasConsented(w) THEN fConsents ELSE fConsents \cup {Forms!Consent(w)}
        /\ UNCHANGED <<fTemplate, fUses, Forms!counts, fRaced>>
    BY <1>4 DEF Forms!ConsentInsert
  <2>3. fConsents' \subseteq Forms!ConsentRow
    BY <2>1, <2>2 DEF FormTypes, RowsOK
  <2>4. \A c, d \in fConsents' : c.event = d.event /\ c.user = d.user => c = d
    BY <2>2 DEF FormTypes, RowsOK, Forms!HasConsented, Forms!Consent
  <2> QED BY <2>2, <2>3, <2>4 DEF FormTypes, RowsOK, Forms!counts
<1>5. CASE Forms!ConsentSave(w)
  <2>1. Forms!Consent(w) \in Forms!ConsentRow
    BY <1>5, ConsentType DEF Forms!ConsentSave, Forms!At
  <2>2. /\ fConsents' = {IF c.event = fReq[w].event /\ c.user = fReq[w].user THEN Forms!Consent(w) ELSE c
                          : c \in fConsents}
        /\ UNCHANGED <<fTemplate, fUses, Forms!counts, fRaced>>
    BY <1>5 DEF Forms!ConsentSave
  <2>3. fConsents' \subseteq Forms!ConsentRow
    BY <2>1, <2>2 DEF FormTypes, RowsOK
  <2>4. \A c \in fConsents' :
          \/ c = Forms!Consent(w)
          \/ c \in fConsents /\ ~(c.event = fReq[w].event /\ c.user = fReq[w].user)
    BY <2>2
  <2>5. Forms!Consent(w).event = fReq[w].event /\ Forms!Consent(w).user = fReq[w].user
    BY DEF Forms!Consent
  <2>6. \A c, d \in fConsents' : c.event = d.event /\ c.user = d.user => c = d
    BY <2>4, <2>5 DEF FormTypes, RowsOK
  <2> QED BY <2>2, <2>3, <2>6 DEF FormTypes, RowsOK, Forms!counts
<1>6. CASE (Forms!TemplateInsert(w) \/ Forms!TemplateSave(w)) /\ Forms!TemplateWritten(w)
  <2>1. fReq[w].fields \in FormTemplates
    BY <1>1, <1>6 DEF Forms!TemplateInsert, Forms!TemplateSave, Forms!At, Carries, Saving
  <2>2. /\ \A k \in Forms!CustomKeys(fReq[w].fields) : fWritten[k] < MaxSaves
        /\ fTemplate' = [fTemplate EXCEPT ![fReq[w].event] = fReq[w].fields]
        /\ fWritten' = Forms!Counted(fWritten, Forms!CustomKeys(fReq[w].fields))
        /\ UNCHANGED <<fConsents, fUses, fConfirmed, fRaced>>
    BY <1>6 DEF Forms!TemplateWritten
  <2>3. fTemplate' \in [Events -> FormTemplates \cup {{}}]
    BY <2>1, <2>2 DEF FormTypes, RowsOK
  <2>4. fWritten \in [Forms!Keys -> Nat] /\ \A k \in Forms!Keys : fWritten[k] \in 0..MaxSaves
    BY <1>2 DEF FormTypes, RowsOK
  <2>5. /\ fWritten' \in [Forms!Keys -> Nat]
        /\ \A k \in Forms!Keys : fWritten'[k] = IF k \in Forms!CustomKeys(fReq[w].fields) THEN fWritten[k] + 1
                                         ELSE fWritten[k]
    BY <2>2, <2>4, CountedType
  <2>6. \A k \in Forms!Keys : fWritten'[k] \in 0..MaxSaves
    BY <1>2, <2>2, <2>4, <2>5
  <2>7. fWritten' \in [Forms!Keys -> 0..MaxSaves]
    BY <2>5, <2>6
  <2> QED BY <2>2, <2>3, <2>7 DEF FormTypes, RowsOK
<1>7. CASE Forms!CountInsert(w) \/ Forms!CountSave(w)
  <2>1. /\ UNCHANGED <<fTemplate, fConsents, Forms!counts, fRaced>>
        /\ \/ fUses' = [fUses EXCEPT ![fReq[w].key] = 1]
           \/ fUses' = [fUses EXCEPT ![fReq[w].key] = fReq[w].count + 1]
           \/ fUses' = fUses
    BY <1>7 DEF Forms!CountInsert, Forms!CountSave
  <2>2. fUses' \in [Forms!Keys -> Nat]
    BY <1>1, <2>1 DEF FormTypes, RowsOK, FormRequest
  <2> QED BY <2>1, <2>2 DEF FormTypes, RowsOK, Forms!counts
<1>8. CASE Forms!Saved(w)
  <2>1. fConfirmed' \in [Forms!Keys -> Nat]
    BY <1>8, CountedType DEF Forms!Saved, FormTypes, RowsOK
  <2> QED BY <1>8, <2>1 DEF Forms!Saved, FormTypes, RowsOK, Forms!tables
<1>9. CASE Forms!SubmitConsent(w) \/ Forms!PutTemplate(w)
  <2>1. UNCHANGED <<Forms!tables, Forms!counts>> /\ fRaced' \in BOOLEAN
    BY <1>9 DEF Forms!SubmitConsent, Forms!PutTemplate, Forms!Begin, FormTypes, RowsOK
  <2> QED BY <1>3, <2>1
<1>10. CASE Forms!OnlyRead
  BY <1>3, <1>10 DEF Forms!OnlyRead, FormTypes, RowsOK
<1> QED BY <1>4, <1>5, <1>6, <1>7, <1>8, <1>9, <1>10
        DEF WorkerStep, Forms!ConsentTemplate, Forms!ConsentLookup, Forms!TemplateLookup,
             Forms!TemplateInsert, Forms!TemplateSave,
            Forms!CountRead, Forms!Refused, Forms!AbortRequest

LEMMA FormsKeepTypes ==
  ASSUME FormTypes, Forms!ConsentFormsAssumption, [Forms!Next]_(Forms!vars)
  PROVE  FormTypes'
<1>1. CASE UNCHANGED Forms!vars
  <2>1. RowsOK'
    BY <1>1 DEF FormTypes, RowsOK, Forms!vars, Forms!tables, Forms!counts
  <2>2. fPc' = fPc /\ fReq' = fReq
    BY <1>1 DEF Forms!vars, Forms!workers
  <2>3. \A w \in Workers : Carries(fPc[w], fReq[w])'
    BY <2>2 DEF FormTypes, RequestsOK, Carries, Forms!Snapshots
  <2> QED BY <2>1, <2>2, <2>3 DEF FormTypes, RequestsOK
<1>2. CASE \E w \in Workers : WorkerStep(w)
  BY <1>2, RowsStayOK, RequestsStayOK DEF FormTypes
<1> QED BY <1>1, <1>2 DEF Forms!Next, WorkerStep

LEMMA FormsInitTypes == ASSUME Forms!ConsentFormsAssumption, Forms!Init PROVE FormTypes
<1>1. RowsOK
  <2>1. fWritten \in [Forms!Keys -> 0..MaxSaves]
    BY DEF Forms!Init, Forms!ConsentFormsAssumption
  <2>2. fUses \in [Forms!Keys -> Nat] /\ fConfirmed \in [Forms!Keys -> Nat]
    BY DEF Forms!Init
  <2>3. fTemplate \in [Events -> FormTemplates \cup {{}}]
    BY DEF Forms!Init
  <2> QED BY <2>1, <2>2, <2>3 DEF Forms!Init, RowsOK
<1>2. RequestsOK
  BY NoFormRequest DEF Forms!Init, RequestsOK, Forms!Labels, Carries, Submitting, Saving, Counting
<1> QED BY <1>1, <1>2 DEF FormTypes

-----------------------------------------------------------------------------
(* Consents                                                                *)

\* The form that the event has is among those that a request may have met, and so is
\* the one that its values were validated against.
FormsKnown ==
  \A w \in Workers : fPc[w] # "idle" =>
    /\ fTemplate[fReq[w].event] \in fSince[w]
    /\ fPc[w] \in Submitting \ {"consent_template"} =>
         \E T \in fSince[w] \ {{}} : Forms!ValidateConsentSubmission(T, fReq[w].form)

FormsInv == FormTypes /\ FormsKnown

\* A request that goes on may have met what it may have met before.
LEMMA Observed ==
  ASSUME FormTypes, Forms!ConsentFormsAssumption, NEW w \in Workers, WorkerStep(w), Forms!Observe
  PROVE  \A v \in Workers : fPc'[v] # "idle" =>
           /\ fTemplate'[fReq'[v].event] \in fSince'[v]
           /\ fPc[v] # "idle" => fSince[v] \subseteq fSince'[v]
BY DEF Forms!Observe

LEMMA NextKeepsForms ==
  ASSUME FormsInv, Forms!ConsentFormsAssumption, [Forms!Next]_(Forms!vars)
  PROVE  FormsKnown'
<1>1. CASE UNCHANGED Forms!vars
  BY <1>1
     DEF FormsInv, FormsKnown, Forms!vars, Forms!tables, Forms!workers, Submitting,
         Forms!ValidateConsentSubmission, Forms!ValueOf
<1>2. ASSUME NEW w \in Workers, WorkerStep(w), Forms!Observe PROVE FormsKnown'
  <2>1. PICK l, r : Goes(w, l, r)
    BY <1>2, StepGoes DEF FormsInv
  <2>2. \A v \in Workers : /\ fPc'[v] = IF v = w THEN l ELSE fPc[v]
                           /\ fReq'[v] = IF v = w THEN r ELSE fReq[v]
    BY <2>1, Moves DEF Goes, FormsInv
  <2>3. \A v \in Workers : fPc'[v] # "idle" =>
           /\ fTemplate'[fReq'[v].event] \in fSince'[v]
           /\ fPc[v] # "idle" => fSince[v] \subseteq fSince'[v]
    BY <1>2, Observed DEF FormsInv
  <2>4. ASSUME fPc'[w] \in Submitting \ {"consent_template"}
        PROVE  \E T \in fSince[w] \ {{}} : Forms!ValidateConsentSubmission(T, fReq[w].form)
    <3>1. CASE Forms!ConsentTemplate(w)
      <4>1. PICK T : T = fTemplate[fReq[w].event]
        OBVIOUS
      <4>2. T # {} /\ Forms!ValidateConsentSubmission(T, fReq[w].form)
        BY <2>2, <2>4, <3>1, <4>1, Moves
           DEF Forms!ConsentTemplate, Forms!Reply, FormsInv, Submitting
      <4>3. T \in fSince[w]
        BY <3>1, <4>1 DEF Forms!ConsentTemplate, Forms!At, FormsInv, FormsKnown
      <4> QED BY <4>2, <4>3
    <3>2. CASE Forms!ConsentLookup(w)
      BY <3>2 DEF Forms!ConsentLookup, Forms!At, FormsInv, FormsKnown, Submitting
    <3>3. ~(Forms!ConsentTemplate(w) \/ Forms!ConsentLookup(w)) => fPc'[w] \notin Submitting \ {"consent_template"}
      <4>1. ASSUME NEW m, NEW s, Forms!Step(w, m, s) PROVE fPc'[w] = m
        BY <4>1, Moves DEF FormsInv
      <4>2. ASSUME NEW m, Forms!Goto(w, m) PROVE fPc'[w] = m
        BY <4>2, GotoMoves, Moves DEF FormsInv
      <4>3. CASE Forms!SubmitConsent(w) \/ Forms!PutTemplate(w)
        BY <4>1, <4>3
           DEF Forms!SubmitConsent, Forms!PutTemplate, Forms!Begin, Forms!Start, Submitting
      <4>4. CASE Forms!Reply(w)
        BY <4>1, <4>4 DEF Forms!Reply, Submitting
      <4>5. CASE Forms!TemplateLookup(w)
        BY <4>2, <4>5 DEF Forms!TemplateLookup, Submitting
      <4>6. CASE Forms!TemplateWritten(w)
        BY <4>1, <4>6 DEF Forms!TemplateWritten, Submitting
      <4>7. CASE Forms!CountRead(w)
        BY <4>1, <4>2, <4>7 DEF Forms!CountRead, Submitting
      <4>8. CASE Forms!CountInsert(w) \/ Forms!CountSave(w)
        BY <4>1, <4>2, <4>8 DEF Forms!CountInsert, Forms!CountSave, Forms!CountNext, Submitting
      <4> QED BY <1>2, <4>3, <4>4, <4>5, <4>6, <4>7, <4>8
              DEF WorkerStep, Forms!ConsentInsert, Forms!ConsentSave, Forms!TemplateInsert,
                   Forms!TemplateSave, Forms!Saved, Forms!Refused,
                  Forms!AbortRequest
    <3> QED BY <2>4, <3>1, <3>2, <3>3
  <2>5. fPc'[w] \in Submitting \ {"consent_template"} => fPc[w] # "idle" /\ fReq'[w].form = fReq[w].form
    <3>1. fPc[w] = "idle" => Forms!SubmitConsent(w) \/ Forms!PutTemplate(w)
      BY <1>2
         DEF WorkerStep, Forms!ConsentTemplate, Forms!ConsentLookup, Forms!ConsentInsert,
             Forms!ConsentSave,
           Forms!TemplateLookup, Forms!TemplateInsert, Forms!TemplateSave, Forms!CountRead,
           Forms!CountInsert, Forms!CountSave, Forms!Saved,
           Forms!Refused, Forms!AbortRequest, Forms!At, Forms!Idle
    <3>2. Forms!SubmitConsent(w) \/ Forms!PutTemplate(w) => fPc'[w] \notin Submitting \ {"consent_template"}
      <4>1. ASSUME NEW m, NEW s, Forms!Step(w, m, s) PROVE fPc'[w] = m
        BY <4>1, Moves DEF FormsInv
      <4> QED BY <4>1
                 DEF Forms!SubmitConsent, Forms!PutTemplate, Forms!Begin, Forms!Start, Submitting
    <3> QED BY <2>1, <2>2, <3>1, <3>2 DEF Goes, Forms!Idle, Submitting
  <2>6. ASSUME NEW v \in Workers, fPc'[v] \in Submitting \ {"consent_template"}
        PROVE  \E T \in fSince'[v] \ {{}} : Forms!ValidateConsentSubmission(T, fReq'[v].form)
    <3>1. PICK T \in fSince[v] \ {{}} : Forms!ValidateConsentSubmission(T, fReq[v].form)
      BY <2>2, <2>4, <2>6 DEF FormsInv, FormsKnown, Submitting
    <3>2. fPc[v] # "idle" /\ fPc'[v] # "idle" /\ fReq'[v].form = fReq[v].form
      BY <2>2, <2>5, <2>6 DEF Submitting
    <3> QED BY <2>3, <3>1, <3>2
  <2> QED BY <2>3, <2>6 DEF FormsKnown, Forms!ValidateConsentSubmission, Forms!ValueOf
<1> QED BY <1>1, <1>2 DEF Forms!Next, WorkerStep

\* A value that was validated is the one that is stored, unless the form has padded keys.
LEMMA SnapshotFits ==
  ASSUME Forms!ConsentFormsAssumption, NEW F \in SentForms, \A x \in F : ~x.padded,
         NEW v \in Forms!Snapshots(F), NEW T, Forms!ValidateConsentSubmission(T, F)
  PROVE  Forms!Fits(v, T)
<1>1. F \in SUBSET Forms!Entry
  BY DEF Forms!ConsentFormsAssumption
<1>2. \A x, y \in F : x.key = y.key => x = y
  <2>1. \A x \in F : x.padded = FALSE
    BY <1>1 DEF Forms!Entry
  <2> QED BY <2>1 DEF Forms!ConsentFormsAssumption
<1>3. DOMAIN v = {x.key : x \in F}
  BY <1>1, SnapshotTypes
<1>4. \A k \in DOMAIN v : \E x \in F : x.key = k /\ x.value = v[k]
  BY <1>3 DEF Forms!Snapshots
<1>5. ASSUME NEW f \in T, f.key \in DOMAIN v PROVE Forms!ValueOf(F, f) = v[f.key]
  <2>1. PICK x \in F : x.key = f.key /\ x.value = v[f.key]
    BY <1>4, <1>5
  <2>2. x = CHOOSE y \in F : y.key = f.key /\ ~y.padded
    BY <1>2, <2>1
  <2> QED BY <2>1, <2>2 DEF Forms!ValueOf
<1>6. ASSUME NEW f \in T, f.required PROVE f.key \in DOMAIN v
  BY <1>3, <1>6 DEF Forms!ValidateConsentSubmission, Forms!ValueOf
<1> QED BY <1>5, <1>6 DEF Forms!Fits, Forms!ValidateConsentSubmission

\* Only these two write consents, of their own request.
LEMMA ConsentsWritten ==
  ASSUME NEW w \in Workers, WorkerStep(w), NEW c \in fConsents' \ fConsents
  PROVE  fPc[w] \in {"consent_insert", "consent_save"} /\ c = Forms!Consent(w)
<1>1. CASE Forms!ConsentInsert(w) \/ Forms!ConsentSave(w)
  BY <1>1 DEF Forms!ConsentInsert, Forms!ConsentSave, Forms!At
<1>2. CASE fConsents' = fConsents
  BY <1>2
<1> QED BY <1>1, <1>2
        DEF WorkerStep, Forms!SubmitConsent, Forms!PutTemplate, Forms!Begin, Forms!OnlyRead,
             Forms!ConsentTemplate, Forms!ConsentLookup,
            Forms!TemplateLookup, Forms!TemplateInsert, Forms!TemplateSave, Forms!TemplateWritten,
            Forms!CountRead, Forms!CountInsert,
            Forms!CountSave, Forms!Saved, Forms!Refused, Forms!AbortRequest, Forms!tables

LEMMA StoredAnswersForm ==
  ASSUME FormsInv, Forms!ConsentFormsAssumption, [Forms!Next]_(Forms!vars),
         NEW c \in fConsents' \ fConsents
  PROVE  \E w \in Workers :
           /\ fReq[w].event = c.event /\ fReq[w].user = c.user
           /\ (\A x \in fReq[w].form : ~x.padded) => \E T \in fSince[w] \ {{}} : Forms!Fits(c.values, T)
<1>1. fConsents' # fConsents
  OBVIOUS
<1>2. PICK w \in Workers : WorkerStep(w)
  BY <1>1 DEF Forms!Next, WorkerStep, Forms!vars, Forms!tables
<1>3. fPc[w] \in {"consent_insert", "consent_save"} /\ c = Forms!Consent(w)
  BY <1>2, ConsentsWritten
<1>4. fReq[w].form \in SentForms /\ fReq[w].values \in Forms!Snapshots(fReq[w].form)
  BY <1>3 DEF FormsInv, FormTypes, RequestsOK, Carries, Submitting
<1>5. PICK T \in fSince[w] \ {{}} : Forms!ValidateConsentSubmission(T, fReq[w].form)
  BY <1>3 DEF FormsInv, FormsKnown, Submitting
<1>6. (\A x \in fReq[w].form : ~x.padded) => Forms!Fits(c.values, T)
  BY <1>3, <1>4, <1>5, SnapshotFits DEF Forms!Consent
<1>7. fReq[w].event = c.event /\ fReq[w].user = c.user
  BY <1>3 DEF Forms!Consent
<1> QED BY <1>5, <1>6, <1>7

LEMMA AnswersForm == ASSUME Forms!ConsentFormsAssumption PROVE Forms!Spec => Forms!ConsentAnswersForm
<1>1. Forms!Init => FormsInv
  BY FormsInitTypes DEF Forms!Init, FormsInv, FormsKnown
<1>2. FormsInv /\ [Forms!Next]_(Forms!vars) => FormsInv'
  BY FormsKeepTypes, NextKeepsForms DEF FormsInv
<1>3. FormsInv /\ [Forms!Next]_(Forms!vars) =>
        [\A c \in fConsents' \ fConsents : \E w \in Workers :
           /\ fReq[w].event = c.event /\ fReq[w].user = c.user
           /\ (\A x \in fReq[w].form : ~x.padded) => \E T \in fSince[w] \ {{}} : Forms!Fits(c.values, T)]_(Forms!vars)
  BY StoredAnswersForm
<1> QED BY <1>1, <1>2, <1>3, PTL DEF Forms!Spec, Forms!ConsentAnswersForm

-----------------------------------------------------------------------------
(* Counters                                                                *)

CustomCounting == Counting \cup {"saved", "refused"}

\* Who has still to count the field, and who has written a form with it and not confirmed.
Uncounted(k) == {w \in Workers : fPc[w] \in Counting /\ \E f \in fReq[w].todo : f.key = k}
Unconfirmed(k) == {w \in Workers : fPc[w] \in CustomCounting /\ k \in Forms!CustomKeys(fReq[w].fields)}

\* Whatever increments are lost, a counter and those who have yet to count are no more
\* than the forms that were written; neither are a counter that was read and those.
NeverTooMany ==
  /\ IsFiniteSet({w \in Workers : fPc[w] # "idle"})
  /\ \A k \in Forms!Keys : /\ fUses[k] + Cardinality(Uncounted(k)) <= fWritten[k]
                           /\ fConfirmed[k] + Cardinality(Unconfirmed(k)) <= fWritten[k]
  /\ \A w \in Workers, k \in Forms!Keys : fPc[w] = "count_save" /\ fReq[w].key = k =>
       fReq[w].count + Cardinality(Uncounted(k)) <= fWritten[k]

CountsInv == FormTypes /\ NeverTooMany

LEMMA CardinalityOfParts ==
  ASSUME NEW S, IsFiniteSet(S), NEW T \in SUBSET S, NEW x
  PROVE  /\ Cardinality(T) \in Nat /\ IsFiniteSet(T)
         /\ x \in T => Cardinality(T \ {x}) = Cardinality(T) - 1
         /\ IsFiniteSet(T \cup {x}) /\ Cardinality(T \cup {x}) \in Nat
         /\ Cardinality(T \cup {x}) <= Cardinality(T) + 1
<1>1. IsFiniteSet(T) /\ Cardinality(T) \in Nat
  BY FS_Subset, FS_CardinalityType
<1>2. x \in T => Cardinality(T \ {x}) = Cardinality(T) - 1
  BY <1>1, FS_RemoveElement
<1>3. IsFiniteSet(T \cup {x})
  BY <1>1, FS_AddElement
<1>4. Cardinality(T \cup {x}) <= Cardinality(T) + 1
  BY <1>1, FS_AddElement
<1> QED BY <1>1, <1>2, <1>3, <1>4, FS_CardinalityType

LEMMA SmallerIsFewer ==
  ASSUME NEW S, IsFiniteSet(S), NEW T \in SUBSET S
  PROVE  IsFiniteSet(T) /\ Cardinality(T) \in Nat /\ Cardinality(S) \in Nat /\ Cardinality(T) <= Cardinality(S)
BY FS_Subset, FS_CardinalityType

\* Whoever stands still is counted as before.
LEMMA OthersCount ==
  ASSUME FormTypes, NEW w \in Workers, NEW l, NEW r, Goes(w, l, r)
  PROVE  \A k \in Forms!Keys :
           /\ Uncounted(k)' = (Uncounted(k) \ {w})
                \cup {v \in {w} : l \in Counting /\ \E f \in r.todo : f.key = k}
           /\ Unconfirmed(k)' = (Unconfirmed(k) \ {w})
                \cup {v \in {w} : l \in CustomCounting /\ k \in Forms!CustomKeys(r.fields)}
<1>1. \A v \in Workers : /\ fPc'[v] = IF v = w THEN l ELSE fPc[v]
                         /\ fReq'[v] = IF v = w THEN r ELSE fReq[v]
  BY Moves DEF Goes
<1>2. TAKE k \in Forms!Keys
<1>3. Uncounted(k)' = {v \in Workers : fPc'[v] \in Counting /\ \E f \in fReq'[v].todo : f.key = k}
  BY DEF Uncounted, Counting
<1>4. Unconfirmed(k)' = {v \in Workers : fPc'[v] \in CustomCounting /\ k \in Forms!CustomKeys(fReq'[v].fields)}
  BY DEF Unconfirmed, CustomCounting, Counting, Forms!CustomKeys
<1>5. Uncounted(k)' = (Uncounted(k) \ {w})
                \cup {v \in {w} : l \in Counting /\ \E f \in r.todo : f.key = k}
  BY <1>1, <1>3 DEF Uncounted
<1>6. Unconfirmed(k)' = (Unconfirmed(k) \ {w})
                \cup {v \in {w} : l \in CustomCounting /\ k \in Forms!CustomKeys(r.fields)}
  BY <1>1, <1>4 DEF Unconfirmed
<1> QED BY <1>5, <1>6

\* They are finitely many.
LEMMA FewCount ==
  ASSUME CountsInv, NEW k \in Forms!Keys
  PROVE  /\ IsFiniteSet(Uncounted(k)) /\ Cardinality(Uncounted(k)) \in Nat
         /\ IsFiniteSet(Unconfirmed(k)) /\ Cardinality(Unconfirmed(k)) \in Nat
         /\ fUses[k] \in Nat /\ fConfirmed[k] \in Nat /\ fWritten[k] \in Nat
<1>1. Uncounted(k) \in SUBSET {w \in Workers : fPc[w] # "idle"}
  BY DEF Uncounted, Counting
<1>2. Unconfirmed(k) \in SUBSET {w \in Workers : fPc[w] # "idle"}
  BY DEF Unconfirmed, CustomCounting, Counting
<1>3. IsFiniteSet({w \in Workers : fPc[w] # "idle"})
  BY DEF CountsInv, NeverTooMany
<1> QED BY <1>1, <1>2, <1>3, SmallerIsFewer DEF CountsInv, FormTypes, RowsOK

\* Requests stay finitely many.
LEMMA BusyStayFew ==
  ASSUME CountsInv, NEW w \in Workers, NEW l, NEW r, Goes(w, l, r)
  PROVE  IsFiniteSet({v \in Workers : fPc[v] # "idle"})'
<1>1. \A v \in Workers : fPc'[v] = IF v = w THEN l ELSE fPc[v]
  BY Moves DEF Goes, CountsInv
<1>2. PICK S : S = {v \in Workers : fPc[v] # "idle"}
  OBVIOUS
<1>3. {v \in Workers : fPc'[v] # "idle"} \in SUBSET (S \cup {w})
  BY <1>1, <1>2
<1>4. IsFiniteSet(S \cup {w})
  BY <1>2, FS_AddElement DEF CountsInv, NeverTooMany
<1> QED BY <1>3, <1>4, FS_Subset

\* A statement that counts and confirms nothing.
LEMMA IdleCount ==
  ASSUME CountsInv, NEW w \in Workers, NEW l, NEW r, Goes(w, l, r),
         UNCHANGED <<fUses, fWritten, fConfirmed>>,
         l \in CustomCounting => fPc[w] \in Counting /\ r.fields = fReq[w].fields,
         l \in Counting => r.todo \subseteq fReq[w].todo,
         l = "count_save" => r.key \in Forms!Keys /\ r.count = fUses[r.key]
  PROVE  NeverTooMany'
<1>1. \A k \in Forms!Keys : Uncounted(k)' \subseteq Uncounted(k) /\ Unconfirmed(k)' \subseteq Unconfirmed(k)
  <2>1. TAKE k \in Forms!Keys
  <2>2. l \in Counting /\ (\E f \in r.todo : f.key = k) => w \in Uncounted(k)
    BY DEF Uncounted, CustomCounting
  <2>3. l \in CustomCounting /\ k \in Forms!CustomKeys(r.fields) => w \in Unconfirmed(k)
    BY DEF Unconfirmed, CustomCounting
  <2> QED BY <2>2, <2>3, OthersCount DEF CountsInv
<1>2. \A k \in Forms!Keys : /\ Cardinality(Uncounted(k)') <= Cardinality(Uncounted(k))
                            /\ Cardinality(Uncounted(k)') \in Nat
                            /\ Cardinality(Unconfirmed(k)') <= Cardinality(Unconfirmed(k))
                            /\ Cardinality(Unconfirmed(k)') \in Nat
  BY <1>1, FewCount, SmallerIsFewer
<1>3. \A k \in Forms!Keys : /\ fUses'[k] + Cardinality(Uncounted(k)') <= fWritten'[k]
                            /\ fConfirmed'[k] + Cardinality(Unconfirmed(k)') <= fWritten'[k]
  BY <1>2, FewCount DEF CountsInv, NeverTooMany
<1>4. \A v \in Workers : /\ fPc'[v] = IF v = w THEN l ELSE fPc[v]
                         /\ fReq'[v] = IF v = w THEN r ELSE fReq[v]
  BY Moves DEF Goes, CountsInv
<1>5. ASSUME NEW v \in Workers, NEW k \in Forms!Keys, fPc'[v] = "count_save", fReq'[v].key = k
      PROVE  fReq'[v].count + Cardinality(Uncounted(k)') <= fWritten'[k]
  <2>1. CASE v = w
    BY <1>3, <1>4, <1>5, <2>1
  <2>2. CASE v # w
    <3>1. fPc[v] = "count_save" /\ fReq'[v] = fReq[v] /\ fReq[v].key = k /\ fReq[v].count \in Nat
      BY <1>4, <1>5, <2>2 DEF CountsInv, FormTypes, RequestsOK, FormRequest
    <3>2. fReq[v].count + Cardinality(Uncounted(k)) <= fWritten[k]
      BY <3>1 DEF CountsInv, NeverTooMany
    <3> QED BY <1>2, <3>1, <3>2, FewCount
  <2> QED BY <2>1, <2>2
<1>6. IsFiniteSet({v \in Workers : fPc[v] # "idle"})'
  BY BusyStayFew
<1> QED BY <1>3, <1>5, <1>6 DEF NeverTooMany

\* Writing a form adds one that has to be counted and confirmed.
LEMMA WrittenCounts ==
  ASSUME CountsInv, Forms!ConsentFormsAssumption, NEW w \in Workers,
         fPc[w] \in {"template_insert", "template_save"}, Forms!TemplateWritten(w)
  PROVE  NeverTooMany'
<1>1. PICK r : /\ Goes(w, "count", r)
               /\ r.fields = fReq[w].fields /\ r.todo = {f \in fReq[w].fields : f.custom}
  BY WrittenGoes DEF CountsInv
<1>2. PICK K : K = Forms!CustomKeys(fReq[w].fields)
  OBVIOUS
<1>3. /\ \A k \in Forms!Keys : fWritten'[k] = IF k \in K THEN fWritten[k] + 1 ELSE fWritten[k]
      /\ fUses' = fUses /\ fConfirmed' = fConfirmed
  <2>1. fWritten \in [Forms!Keys -> Nat]
    BY DEF CountsInv, FormTypes, RowsOK
  <2> QED BY <1>2, <2>1, CountedType DEF Forms!TemplateWritten
<1>4. \A k : (\E f \in r.todo : f.key = k) <=> k \in K
  BY <1>1, <1>2 DEF Forms!CustomKeys
<1>5. \A k \in Forms!Keys : w \notin Uncounted(k) /\ w \notin Unconfirmed(k)
  BY DEF Uncounted, Unconfirmed, CustomCounting, Counting
<1>6. \A k \in Forms!Keys :
        /\ Uncounted(k)' = IF k \in K THEN Uncounted(k) \cup {w} ELSE Uncounted(k)
        /\ Unconfirmed(k)' = IF k \in K THEN Unconfirmed(k) \cup {w} ELSE Unconfirmed(k)
  <2>1. TAKE k \in Forms!Keys
  <2>2. Uncounted(k)' = (Uncounted(k) \ {w}) \cup {v \in {w} : k \in K}
    BY <1>1, <1>4, OthersCount DEF CountsInv, Counting
  <2>3. Unconfirmed(k)' = (Unconfirmed(k) \ {w}) \cup {v \in {w} : k \in K}
    BY <1>1, <1>2, OthersCount DEF CountsInv, Counting, CustomCounting
  <2> QED BY <1>5, <2>2, <2>3
<1>7. \A k \in Forms!Keys :
        /\ Cardinality(Uncounted(k)') \in Nat /\ Cardinality(Unconfirmed(k)') \in Nat
        /\ Cardinality(Uncounted(k)') <= Cardinality(Uncounted(k)) + IF k \in K THEN 1 ELSE 0
        /\ Cardinality(Unconfirmed(k)') <= Cardinality(Unconfirmed(k)) + IF k \in K THEN 1 ELSE 0
  <2>1. TAKE k \in Forms!Keys
  <2>2. /\ Cardinality(Uncounted(k) \cup {w}) \in Nat
        /\ Cardinality(Uncounted(k) \cup {w}) <= Cardinality(Uncounted(k)) + 1
        /\ Cardinality(Unconfirmed(k) \cup {w}) \in Nat
        /\ Cardinality(Unconfirmed(k) \cup {w}) <= Cardinality(Unconfirmed(k)) + 1
    BY FewCount, CardinalityOfParts
  <2>3. CASE k \in K
    BY <1>6, <2>2, <2>3
  <2>4. CASE k \notin K
    BY <1>6, <2>4, FewCount
  <2> QED BY <2>3, <2>4
<1>8. \A k \in Forms!Keys : /\ fUses'[k] + Cardinality(Uncounted(k)') <= fWritten'[k]
                            /\ fConfirmed'[k] + Cardinality(Unconfirmed(k)') <= fWritten'[k]
  BY <1>3, <1>7, FewCount DEF CountsInv, NeverTooMany
<1>9. ASSUME NEW v \in Workers, NEW k \in Forms!Keys, fPc'[v] = "count_save", fReq'[v].key = k
      PROVE  fReq'[v].count + Cardinality(Uncounted(k)') <= fWritten'[k]
  <2>1. fPc[v] = "count_save" /\ fReq'[v] = fReq[v] /\ fReq[v].key = k /\ fReq[v].count \in Nat
    BY <1>1, <1>9, Moves DEF Goes, CountsInv, FormTypes, RequestsOK, FormRequest
  <2>2. fReq[v].count + Cardinality(Uncounted(k)) <= fWritten[k]
    BY <2>1 DEF CountsInv, NeverTooMany
  <2> QED BY <1>3, <1>7, <2>1, <2>2, FewCount
<1>10. IsFiniteSet({v \in Workers : fPc[v] # "idle"})'
  BY <1>1, BusyStayFew
<1> QED BY <1>8, <1>9, <1>10 DEF NeverTooMany

\* Counting a field takes one who had to, and adds at most one to what was read.
LEMMA CountingCounts ==
  ASSUME CountsInv, Forms!ConsentFormsAssumption, NEW w \in Workers,
         fPc[w] \in {"count_insert", "count_save"},
         Forms!CountInsert(w) \/ Forms!CountSave(w), Forms!CountNext(w)
  PROVE  NeverTooMany'
<1>1. PICK r : /\ Goes(w, "count", r)
               /\ r.fields = fReq[w].fields
               /\ {f.key : f \in r.todo} = {f.key : f \in fReq[w].todo} \ {fReq[w].key}
  BY CountNextGoes DEF CountsInv
<1>2. PICK j \in Forms!Keys : j = fReq[w].key /\ fReq[w].count \in Nat /\ \E f \in fReq[w].todo : f.key = j
  <2>1. fReq[w] \in FormRequest /\ Carries(fPc[w], fReq[w])
    BY DEF CountsInv, FormTypes, RequestsOK
  <2>2. PICK f \in fReq[w].todo : f.key = fReq[w].key
    BY <2>1 DEF Carries
  <2>3. f.key \in Forms!Keys /\ fReq[w].count \in Nat
    BY <2>1, <2>2 DEF FormRequest, Forms!Keys
  <2> QED BY <2>2, <2>3
<1>3. w \in Uncounted(j)
  BY <1>2 DEF Uncounted, Counting
<1>4. \A k \in Forms!Keys : /\ Uncounted(k)' = IF k = j THEN Uncounted(k) \ {w} ELSE Uncounted(k)
                            /\ Unconfirmed(k)' = Unconfirmed(k)
  <2>1. TAKE k \in Forms!Keys
  <2>2. (\E f \in r.todo : f.key = k) <=> (\E f \in fReq[w].todo : f.key = k) /\ k # j
    BY <1>1, <1>2
  <2>3. Uncounted(k)' = (Uncounted(k) \ {w}) \cup {v \in {w} : \E f \in r.todo : f.key = k}
    BY <1>1, OthersCount DEF CountsInv, Counting
  <2>4. w \in Uncounted(k) <=> \E f \in fReq[w].todo : f.key = k
    BY DEF Uncounted, Counting
  <2>5. Unconfirmed(k)' = (Unconfirmed(k) \ {w}) \cup {v \in {w} : k \in Forms!CustomKeys(r.fields)}
    BY <1>1, OthersCount DEF CountsInv, Counting, CustomCounting
  <2>6. w \in Unconfirmed(k) <=> k \in Forms!CustomKeys(r.fields)
    BY <1>1 DEF Unconfirmed, CustomCounting, Counting
  <2> QED BY <2>2, <2>3, <2>4, <2>5, <2>6
<1>5. /\ Cardinality(Uncounted(j)') = Cardinality(Uncounted(j)) - 1
      /\ Cardinality(Uncounted(j)') \in Nat
  BY <1>3, <1>4, FewCount, CardinalityOfParts
<1>6. /\ fWritten' = fWritten /\ fConfirmed' = fConfirmed
      /\ \A k \in Forms!Keys : k # j => fUses'[k] = fUses[k]
      /\ \/ fUses'[j] = 1 /\ fUses[j] = 0
         \/ fUses'[j] = fReq[w].count + 1 /\ fPc[w] = "count_save"
  <2>1. fUses \in [Forms!Keys -> Nat]
    BY DEF CountsInv, FormTypes, RowsOK
  <2>2. CASE Forms!CountSave(w)
    BY <1>2, <2>1, <2>2 DEF Forms!CountSave, Forms!At, Forms!counts
  <2>3. CASE Forms!CountInsert(w)
    <3>1. fPc'[w] = "count"
      BY <1>1, Moves DEF Goes, CountsInv
    <3>2. ~Forms!Goto(w, "refused")
      BY <3>1, GotoMoves, Moves DEF CountsInv
    <3> QED BY <1>2, <2>1, <2>3, <3>2 DEF Forms!CountInsert, Forms!counts
  <2> QED BY <2>2, <2>3
<1>7. fUses'[j] + Cardinality(Uncounted(j)') <= fWritten'[j]
  <2>1. fUses[j] + Cardinality(Uncounted(j)) <= fWritten[j]
    BY DEF CountsInv, NeverTooMany
  <2>2. fPc[w] = "count_save" => fReq[w].count + Cardinality(Uncounted(j)) <= fWritten[j]
    BY <1>2 DEF CountsInv, NeverTooMany
  <2> QED BY <1>2, <1>5, <1>6, <2>1, <2>2, FewCount
<1>8. \A k \in Forms!Keys : /\ fUses'[k] + Cardinality(Uncounted(k)') <= fWritten'[k]
                            /\ fConfirmed'[k] + Cardinality(Unconfirmed(k)') <= fWritten'[k]
  BY <1>4, <1>6, <1>7 DEF CountsInv, NeverTooMany
<1>9. ASSUME NEW v \in Workers, NEW k \in Forms!Keys, fPc'[v] = "count_save", fReq'[v].key = k
      PROVE  fReq'[v].count + Cardinality(Uncounted(k)') <= fWritten'[k]
  <2>1. fPc[v] = "count_save" /\ fReq'[v] = fReq[v] /\ fReq[v].key = k /\ fReq[v].count \in Nat
    BY <1>1, <1>9, Moves DEF Goes, CountsInv, FormTypes, RequestsOK, FormRequest
  <2>2. fReq[v].count + Cardinality(Uncounted(k)) <= fWritten[k]
    BY <2>1 DEF CountsInv, NeverTooMany
  <2> QED BY <1>4, <1>5, <1>6, <2>1, <2>2, FewCount
<1>10. IsFiniteSet({v \in Workers : fPc[v] # "idle"})'
  BY <1>1, BusyStayFew
<1> QED BY <1>8, <1>9, <1>10 DEF NeverTooMany

\* Confirming a form takes one who had to.
LEMMA ConfirmingCounts ==
  ASSUME CountsInv, NEW w \in Workers, Forms!Saved(w)
  PROVE  NeverTooMany'
<1>1. Goes(w, "idle", Forms!NoRequest)
  BY ReplyGoes DEF Forms!Saved
<1>2. PICK K : K = Forms!CustomKeys(fReq[w].fields)
  OBVIOUS
<1>3. /\ \A k \in Forms!Keys : fConfirmed'[k] = IF k \in K THEN fConfirmed[k] + 1 ELSE fConfirmed[k]
      /\ fUses' = fUses /\ fWritten' = fWritten
  BY <1>2, CountedType DEF Forms!Saved, CountsInv, FormTypes, RowsOK, Forms!tables
<1>4. \A k \in Forms!Keys : /\ Uncounted(k)' = Uncounted(k)
                            /\ Unconfirmed(k)' = IF k \in K THEN Unconfirmed(k) \ {w} ELSE Unconfirmed(k)
                            /\ k \in K => w \in Unconfirmed(k)
  <2>1. TAKE k \in Forms!Keys
  <2>2. Uncounted(k)' = Uncounted(k) \ {w} /\ Unconfirmed(k)' = Unconfirmed(k) \ {w}
    BY <1>1, OthersCount DEF CountsInv, Counting, CustomCounting
  <2>3. w \notin Uncounted(k)
    BY DEF Forms!Saved, Forms!At, Uncounted, Counting
  <2>4. w \in Unconfirmed(k) <=> k \in K
    BY <1>2 DEF Forms!Saved, Forms!At, Unconfirmed, CustomCounting
  <2> QED BY <2>2, <2>3, <2>4
<1>5. \A k \in Forms!Keys :
        /\ Cardinality(Unconfirmed(k)') \in Nat
        /\ Cardinality(Unconfirmed(k)') = Cardinality(Unconfirmed(k)) - IF k \in K THEN 1 ELSE 0
  <2>1. TAKE k \in Forms!Keys
  <2>2. CASE k \in K
    BY <1>4, <2>2, FewCount, CardinalityOfParts
  <2>3. CASE k \notin K
    BY <1>4, <2>3, FewCount
  <2> QED BY <2>2, <2>3
<1>6. \A k \in Forms!Keys : /\ fUses'[k] + Cardinality(Uncounted(k)') <= fWritten'[k]
                            /\ fConfirmed'[k] + Cardinality(Unconfirmed(k)') <= fWritten'[k]
  BY <1>3, <1>4, <1>5, FewCount DEF CountsInv, NeverTooMany
<1>7. ASSUME NEW v \in Workers, NEW k \in Forms!Keys, fPc'[v] = "count_save", fReq'[v].key = k
      PROVE  fReq'[v].count + Cardinality(Uncounted(k)') <= fWritten'[k]
  <2>1. fPc[v] = "count_save" /\ fReq'[v] = fReq[v] /\ fReq[v].key = k
    BY <1>1, <1>7, Moves DEF Goes, CountsInv
  <2> QED BY <1>3, <1>4, <2>1 DEF CountsInv, NeverTooMany
<1>8. IsFiniteSet({v \in Workers : fPc[v] # "idle"})'
  BY <1>1, BusyStayFew
<1> QED BY <1>6, <1>7, <1>8 DEF NeverTooMany

LEMMA NextKeepsCounts ==
  ASSUME CountsInv, Forms!ConsentFormsAssumption, [Forms!Next]_(Forms!vars)
  PROVE  NeverTooMany'
<1>1. CASE UNCHANGED Forms!vars
  <2>1. fPc' = fPc /\ fReq' = fReq /\ fUses' = fUses /\ fWritten' = fWritten /\ fConfirmed' = fConfirmed
    BY <1>1 DEF Forms!vars, Forms!workers, Forms!tables, Forms!counts
  <2>2. \A k \in Forms!Keys : Uncounted(k)' = Uncounted(k) /\ Unconfirmed(k)' = Unconfirmed(k)
    BY <2>1 DEF Uncounted, Unconfirmed
  <2> QED BY <2>1, <2>2 DEF CountsInv, NeverTooMany
<1>2. ASSUME NEW w \in Workers, WorkerStep(w) PROVE NeverTooMany'
  <2>1. ASSUME NEW l \in Forms!Labels \ CustomCounting, NEW r, Goes(w, l, r),
               UNCHANGED <<fUses, fWritten, fConfirmed>>
        PROVE  NeverTooMany'
    BY <2>1, IdleCount DEF CustomCounting, Counting
  <2>2. CASE Forms!Reply(w) /\ Forms!OnlyRead
    BY <2>1, <2>2, ReplyGoes
       DEF Forms!OnlyRead, Forms!tables, Forms!counts, Forms!Labels, CustomCounting, Counting
  <2>3. CASE Forms!SubmitConsent(w) \/ Forms!PutTemplate(w)
    <3>1. PICK l, r : Goes(w, l, r)
      BY <2>3, BeginsGo DEF CountsInv
    <3>2. fPc'[w] = l /\ fPc'[w] \in {"consent_template", "template_lookup"}
      <4>1. ASSUME NEW m, NEW s, Forms!Step(w, m, s) PROVE fPc'[w] = m
        BY <4>1, Moves DEF CountsInv
      <4> QED BY <2>3, <3>1, <4>1
                 DEF Goes, Forms!SubmitConsent, Forms!PutTemplate, Forms!Begin, Forms!Start
    <3>3. UNCHANGED <<fUses, fWritten, fConfirmed>>
      BY <2>3 DEF Forms!SubmitConsent, Forms!PutTemplate, Forms!Begin, Forms!tables, Forms!counts
    <3> QED BY <2>1, <3>1, <3>2, <3>3 DEF Forms!Labels, CustomCounting, Counting
  <2>4. CASE Forms!ConsentTemplate(w) \/ Forms!ConsentLookup(w) \/ Forms!ConsentInsert(w) \/ Forms!ConsentSave(w)
    <3>1. PICK l, r : Goes(w, l, r)
      BY <2>4, SubmissionsGo DEF CountsInv
    <3>2. fPc'[w] = l /\ fPc'[w] \in {"idle"} \cup Submitting
      <4>1. ASSUME NEW m, NEW s, Forms!Step(w, m, s) PROVE fPc'[w] = m
        BY <4>1, Moves DEF CountsInv
      <4>2. ASSUME NEW m, Forms!Goto(w, m) PROVE fPc'[w] = m
        BY <4>1, <4>2, GotoMoves DEF CountsInv
      <4> QED BY <2>4, <3>1, <4>1, <4>2
              DEF Goes, Forms!ConsentTemplate, Forms!ConsentLookup, Forms!ConsentInsert,
                   Forms!ConsentSave, Forms!Reply, Submitting
    <3>3. UNCHANGED <<fUses, fWritten, fConfirmed>>
      BY <2>4
         DEF Forms!ConsentTemplate, Forms!ConsentLookup, Forms!ConsentInsert, Forms!ConsentSave,
             Forms!OnlyRead, Forms!tables, Forms!counts
    <3> QED BY <2>1, <3>1, <3>2, <3>3 DEF Forms!Labels, CustomCounting, Counting, Submitting
  <2>5. CASE Forms!TemplateLookup(w)
    <3>1. PICK l \in {"template_insert", "template_save"} : Forms!Goto(w, l)
      BY <2>5 DEF Forms!TemplateLookup
    <3>2. Goes(w, l, fReq[w])
      <4>1. Carries(l, fReq[w]) /\ ~Forms!Idle(w) /\ l \in Forms!Labels
        BY <2>5, <3>1
           DEF Forms!TemplateLookup, Forms!At, Forms!Idle, CountsInv, FormTypes, RequestsOK,
               Forms!Labels, Carries,
             Submitting, Saving, Counting
      <4> QED BY <3>1, <4>1, GotoGoes DEF CountsInv
    <3>3. UNCHANGED <<fUses, fWritten, fConfirmed>>
      BY <2>5 DEF Forms!TemplateLookup, Forms!OnlyRead, Forms!tables, Forms!counts
    <3> QED BY <2>1, <3>1, <3>2, <3>3 DEF Forms!Labels, CustomCounting, Counting
  <2>6. CASE (Forms!TemplateInsert(w) \/ Forms!TemplateSave(w)) /\ Forms!TemplateWritten(w)
    BY <2>6, WrittenCounts DEF Forms!TemplateInsert, Forms!TemplateSave, Forms!At
  <2>7. CASE Forms!CountRead(w)
    <3>1. UNCHANGED <<fUses, fWritten, fConfirmed>> /\ fPc[w] = "count"
      BY <2>7 DEF Forms!CountRead, Forms!At, Forms!OnlyRead, Forms!tables, Forms!counts
    <3>2. fReq[w] \in FormRequest /\ Carries("count", fReq[w])
      BY <3>1 DEF CountsInv, FormTypes, RequestsOK
    <3>3. CASE Forms!Goto(w, "saved")
      <4>1. Carries("saved", fReq[w]) /\ ~Forms!Idle(w)
        BY <3>1, <3>2 DEF Forms!Idle, Carries, Submitting, Saving, Counting
      <4>2. Goes(w, "saved", fReq[w])
        BY <3>3, <4>1, GotoGoes DEF CountsInv, Forms!Labels
      <4> QED BY <3>1, <4>2, IdleCount DEF Counting
    <3>4. CASE \E f \in fReq[w].todo :
                 Forms!Step(w, IF fUses[f.key] = 0 THEN "count_insert" ELSE "count_save",
                      [fReq[w] EXCEPT !.key = f.key, !.count = fUses[f.key]])
      <4>1. PICK f \in fReq[w].todo, l \in {"count_insert", "count_save"} :
              Forms!Step(w, l, [fReq[w] EXCEPT !.key = f.key, !.count = fUses[f.key]])
        BY <3>4
      <4>2. f.key \in Forms!Keys /\ fUses[f.key] \in Nat
        BY <3>2, <4>1 DEF FormRequest, Forms!Keys, CountsInv, FormTypes, RowsOK
      <4>3. PICK r : r = [fReq[w] EXCEPT !.key = f.key, !.count = fUses[f.key]]
        OBVIOUS
      <4>4. /\ r \in FormRequest /\ r.event = fReq[w].event /\ r.user = fReq[w].user
            /\ r.form = fReq[w].form /\ r.fields = fReq[w].fields
            /\ r.todo = fReq[w].todo /\ r.key = f.key /\ r.count = fUses[f.key]
        BY <3>2, <4>2, <4>3 DEF FormRequest
      <4>5. Carries(l, r)
        BY <3>2, <4>1, <4>4 DEF Carries, Submitting, Saving, Counting
      <4>6. Goes(w, l, r)
        BY <4>1, <4>3, <4>4, <4>5 DEF Goes, Forms!Labels
      <4> QED BY <3>1, <4>2, <4>4, <4>6, IdleCount DEF Counting
    <3> QED BY <2>7, <3>3, <3>4 DEF Forms!CountRead
  <2>8. CASE (Forms!CountInsert(w) \/ Forms!CountSave(w)) /\ Forms!CountNext(w)
    BY <2>8, CountingCounts DEF Forms!CountInsert, Forms!CountSave, Forms!At
  <2>9. CASE Forms!CountInsert(w) /\ Forms!Goto(w, "refused") /\ UNCHANGED fUses
    <3>1. Carries("refused", fReq[w]) /\ ~Forms!Idle(w)
      BY <2>9
         DEF Forms!CountInsert, Forms!At, Forms!Idle, CountsInv, FormTypes, RequestsOK, Carries,
             Submitting, Saving, Counting
    <3>2. Goes(w, "refused", fReq[w])
      BY <2>9, <3>1, GotoGoes DEF CountsInv, Forms!Labels
    <3>3. fPc[w] \in Counting /\ UNCHANGED <<fUses, fWritten, fConfirmed>>
      BY <2>9 DEF Forms!CountInsert, Forms!At, Forms!counts, Counting
    <3> QED BY <3>2, <3>3, IdleCount DEF Counting
  <2>10. CASE Forms!Saved(w)
    BY <2>10, ConfirmingCounts
  <2> QED BY <1>2, <2>2, <2>3, <2>4, <2>5, <2>6, <2>7, <2>8, <2>9, <2>10
          DEF WorkerStep, Forms!TemplateInsert, Forms!TemplateSave, Forms!CountInsert,
               Forms!CountSave, Forms!Refused, Forms!AbortRequest
<1> QED BY <1>1, <1>2 DEF Forms!Next, WorkerStep

LEMMA InitCounts == ASSUME Forms!ConsentFormsAssumption, Forms!Init PROVE NeverTooMany
<1>1. {w \in Workers : fPc[w] # "idle"} = {}
  BY DEF Forms!Init
<1>2. \A k \in Forms!Keys : Uncounted(k) = {} /\ Unconfirmed(k) = {}
  BY DEF Forms!Init, Uncounted, Unconfirmed, CustomCounting, Counting
<1> QED BY <1>1, <1>2, FS_EmptySet DEF Forms!Init, NeverTooMany

\* A counter is never above the forms that were written.
LEMMA TypesFollow == ASSUME CountsInv, Forms!ConsentFormsAssumption PROVE Forms!TypeOK
<1>1. ASSUME NEW k \in Forms!Keys PROVE fUses[k] \in 0..fWritten[k] /\ fConfirmed[k] \in 0..fWritten[k]
  BY FewCount DEF CountsInv, NeverTooMany
<1> QED BY <1>1 DEF CountsInv, FormTypes, RowsOK, RequestsOK, Forms!TypeOK

-----------------------------------------------------------------------------
(* Counters, while requests run one at a time                              *)

\* A confirmed form is counted, and the form of the one request that runs is about to be:
\* its fields are counted up to those it still has to do.
CountedOneByOne ==
  ~fRaced =>
    /\ \A v, w \in Workers : fPc[v] # "idle" /\ fPc[w] # "idle" => v = w
    /\ \A k \in Forms!Keys : fConfirmed[k] <= fUses[k]
    /\ \A w \in Workers :
         /\ fPc[w] \in Counting =>
              \A k \in Forms!CustomKeys(fReq[w].fields) :
                (\E f \in fReq[w].todo : f.key = k) \/ fConfirmed[k] < fUses[k]
         /\ fPc[w] = "count_save" => fReq[w].count = fUses[fReq[w].key]
         /\ fPc[w] = "saved" => \A k \in Forms!CustomKeys(fReq[w].fields) : fConfirmed[k] < fUses[k]

OneByOneInv == FormTypes /\ CountedOneByOne

\* A request goes on alone if it has been alone, and it begins alone.
LEMMA StaysAlone ==
  ASSUME OneByOneInv, Forms!ConsentFormsAssumption, NEW w \in Workers, WorkerStep(w), ~fRaced'
  PROVE  /\ ~fRaced
         /\ \A v \in Workers : v # w => fPc[v] = "idle" /\ fPc'[v] = "idle"
<1>1. PICK l, r : Goes(w, l, r)
  BY StepGoes DEF OneByOneInv
<1>2. \A v \in Workers : v # w => fPc'[v] = fPc[v]
  BY <1>1, Moves DEF Goes, OneByOneInv
<1>3. CASE Forms!SubmitConsent(w) \/ Forms!PutTemplate(w)
  <2>1. ~fRaced /\ \A v \in Workers : fPc[v] = "idle"
    BY <1>3 DEF Forms!SubmitConsent, Forms!PutTemplate, Forms!Begin, Forms!Idle
  <2> QED BY <1>2, <2>1
<1>4. CASE ~(Forms!SubmitConsent(w) \/ Forms!PutTemplate(w))
  <2>1. fRaced' = fRaced /\ fPc[w] # "idle"
    BY <1>4
       DEF WorkerStep, Forms!ConsentTemplate, Forms!ConsentLookup, Forms!ConsentInsert,
           Forms!ConsentSave, Forms!TemplateLookup,
         Forms!TemplateInsert, Forms!TemplateSave, Forms!TemplateWritten, Forms!CountRead,
         Forms!CountInsert, Forms!CountSave, Forms!Saved,
         Forms!Refused, Forms!AbortRequest, Forms!At, Forms!Idle, Forms!OnlyRead
  <2> QED BY <1>2, <2>1 DEF OneByOneInv, CountedOneByOne
<1> QED BY <1>3, <1>4

\* A step that leaves the counters alone, but for what it has to do or has done.
LEMMA OneByOne ==
  ASSUME OneByOneInv, Forms!ConsentFormsAssumption, NEW w \in Workers, WorkerStep(w), NEW l, NEW r,
         Goes(w, l, r),
         ~fRaced' =>
           /\ \A k \in Forms!Keys : fConfirmed'[k] <= fUses'[k]
           /\ l \in Counting => \A k \in Forms!CustomKeys(r.fields) :
                                  (\E f \in r.todo : f.key = k) \/ fConfirmed'[k] < fUses'[k]
           /\ l = "count_save" => r.count = fUses'[r.key]
           /\ l = "saved" => \A k \in Forms!CustomKeys(r.fields) : fConfirmed'[k] < fUses'[k]
  PROVE  CountedOneByOne'
<1> SUFFICES ASSUME ~fRaced' PROVE CountedOneByOne'
  BY DEF CountedOneByOne
<1>1. \A v \in Workers : v # w => fPc[v] = "idle" /\ fPc'[v] = "idle"
  BY StaysAlone
<1>2. fPc'[w] = l /\ fReq'[w] = r
  BY Moves DEF Goes, OneByOneInv
<1>3. \A v, u \in Workers : fPc'[v] # "idle" /\ fPc'[u] # "idle" => v = u
  BY <1>1
<1>4. \A v \in Workers :
         /\ fPc'[v] \in Counting =>
              \A k \in Forms!CustomKeys(fReq'[v].fields) :
                (\E f \in fReq'[v].todo : f.key = k) \/ fConfirmed'[k] < fUses'[k]
         /\ fPc'[v] = "count_save" => fReq'[v].count = fUses'[fReq'[v].key]
         /\ fPc'[v] = "saved" => \A k \in Forms!CustomKeys(fReq'[v].fields) : fConfirmed'[k] < fUses'[k]
  BY <1>1, <1>2 DEF Counting
<1> QED BY <1>3, <1>4 DEF CountedOneByOne, Forms!CustomKeys, Counting

\* The counters are as they were, and the request is not among those that count.
LEMMA NotCounting ==
  ASSUME OneByOneInv, Forms!ConsentFormsAssumption, NEW w \in Workers, WorkerStep(w), NEW l, NEW r,
         Goes(w, l, r),
         UNCHANGED <<fUses, fConfirmed>>, l \notin Counting \cup {"saved"}
  PROVE  CountedOneByOne'
<1>1. ~fRaced' => \A k \in Forms!Keys : fConfirmed'[k] <= fUses'[k]
  BY StaysAlone DEF OneByOneInv, CountedOneByOne
<1> QED BY <1>1, OneByOne DEF Counting

\* A field that is counted was counted up to the confirmed forms, and is now above.
LEMMA CountsOneByOne ==
  ASSUME OneByOneInv, Forms!ConsentFormsAssumption, NEW w \in Workers, WorkerStep(w),
         Forms!CountInsert(w) \/ Forms!CountSave(w), Forms!CountNext(w)
  PROVE  CountedOneByOne'
<1>0. fPc[w] \in {"count_insert", "count_save"}
  BY DEF Forms!CountInsert, Forms!CountSave, Forms!At
<1>1. PICK r : /\ Goes(w, "count", r)
               /\ r.fields = fReq[w].fields
               /\ {f.key : f \in r.todo} = {f.key : f \in fReq[w].todo} \ {fReq[w].key}
  BY <1>0, CountNextGoes DEF OneByOneInv
<1>2. PICK j \in Forms!Keys : j = fReq[w].key /\ fReq[w].count \in Nat /\ \E f \in fReq[w].todo : f.key = j
  <2>1. fReq[w] \in FormRequest /\ Carries(fPc[w], fReq[w])
    BY DEF OneByOneInv, FormTypes, RequestsOK
  <2>2. PICK f \in fReq[w].todo : f.key = fReq[w].key
    BY <1>0, <2>1 DEF Carries
  <2>3. f.key \in Forms!Keys /\ fReq[w].count \in Nat
    BY <2>1, <2>2 DEF FormRequest, Forms!Keys
  <2> QED BY <2>2, <2>3
<1>3. /\ fUses \in [Forms!Keys -> Nat] /\ fConfirmed \in [Forms!Keys -> Nat] /\ fConfirmed' = fConfirmed
      /\ \A k \in Forms!Keys : k # j => fUses'[k] = fUses[k]
      /\ \/ fUses'[j] = 1 /\ fUses[j] = 0
         \/ fUses'[j] = fReq[w].count + 1 /\ fPc[w] = "count_save"
  <2>1. fUses \in [Forms!Keys -> Nat] /\ fConfirmed \in [Forms!Keys -> Nat]
    BY DEF OneByOneInv, FormTypes, RowsOK
  <2>2. CASE Forms!CountSave(w)
    BY <1>2, <2>1, <2>2 DEF Forms!CountSave, Forms!At, Forms!counts
  <2>3. CASE Forms!CountInsert(w)
    <3>1. fPc'[w] = "count"
      BY <1>1, Moves DEF Goes, OneByOneInv
    <3>2. ~Forms!Goto(w, "refused")
      BY <3>1, GotoMoves, Moves DEF OneByOneInv
    <3> QED BY <1>2, <2>1, <2>3, <3>2 DEF Forms!CountInsert, Forms!counts
  <2> QED BY <2>2, <2>3
<1>4. ASSUME ~fRaced'
      PROVE  /\ \A k \in Forms!Keys : fConfirmed'[k] <= fUses'[k]
             /\ \A k \in Forms!CustomKeys(r.fields) : (\E f \in r.todo : f.key = k) \/ fConfirmed'[k] < fUses'[k]
  <2>1. /\ \A k \in Forms!Keys : fConfirmed[k] <= fUses[k]
        /\ \A k \in Forms!CustomKeys(fReq[w].fields) :
             (\E f \in fReq[w].todo : f.key = k) \/ fConfirmed[k] < fUses[k]
        /\ fPc[w] = "count_save" => fReq[w].count = fUses[j]
    BY <1>0, <1>2, <1>4, StaysAlone DEF OneByOneInv, CountedOneByOne, Counting
  <2>2. fUses'[j] = fUses[j] + 1
    BY <1>2, <1>3, <2>1
  <2>3. fConfirmed'[j] < fUses'[j]
    BY <1>3, <2>1, <2>2
  <2>4. \A k \in Forms!CustomKeys(r.fields) : k # j => (\E f \in r.todo : f.key = k) \/ fConfirmed'[k] < fUses'[k]
    <3>1. TAKE k \in Forms!CustomKeys(r.fields)
    <3>2. k \in Forms!Keys
      BY <1>1 DEF Forms!CustomKeys, Goes, FormRequest, Forms!Keys
    <3>3. (\E f \in fReq[w].todo : f.key = k) => k = j \/ \E f \in r.todo : f.key = k
      BY <1>1, <1>2
    <3>4. k # j => fUses'[k] = fUses[k] /\ fConfirmed'[k] = fConfirmed[k]
      BY <1>3, <3>2
    <3>5. (\E f \in fReq[w].todo : f.key = k) \/ fConfirmed[k] < fUses[k]
      BY <1>1, <2>1
    <3> QED BY <3>3, <3>4, <3>5
  <2> QED BY <1>3, <2>1, <2>2, <2>3, <2>4
<1> QED BY <1>1, <1>4, OneByOne

LEMMA NextCountsOneByOne ==
  ASSUME OneByOneInv, Forms!ConsentFormsAssumption, [Forms!Next]_(Forms!vars)
  PROVE  CountedOneByOne'
<1>1. CASE UNCHANGED Forms!vars
  BY <1>1
     DEF OneByOneInv, CountedOneByOne, Forms!vars, Forms!tables, Forms!counts, Forms!workers,
         Forms!CustomKeys
<1>2. ASSUME NEW w \in Workers, WorkerStep(w) PROVE CountedOneByOne'
  <2>1. fReq[w] \in FormRequest /\ Carries(fPc[w], fReq[w])
    BY DEF OneByOneInv, FormTypes, RequestsOK
  <2>2. CASE Forms!Reply(w) /\ Forms!OnlyRead
    BY <1>2, <2>2, ReplyGoes, NotCounting DEF Forms!OnlyRead, Forms!tables, Forms!counts, Counting
  <2>3. CASE Forms!SubmitConsent(w) \/ Forms!PutTemplate(w)
    <3>1. PICK l, r : Goes(w, l, r)
      BY <2>3, BeginsGo DEF OneByOneInv
    <3>2. fPc'[w] = l /\ fPc'[w] \in {"consent_template", "template_lookup"}
      <4>1. ASSUME NEW m, NEW s, Forms!Step(w, m, s) PROVE fPc'[w] = m
        BY <4>1, Moves DEF OneByOneInv
      <4> QED BY <2>3, <3>1, <4>1
                 DEF Goes, Forms!SubmitConsent, Forms!PutTemplate, Forms!Begin, Forms!Start
    <3>3. UNCHANGED <<fUses, fConfirmed>>
      BY <2>3 DEF Forms!SubmitConsent, Forms!PutTemplate, Forms!Begin, Forms!tables, Forms!counts
    <3> QED BY <1>2, <3>1, <3>2, <3>3, NotCounting DEF Counting
  <2>4. CASE Forms!ConsentTemplate(w) \/ Forms!ConsentLookup(w) \/ Forms!ConsentInsert(w) \/ Forms!ConsentSave(w)
    <3>1. PICK l, r : Goes(w, l, r)
      BY <2>4, SubmissionsGo DEF OneByOneInv
    <3>2. fPc'[w] = l /\ fPc'[w] \in {"idle"} \cup Submitting
      <4>1. ASSUME NEW m, NEW s, Forms!Step(w, m, s) PROVE fPc'[w] = m
        BY <4>1, Moves DEF OneByOneInv
      <4>2. ASSUME NEW m, Forms!Goto(w, m) PROVE fPc'[w] = m
        BY <4>1, <4>2, GotoMoves DEF OneByOneInv
      <4> QED BY <2>4, <3>1, <4>1, <4>2
              DEF Goes, Forms!ConsentTemplate, Forms!ConsentLookup, Forms!ConsentInsert,
                   Forms!ConsentSave, Forms!Reply, Submitting
    <3>3. UNCHANGED <<fUses, fConfirmed>>
      BY <2>4
         DEF Forms!ConsentTemplate, Forms!ConsentLookup, Forms!ConsentInsert, Forms!ConsentSave,
             Forms!OnlyRead, Forms!tables, Forms!counts
    <3> QED BY <1>2, <3>1, <3>2, <3>3, NotCounting DEF Counting, Submitting
  <2>5. CASE Forms!TemplateLookup(w)
    <3>1. PICK l \in {"template_insert", "template_save"} : Forms!Goto(w, l)
      BY <2>5 DEF Forms!TemplateLookup
    <3>2. Carries(l, fReq[w]) /\ ~Forms!Idle(w) /\ l \in Forms!Labels
      BY <2>1, <2>5, <3>1
         DEF Forms!TemplateLookup, Forms!At, Forms!Idle, Forms!Labels, Carries, Submitting, Saving,
             Counting
    <3>3. Goes(w, l, fReq[w])
      BY <3>1, <3>2, GotoGoes DEF OneByOneInv
    <3>4. UNCHANGED <<fUses, fConfirmed>>
      BY <2>5 DEF Forms!TemplateLookup, Forms!OnlyRead, Forms!tables, Forms!counts
    <3> QED BY <1>2, <3>1, <3>3, <3>4, NotCounting DEF Counting
  <2>6. CASE (Forms!TemplateInsert(w) \/ Forms!TemplateSave(w)) /\ Forms!TemplateWritten(w)
    <3>1. PICK r : /\ Goes(w, "count", r)
                   /\ r.fields = fReq[w].fields /\ r.todo = {f \in fReq[w].fields : f.custom}
      BY <2>6, WrittenGoes DEF OneByOneInv, Forms!TemplateInsert, Forms!TemplateSave, Forms!At
    <3>2. UNCHANGED <<fUses, fConfirmed>>
      BY <2>6 DEF Forms!TemplateWritten
    <3>3. \A k \in Forms!CustomKeys(r.fields) : \E f \in r.todo : f.key = k
      BY <3>1 DEF Forms!CustomKeys
    <3>4. ~fRaced' => \A k \in Forms!Keys : fConfirmed'[k] <= fUses'[k]
      BY <1>2, <3>2, StaysAlone DEF OneByOneInv, CountedOneByOne
    <3> QED BY <1>2, <3>1, <3>3, <3>4, OneByOne
  <2>7. CASE Forms!CountRead(w)
    <3>1. UNCHANGED <<fUses, fConfirmed>> /\ fPc[w] = "count"
      BY <2>7 DEF Forms!CountRead, Forms!At, Forms!OnlyRead, Forms!tables, Forms!counts
    <3>2. ~fRaced' =>
            /\ \A k \in Forms!Keys : fConfirmed'[k] <= fUses'[k]
            /\ \A k \in Forms!CustomKeys(fReq[w].fields) :
                 (\E f \in fReq[w].todo : f.key = k) \/ fConfirmed'[k] < fUses'[k]
      BY <1>2, <3>1, StaysAlone DEF OneByOneInv, CountedOneByOne, Counting
    <3>3. CASE fReq[w].todo = {} /\ Forms!Goto(w, "saved")
      <4>1. Carries("saved", fReq[w]) /\ ~Forms!Idle(w)
        BY <2>1, <3>1 DEF Forms!Idle, Carries, Submitting, Saving, Counting
      <4>2. Goes(w, "saved", fReq[w])
        BY <3>3, <4>1, GotoGoes DEF OneByOneInv, Forms!Labels
      <4> QED BY <1>2, <3>2, <3>3, <4>2, OneByOne DEF Counting
    <3>4. CASE \E f \in fReq[w].todo :
                 Forms!Step(w, IF fUses[f.key] = 0 THEN "count_insert" ELSE "count_save",
                      [fReq[w] EXCEPT !.key = f.key, !.count = fUses[f.key]])
      <4>1. PICK f \in fReq[w].todo, l \in {"count_insert", "count_save"} :
              Forms!Step(w, l, [fReq[w] EXCEPT !.key = f.key, !.count = fUses[f.key]])
        BY <3>4
      <4>2. f.key \in Forms!Keys /\ fUses[f.key] \in Nat
        BY <2>1, <4>1 DEF FormRequest, Forms!Keys, OneByOneInv, FormTypes, RowsOK
      <4>3. PICK r : r = [fReq[w] EXCEPT !.key = f.key, !.count = fUses[f.key]]
        OBVIOUS
      <4>4. /\ r \in FormRequest /\ r.event = fReq[w].event /\ r.user = fReq[w].user
            /\ r.form = fReq[w].form /\ r.fields = fReq[w].fields
            /\ r.todo = fReq[w].todo /\ r.key = f.key /\ r.count = fUses[f.key]
        BY <2>1, <4>2, <4>3 DEF FormRequest
      <4>5. Carries(l, r)
        BY <2>1, <3>1, <4>1, <4>4 DEF Carries, Submitting, Saving, Counting
      <4>6. Goes(w, l, r)
        BY <4>1, <4>3, <4>4, <4>5 DEF Goes, Forms!Labels
      <4> QED BY <1>2, <3>1, <3>2, <4>1, <4>4, <4>6, OneByOne
    <3> QED BY <2>7, <3>3, <3>4 DEF Forms!CountRead
  <2>8. CASE (Forms!CountInsert(w) \/ Forms!CountSave(w)) /\ Forms!CountNext(w)
    BY <1>2, <2>8, CountsOneByOne
  <2>9. CASE Forms!CountInsert(w) /\ Forms!Goto(w, "refused") /\ UNCHANGED fUses
    <3>1. Carries("refused", fReq[w]) /\ ~Forms!Idle(w)
      BY <2>1, <2>9
         DEF Forms!CountInsert, Forms!At, Forms!Idle, Carries, Submitting, Saving, Counting
    <3>2. Goes(w, "refused", fReq[w])
      BY <2>9, <3>1, GotoGoes DEF OneByOneInv, Forms!Labels
    <3> QED BY <1>2, <2>9, <3>2, NotCounting DEF Forms!CountInsert, Forms!counts, Counting
  <2>10. CASE Forms!Saved(w)
    <3>1. Goes(w, "idle", Forms!NoRequest)
      BY <2>10, ReplyGoes DEF Forms!Saved
    <3>2. /\ \A k \in Forms!Keys : fConfirmed'[k] = IF k \in Forms!CustomKeys(fReq[w].fields) THEN fConfirmed[k] + 1
                                             ELSE fConfirmed[k]
          /\ fUses' = fUses
      BY <2>10, CountedType DEF Forms!Saved, OneByOneInv, FormTypes, RowsOK, Forms!tables
    <3>3. fUses \in [Forms!Keys -> Nat] /\ fConfirmed \in [Forms!Keys -> Nat]
      BY DEF OneByOneInv, FormTypes, RowsOK
    <3>4. ~fRaced' => \A k \in Forms!Keys : /\ fConfirmed[k] <= fUses[k]
                                            /\ k \in Forms!CustomKeys(fReq[w].fields) => fConfirmed[k] < fUses[k]
      BY <1>2, <2>10, StaysAlone DEF Forms!Saved, Forms!At, OneByOneInv, CountedOneByOne
    <3>5. ~fRaced' => \A k \in Forms!Keys : fConfirmed'[k] <= fUses'[k]
      BY <3>2, <3>3, <3>4
    <3> QED BY <1>2, <3>1, <3>5, OneByOne DEF Counting
  <2> QED BY <1>2, <2>2, <2>3, <2>4, <2>5, <2>6, <2>7, <2>8, <2>9, <2>10
          DEF WorkerStep, Forms!TemplateInsert, Forms!TemplateSave, Forms!CountInsert,
               Forms!CountSave, Forms!Refused, Forms!AbortRequest
<1> QED BY <1>1, <1>2 DEF Forms!Next, WorkerStep

LEMMA InitCountsOneByOne == ASSUME Forms!Init PROVE CountedOneByOne
BY DEF Forms!Init, CountedOneByOne, Counting

LEMMA FormCountersFit == ASSUME Forms!ConsentFormsAssumption PROVE Forms!Spec => []Forms!TypeOK
<1>1. Forms!Init => CountsInv
  BY FormsInitTypes, InitCounts DEF CountsInv
<1>2. CountsInv /\ [Forms!Next]_(Forms!vars) => CountsInv'
  BY FormsKeepTypes, NextKeepsCounts DEF CountsInv
<1>3. CountsInv => Forms!TypeOK
  BY TypesFollow
<1> QED BY <1>1, <1>2, <1>3, PTL DEF Forms!Spec

LEMMA ConfirmedCounts == ASSUME Forms!ConsentFormsAssumption PROVE Forms!Spec => []Forms!ConfirmedIsCounted
<1>1. Forms!Init => OneByOneInv
  BY FormsInitTypes, InitCountsOneByOne DEF OneByOneInv
<1>2. OneByOneInv /\ [Forms!Next]_(Forms!vars) => OneByOneInv'
  BY FormsKeepTypes, NextCountsOneByOne DEF OneByOneInv
<1>3. OneByOneInv => Forms!ConfirmedIsCounted
  BY DEF OneByOneInv, CountedOneByOne, Forms!ConfirmedIsCounted
<1> QED BY <1>1, <1>2, <1>3, PTL DEF Forms!Spec

-----------------------------------------------------------------------------
(* Keys of consent forms                                                   *)

\* The well-founded order of finite sets gives a least number of every set.
LEMMA LeastNatural ==
  ASSUME NEW T \in SUBSET Nat, T # {}
  PROVE  \E n \in T : \A m \in T : n <= m
<1> DEFINE below == {0..(n - 1) : n \in T}
           order == StrictSubsetOrdering(Nat)
<1>1. below \subseteq FiniteSubsetsOf(Nat)
  <2> SUFFICES ASSUME NEW n \in T PROVE 0..(n - 1) \in FiniteSubsetsOf(Nat)
    OBVIOUS
  <2>1. n \in Nat /\ 0 \in Int /\ n - 1 \in Int
    OBVIOUS
  <2>2. IsFiniteSet(0..(n - 1))
    BY <2>1, FS_Interval
  <2>3. 0..(n - 1) \in SUBSET Nat
    BY <2>1
  <2> QED BY <2>2, <2>3 DEF FiniteSubsetsOf
<1>2. below # {}
  OBVIOUS
<1>3. IsWellFoundedOn(order, FiniteSubsetsOf(Nat))
  BY FS_StrictSubsetOrderingWellFounded
<1> HIDE DEF below, order
<1>4. PICK x \in below : \A y \in below : ~(<<y, x>> \in order)
  BY <1>1, <1>2, <1>3, WFMin
<1> USE DEF below, order
<1>5. PICK n \in T : x = 0..(n - 1)
  BY <1>4
<1>6. ASSUME NEW m \in T, m < n PROVE FALSE
  <2>1. 0..(m - 1) \in below /\ <<0..(m - 1), x>> \notin order
    BY <1>4
  <2>2. m \in Nat /\ n \in Nat
    OBVIOUS
  <2>3. 0..(m - 1) \subseteq 0..(n - 1) /\ 0..(m - 1) \subseteq Nat /\ 0..(n - 1) \subseteq Nat
    BY <1>6, <2>2
  <2>4. m \in 0..(n - 1) /\ m \notin 0..(m - 1)
    BY <1>6, <2>2
  <2> QED BY <1>5, <2>1, <2>3, <2>4 DEF StrictSubsetOrdering
<1> QED BY <1>6

LEMMA GreatestBelow ==
  ASSUME NEW n \in Nat, NEW T, T \subseteq 1..n, T # {}
  PROVE  \E b \in T : \A m \in T : b >= m
<1> DEFINE R == {n - m : m \in T}
<1>1. R \subseteq Nat /\ R # {}
  OBVIOUS
<1>2. PICK r \in R : \A q \in R : r <= q
  BY <1>1, LeastNatural
<1>3. PICK b \in T : r = n - b
  OBVIOUS
<1>4. ASSUME NEW m \in T PROVE b >= m
  <2>1. n - m \in R /\ n - b <= n - m
    BY <1>2, <1>3
  <2>2. b \in Int /\ m \in Int
    OBVIOUS
  <2> QED BY <2>1, <2>2
<1> QED BY <1>4

LEMMA KeyChars ==
  ASSUME FormKeys!ConsentKeysAssumption
  PROVE  /\ FormKeys!Underscore \in FormKeys!Plain /\ KeyCustom \in FormKeys!Plain
         /\ FormKeys!Blank \notin FormKeys!Plain /\ KeyCustom # FormKeys!Underscore
         /\ KeyLetters \cup KeyPresets \subseteq FormKeys!Plain
         /\ FormKeys!Plain \subseteq FormKeys!Chars
BY DEF FormKeys!ConsentKeysAssumption, FormKeys!Plain, FormKeys!Chars, FormKeys!Underscore,
       FormKeys!Blank

\* Trim cuts a sequence at its first and its last character that is not in C.
LEMMA TrimIs ==
  ASSUME NEW S, NEW s \in Seq(S), NEW C
  PROVE  \/ FormKeys!Trim(s, C) = <<>> /\ \A i \in 1..Len(s) : s[i] \in C
         \/ \E a \in 1..Len(s), b \in 1..Len(s) :
              /\ a <= b /\ s[a] \notin C /\ s[b] \notin C
              /\ FormKeys!Trim(s, C) = SubSeq(s, a, b)
              /\ \A i \in 1..Len(s) : s[i] \notin C => a <= i /\ i <= b
<1> DEFINE in == {i \in DOMAIN s : s[i] \notin C}
<1>1. Len(s) \in Nat /\ DOMAIN s = 1..Len(s) /\ in \subseteq 1..Len(s) /\ in \subseteq Nat
  OBVIOUS
<1>2. CASE in = {}
  BY <1>1, <1>2 DEF FormKeys!Trim
<1>3. CASE in # {}
  <2> DEFINE a == CHOOSE i \in in : \A j \in in : i <= j
             b == CHOOSE i \in in : \A j \in in : i >= j
  <2>1. \E i \in in : \A j \in in : i <= j
    BY <1>1, <1>3, LeastNatural
  <2>2. \E i \in in : \A j \in in : i >= j
    BY <1>1, <1>3, GreatestBelow
  <2>3. a \in in /\ \A j \in in : a <= j
    BY <2>1
  <2>4. b \in in /\ \A j \in in : b >= j
    BY <2>2
  <2>5. FormKeys!Trim(s, C) = SubSeq(s, a, b)
    BY <1>3 DEF FormKeys!Trim
  <2> HIDE DEF a, b
  <2>6. a \in 1..Len(s) /\ b \in 1..Len(s) /\ a <= b /\ s[a] \notin C /\ s[b] \notin C
    BY <1>1, <2>3, <2>4
  <2>7. \A i \in 1..Len(s) : s[i] \notin C => a <= i /\ i <= b
    BY <1>1, <2>3, <2>4, <2>6
  <2> QED BY <2>5, <2>6, <2>7
<1> QED BY <1>2, <1>3

LEMMA TrimResult ==
  ASSUME NEW S, NEW s \in Seq(S), NEW C, NEW t, t = FormKeys!Trim(s, C)
  PROVE  /\ t \in Seq(S)
         /\ t # <<>> => Len(t) >= 1 /\ t[1] \notin C /\ t[Len(t)] \notin C
<1>1. CASE t = <<>>
  BY <1>1
<1>2. CASE \E a \in 1..Len(s), b \in 1..Len(s) :
             a <= b /\ s[a] \notin C /\ s[b] \notin C /\ t = SubSeq(s, a, b)
  <2>1. PICK a \in 1..Len(s), b \in 1..Len(s) :
               a <= b /\ s[a] \notin C /\ s[b] \notin C /\ t = SubSeq(s, a, b)
    BY <1>2
  <2>2. a \in Int /\ b \in Int /\ \A i \in a..b : s[i] \in S
    OBVIOUS
  <2>3. /\ t \in Seq(S) /\ Len(t) = b - a + 1
        /\ \A i \in 1..(b - a + 1) : t[i] = s[a + i - 1]
    BY <2>1, <2>2, SubSeqProperties
  <2>4. t[1] = s[a] /\ t[Len(t)] = s[b]
    BY <2>1, <2>2, <2>3
  <2> QED BY <2>1, <2>2, <2>3, <2>4
<1> QED BY <1>1, <1>2, TrimIs

\* What begins and ends with a character that stays is not changed.
LEMMA TrimSettled ==
  ASSUME NEW S, NEW s \in Seq(S), NEW C, s = <<>> \/ (s[1] \notin C /\ s[Len(s)] \notin C)
  PROVE  FormKeys!Trim(s, C) = s
<1>1. CASE s = <<>>
  <2>1. 1..Len(s) = {} /\ DOMAIN s = {}
    BY <1>1
  <2> QED BY <1>1, <2>1 DEF FormKeys!Trim
<1>2. CASE s # <<>>
  <2>1. Len(s) \in Nat /\ 1 \in 1..Len(s) /\ Len(s) \in 1..Len(s)
    BY <1>2, EmptySeq
  <2>2. PICK a \in 1..Len(s), b \in 1..Len(s) :
          /\ FormKeys!Trim(s, C) = SubSeq(s, a, b)
          /\ \A i \in 1..Len(s) : s[i] \notin C => a <= i /\ i <= b
    BY <1>2, <2>1, TrimIs
  <2>3. a = 1 /\ b = Len(s)
    BY <1>2, <2>1, <2>2
  <2> QED BY <2>2, <2>3, SubSeqFull
<1> QED BY <1>1, <1>2

\* The first character stays if it is not in C.
LEMMA TrimEnd ==
  ASSUME NEW S, NEW s \in Seq(S), NEW C, s # <<>>, s[1] \notin C
  PROVE  \E b \in 1..Len(s) : FormKeys!Trim(s, C) = SubSeq(s, 1, b) /\ s[b] \notin C
<1>1. Len(s) \in Nat /\ 1 \in 1..Len(s)
  BY EmptySeq
<1>2. PICK a \in 1..Len(s), b \in 1..Len(s) :
        /\ FormKeys!Trim(s, C) = SubSeq(s, a, b) /\ s[b] \notin C
        /\ \A i \in 1..Len(s) : s[i] \notin C => a <= i /\ i <= b
  BY <1>1, TrimIs
<1>3. a = 1
  BY <1>1, <1>2
<1> QED BY <1>2, <1>3

LEMMA TrimAgain ==
  ASSUME NEW S, NEW s \in Seq(S), NEW C
  PROVE  FormKeys!Trim(FormKeys!Trim(s, C), C) = FormKeys!Trim(s, C)
<1> DEFINE t == FormKeys!Trim(s, C)
<1>1. t \in Seq(S) /\ (t # <<>> => t[1] \notin C /\ t[Len(t)] \notin C)
  BY TrimResult
<1>2. t = <<>> \/ (t[1] \notin C /\ t[Len(t)] \notin C)
  BY <1>1
<1> HIDE DEF t
<1>3. FormKeys!Trim(t, C) = t
  BY <1>1, <1>2, TrimSettled
<1> QED BY <1>3 DEF t

-----------------------------------------------------------------------------
LEMMA SameCardinality == \A S : FormKeys!Cardinality(S) = Cardinality(S)
BY DEF FormKeys!Cardinality, Cardinality

LEMMA SpanSize == \A n \in Nat : FormKeys!Cardinality(1..n) = n
<1> SUFFICES ASSUME NEW n \in Nat PROVE Cardinality(1..n) = n
  BY SameCardinality
<1>1. 1 \in Int /\ n \in Int
  OBVIOUS
<1>2. Cardinality(1..n) = IF 1 > n THEN 0 ELSE n - 1 + 1
  BY <1>1, FS_Interval
<1> QED BY <1>2

\* Only a-z, 0-9 and _ are left.
LEMMA SanitizePlain ==
  ASSUME NEW S, NEW s \in Seq(S)
  PROVE  FormKeys!Sanitize(s) \in Seq(FormKeys!Plain)
<1> DEFINE heads == {i \in DOMAIN s : s[i] \in FormKeys!Plain \/ i = 1 \/ s[i - 1] \in FormKeys!Plain}
           nth(j) == CHOOSE i \in heads : FormKeys!Cardinality({h \in heads : h <= i}) = j
           n == FormKeys!Cardinality(heads)
           char(j) == IF s[nth(j)] \in FormKeys!Plain THEN s[nth(j)] ELSE FormKeys!Underscore
<1>1. DOMAIN s = 1..Len(s) /\ IsFiniteSet(1..Len(s))
  BY FS_Interval
<1>2. n \in Nat
  <2>1. heads \in SUBSET (1..Len(s))
    BY <1>1
  <2>2. IsFiniteSet(heads)
    BY <1>1, <2>1, FS_Subset
  <2> QED BY <2>2, FS_CardinalityType, SameCardinality
<1>3. FormKeys!Sanitize(s) = [j \in 1..n |-> char(j)]
  BY DEF FormKeys!Sanitize
<1>4. \A j \in 1..n : char(j) \in FormKeys!Plain
  BY DEF FormKeys!Plain
<1> HIDE DEF n, char
<1> QED BY <1>2, <1>3, <1>4

\* Such a text is not changed.
LEMMA SanitizeSettled ==
  ASSUME NEW s \in Seq(FormKeys!Plain)
  PROVE  FormKeys!Sanitize(s) = s
<1> DEFINE heads == {i \in DOMAIN s : s[i] \in FormKeys!Plain \/ i = 1 \/ s[i - 1] \in FormKeys!Plain}
           nth(j) == CHOOSE i \in heads : FormKeys!Cardinality({h \in heads : h <= i}) = j
           char(j) == IF s[nth(j)] \in FormKeys!Plain THEN s[nth(j)] ELSE FormKeys!Underscore
<1>1. DOMAIN s = 1..Len(s) /\ Len(s) \in Nat /\ \A i \in 1..Len(s) : s[i] \in FormKeys!Plain
  OBVIOUS
<1>2. heads = 1..Len(s)
  BY <1>1
<1>3. FormKeys!Cardinality(heads) = Len(s)
  BY <1>1, <1>2, SpanSize
<1>4. FormKeys!Sanitize(s) = [j \in 1..FormKeys!Cardinality(heads) |-> char(j)]
  BY DEF FormKeys!Sanitize
<1>5. ASSUME NEW i \in heads PROVE FormKeys!Cardinality({h \in heads : h <= i}) = i
  <2>1. {h \in heads : h <= i} = 1..i
    BY <1>1, <1>2
  <2>2. i \in Nat /\ i >= 1
    BY <1>1, <1>2
  <2> QED BY <2>1, <2>2, SpanSize
<1> HIDE DEF heads
<1>6. ASSUME NEW j \in 1..Len(s) PROVE nth(j) = j
  <2>1. j \in heads /\ FormKeys!Cardinality({h \in heads : h <= j}) = j
    BY <1>2, <1>5
  <2>2. nth(j) \in heads /\ FormKeys!Cardinality({h \in heads : h <= nth(j)}) = j
    BY <2>1
  <2> QED BY <1>5, <2>2
<1> HIDE DEF nth
<1>7. \A j \in 1..Len(s) : char(j) = s[j]
  BY <1>1, <1>6
<1> HIDE DEF char
<1>8. FormKeys!Sanitize(s) = [j \in 1..Len(s) |-> s[j]]
  BY <1>3, <1>4, <1>7
<1> QED BY <1>1, <1>8

-----------------------------------------------------------------------------
\* The keys of custom fields.
CustomOf(k) ==
  /\ k \in Seq(FormKeys!Plain)
  /\ Len(k) >= 2 /\ k[1] = KeyCustom /\ k[2] = FormKeys!Underscore

\* Something comes after the prefix, and no underscore is last.
SettledKey(k) == CustomOf(k) /\ Len(k) > 2 /\ k[Len(k)] # FormKeys!Underscore

LEMMA PrefixIs ==
  ASSUME NEW S, NEW k \in Seq(S)
  PROVE  FormKeys!IsPrefix(FormKeys!Prefix, k) <=>
           Len(k) >= 2 /\ k[1] = KeyCustom /\ k[2] = FormKeys!Underscore
<1> DEFINE p == FormKeys!Prefix
           T == {KeyCustom, FormKeys!Underscore}
<1>1. p \in Seq(T) /\ Len(p) = 2 /\ p[1] = KeyCustom /\ p[2] = FormKeys!Underscore
  BY DEF FormKeys!Prefix
<1>2. SubSeq(p, 1, 2) = p
  BY <1>1, SubSeqFull
<1> HIDE DEF p, T
<1>3. Len(k) \in Nat
  OBVIOUS
<1>4. CASE Len(k) >= 2
  <2>1. \A i \in 1..2 : k[i] \in S
    BY <1>3, <1>4
  <2>2. /\ SubSeq(k, 1, 2) \in Seq(S) /\ Len(SubSeq(k, 1, 2)) = 2
        /\ \A i \in 1..2 : SubSeq(k, 1, 2)[i] = k[i]
    BY <2>1, SubSeqProperties
  <2>3. SubSeq(k, 1, 2)[1] = k[1] /\ SubSeq(k, 1, 2)[2] = k[2]
    BY <2>2
  <2>4. ASSUME k[1] = KeyCustom, k[2] = FormKeys!Underscore PROVE SubSeq(k, 1, 2) = p
    <3>1. \A i \in 1..2 : SubSeq(k, 1, 2)[i] = p[i]
      BY <1>1, <2>3, <2>4
    <3>2. SubSeq(k, 1, 2) \in Seq(S \cup T) /\ p \in Seq(S \cup T)
      BY <1>1, <2>2, SeqMonotonic
    <3> QED BY <1>1, <2>2, <3>1, <3>2, SeqEqual
  <2>5. FormKeys!IsPrefix(p, k) <=> p = SubSeq(k, 1, 2)
    BY <1>1, <1>2, <1>4 DEF FormKeys!IsPrefix
  <2> QED BY <1>1, <1>4, <2>3, <2>4, <2>5 DEF p
<1>5. CASE ~(Len(k) >= 2)
  BY <1>1, <1>5 DEF FormKeys!IsPrefix, p
<1> QED BY <1>4, <1>5

LEMMA PrefixedIs ==
  ASSUME FormKeys!ConsentKeysAssumption, NEW u \in Seq(FormKeys!Plain),
         NEW k, k = FormKeys!Prefix \o u
  PROVE  /\ CustomOf(k) /\ Len(k) = 2 + Len(u)
         /\ u # <<>> => Len(k) > 2 /\ k[Len(k)] = u[Len(u)]
<1> DEFINE p == FormKeys!Prefix
<1>1. p \in Seq(FormKeys!Plain) /\ Len(p) = 2
  BY KeyChars DEF FormKeys!Prefix
<1>2. p[1] = KeyCustom /\ p[2] = FormKeys!Underscore
  BY DEF FormKeys!Prefix
<1>3. /\ k \in Seq(FormKeys!Plain) /\ Len(k) = 2 + Len(u) /\ Len(u) \in Nat
      /\ \A i \in 1..(2 + Len(u)) : k[i] = IF i <= 2 THEN p[i] ELSE u[i - 2]
  <2>1. k = p \o u
    OBVIOUS
  <2> HIDE DEF p
  <2>2. Len(u) \in Nat
    OBVIOUS
  <2>3. p \o u \in Seq(FormKeys!Plain) /\ Len(p \o u) = Len(p) + Len(u)
    BY <1>1, ConcatProperties
  <2>4. k \in Seq(FormKeys!Plain) /\ Len(k) = Len(p) + Len(u)
    BY <2>1, <2>3
  <2>5. \A i \in 1..(Len(p) + Len(u)) : (p \o u)[i] = IF i <= Len(p) THEN p[i] ELSE u[i - Len(p)]
    BY <1>1, ConcatProperties
  <2> QED BY <1>1, <2>1, <2>2, <2>4, <2>5
<1>4. k[1] = KeyCustom /\ k[2] = FormKeys!Underscore
  BY <1>2, <1>3
<1>5. u # <<>> => Len(u) >= 1
  BY EmptySeq
<1>6. u # <<>> => k[Len(k)] = u[Len(u)]
  BY <1>3, <1>5
<1> QED BY <1>3, <1>4, <1>5, <1>6 DEF CustomOf

\* The key that is made of a label has something after the prefix.
LEMMA SlugIs ==
  ASSUME FormKeys!ConsentKeysAssumption, NEW label \in Seq(FormKeys!Chars),
         NEW k, k = FormKeys!SlugConsentFieldKey(label)
  PROVE  CustomOf(k) /\ Len(k) > 2
<1> DEFINE text == FormKeys!Trim(label, {FormKeys!Blank})
           joined == [i \in DOMAIN text |-> IF text[i] = FormKeys!Blank THEN FormKeys!Underscore ELSE text[i]]
           slug == FormKeys!Trim(FormKeys!Sanitize(joined), {FormKeys!Underscore})
           u == IF slug = <<>> THEN <<CHOOSE l \in KeyLetters : TRUE>>
                ELSE SubSeq(slug, 1, IF Len(slug) > KeyCut THEN KeyCut ELSE Len(slug))
<1>1. text \in Seq(FormKeys!Chars)
  BY TrimResult
<1>2. joined \in Seq(FormKeys!Chars)
  <2>1. FormKeys!Underscore \in FormKeys!Chars
    BY KeyChars
  <2>2. PICK t \in Seq(FormKeys!Chars) : t = text
    BY <1>1
  <2>3. [i \in DOMAIN t |-> IF t[i] = FormKeys!Blank THEN FormKeys!Underscore ELSE t[i]]
          \in Seq(FormKeys!Chars)
    BY <2>1
  <2> QED BY <2>2, <2>3
<1> HIDE DEF joined
<1>3. FormKeys!Sanitize(joined) \in Seq(FormKeys!Plain)
  BY <1>2, SanitizePlain
<1>4. slug \in Seq(FormKeys!Plain)
  BY <1>3, TrimResult
<1>5. k = FormKeys!Prefix \o u
  BY DEF FormKeys!SlugConsentFieldKey, joined
<1> HIDE DEF slug
<1>6. u \in Seq(FormKeys!Plain) /\ u # <<>>
  <2>1. CASE slug = <<>>
    <3>1. PICK l : l = CHOOSE x \in KeyLetters : TRUE
      OBVIOUS
    <3>2. l \in FormKeys!Plain
      BY <3>1, KeyChars DEF FormKeys!ConsentKeysAssumption
    <3> QED BY <2>1, <3>1, <3>2
  <2>2. CASE slug # <<>>
    <3>1. Len(slug) \in Nat \ {0} /\ KeyCut \in Nat \ {0}
      BY <1>4, <2>2, EmptySeq DEF FormKeys!ConsentKeysAssumption
    <3>2. PICK n : n = IF Len(slug) > KeyCut THEN KeyCut ELSE Len(slug)
      OBVIOUS
    <3>3. n \in 1..Len(slug)
      BY <3>1, <3>2
    <3>4. SubSeq(slug, 1, n) \in Seq(FormKeys!Plain) /\ Len(SubSeq(slug, 1, n)) = n
      BY <1>4, <3>1, <3>3, SubSeqProperties
    <3>5. SubSeq(slug, 1, n) # <<>>
      BY <3>3, <3>4, EmptySeq
    <3> QED BY <2>2, <3>2, <3>4, <3>5
  <2> QED BY <2>1, <2>2
<1> HIDE DEF u
<1> QED BY <1>5, <1>6, PrefixedIs

-----------------------------------------------------------------------------
\* A custom field gets the key of its label if it has none of its own.
LEMMA NoKeyIs ==
  ASSUME NEW key, NEW label, FormKeys!Trim(key, {FormKeys!Blank}) = <<>>
  PROVE  FormKeys!CustomKey(key, label) = FormKeys!SlugConsentFieldKey(label)
BY DEF FormKeys!CustomKey

\* What remains of a key that was sent.
Remains(key) ==
  FormKeys!Trim(FormKeys!Sanitize(FormKeys!Trim(key, {FormKeys!Blank})), {FormKeys!Underscore})

\* Else it keeps what remains of that one, with the prefix put before it if it is not there.
LEMMA SentKeyIs ==
  ASSUME FormKeys!ConsentKeysAssumption, NEW key \in Seq(FormKeys!Chars), NEW label,
         FormKeys!Trim(key, {FormKeys!Blank}) # <<>>
  PROVE  LET sent == Remains(key)
             k == FormKeys!CustomKey(key, label)
         IN  /\ sent \in Seq(FormKeys!Plain)
             /\ sent # <<>> => Len(sent) >= 1 /\ sent[Len(sent)] # FormKeys!Underscore
             /\ IF CustomOf(sent) THEN k = sent ELSE k = FormKeys!Prefix \o sent
             /\ CustomOf(k)
<1> DEFINE sent == Remains(key)
           k == FormKeys!CustomKey(key, label)
           text == FormKeys!Trim(key, {FormKeys!Blank})
           clean == FormKeys!Sanitize(text)
<1>1. text \in Seq(FormKeys!Chars)
  BY TrimResult
<1>2. clean \in Seq(FormKeys!Plain)
  BY <1>1, SanitizePlain
<1>3. sent = FormKeys!Trim(clean, {FormKeys!Underscore})
  BY DEF Remains
<1>4. k = IF FormKeys!IsPrefix(FormKeys!Prefix, sent) THEN sent ELSE FormKeys!Prefix \o sent
  BY DEF FormKeys!CustomKey, Remains
<1> HIDE DEF clean, sent, k
<1>5. /\ sent \in Seq(FormKeys!Plain)
      /\ sent # <<>> => Len(sent) >= 1 /\ sent[Len(sent)] \notin {FormKeys!Underscore}
  BY <1>2, <1>3, TrimResult
<1>6. FormKeys!IsPrefix(FormKeys!Prefix, sent) <=> CustomOf(sent)
  BY <1>5, PrefixIs DEF CustomOf
<1>7. CustomOf(FormKeys!Prefix \o sent)
  BY <1>5, PrefixedIs
<1>8. /\ IF CustomOf(sent) THEN k = sent ELSE k = FormKeys!Prefix \o sent
      /\ CustomOf(k)
  BY <1>4, <1>6, <1>7
<1> QED BY <1>5, <1>8 DEF sent, k

LEMMA ShortKeyIs ==
  ASSUME NEW k, CustomOf(k), Len(k) <= 2
  PROVE  k = FormKeys!Prefix
<1>1. k \in Seq(FormKeys!Plain)
  BY DEF CustomOf
<1>2. PICK n \in Nat : n = Len(k)
  BY <1>1
<1>3. n >= 2 /\ n <= 2 /\ k[1] = KeyCustom /\ k[2] = FormKeys!Underscore
  BY <1>2 DEF CustomOf
<1>4. Len(k) = 2
  BY <1>2, <1>3
<1> QED BY <1>1, <1>3, <1>4 DEF FormKeys!Prefix

\* A key with nothing but the prefix is none that a form is stored with.
LEMMA CustomKeyIs ==
  ASSUME FormKeys!ConsentKeysAssumption,
         NEW key \in Seq(FormKeys!Chars), NEW label \in Seq(FormKeys!Chars)
  PROVE  LET k == FormKeys!CustomKey(key, label)
         IN  CustomOf(k) /\ (k # FormKeys!Prefix => Len(k) > 2)
<1> DEFINE k == FormKeys!CustomKey(key, label)
<1>1. CustomOf(k)
  <2>1. CASE FormKeys!Trim(key, {FormKeys!Blank}) = <<>>
    BY <2>1, NoKeyIs, SlugIs
  <2>2. CASE FormKeys!Trim(key, {FormKeys!Blank}) # <<>>
    BY <2>2, SentKeyIs
  <2> QED BY <2>1, <2>2
<1> HIDE DEF k
<1>2. ASSUME k # FormKeys!Prefix PROVE Len(k) > 2
  <2>1. PICK n \in Nat : n = Len(k)
    BY <1>1 DEF CustomOf
  <2> QED BY <1>1, <1>2, <2>1, ShortKeyIs
<1> QED BY <1>1, <1>2 DEF k

\* A stored key that is sent back has nothing to lose but underscores at its end.
LEMMA StoredKeySettles ==
  ASSUME FormKeys!ConsentKeysAssumption, NEW key, CustomOf(key), NEW label
  PROVE  LET k == FormKeys!CustomKey(key, label)
         IN  SettledKey(k) /\ (SettledKey(key) => k = key)
<1> DEFINE k == FormKeys!CustomKey(key, label)
<1>1. /\ key \in Seq(FormKeys!Plain) /\ key \in Seq(FormKeys!Chars)
      /\ Len(key) \in Nat /\ Len(key) >= 2 /\ key # <<>>
  <2>1. key \in Seq(FormKeys!Plain) /\ Len(key) >= 2
    BY DEF CustomOf
  <2>2. key \in Seq(FormKeys!Chars)
    BY <2>1, KeyChars, SeqMonotonic
  <2> QED BY <2>1, <2>2, EmptySeq
<1>2. key[1] = KeyCustom /\ key[2] = FormKeys!Underscore
  BY DEF CustomOf
<1>3. FormKeys!Trim(key, {FormKeys!Blank}) = key
  <2>1. key[1] \in FormKeys!Plain /\ key[Len(key)] \in FormKeys!Plain
    BY <1>1
  <2>2. key[1] \notin {FormKeys!Blank} /\ key[Len(key)] \notin {FormKeys!Blank}
    BY <2>1, KeyChars
  <2> QED BY <1>1, <2>2, TrimSettled
<1>4. FormKeys!Sanitize(key) = key
  BY <1>1, SanitizeSettled
<1> DEFINE sent == FormKeys!Trim(key, {FormKeys!Underscore})
<1>5. PICK b \in 1..Len(key) : sent = SubSeq(key, 1, b) /\ key[b] # FormKeys!Underscore
  <2>1. key[1] \notin {FormKeys!Underscore}
    BY <1>2, KeyChars
  <2> QED BY <1>1, <2>1, TrimEnd
<1>6. /\ sent \in Seq(FormKeys!Plain)
      /\ sent # <<>> => Len(sent) >= 1 /\ sent[Len(sent)] # FormKeys!Underscore
      /\ IF CustomOf(sent) THEN k = sent ELSE k = FormKeys!Prefix \o sent
      /\ CustomOf(k)
  <2>1. FormKeys!Trim(key, {FormKeys!Blank}) # <<>> /\ sent = Remains(key)
    BY <1>1, <1>3, <1>4 DEF Remains
  <2> HIDE DEF sent
  <2> QED BY <1>1, <2>1, SentKeyIs
<1> HIDE DEF sent, k
<1>7. Len(sent) = b /\ \A i \in 1..b : sent[i] = key[i]
  <2>1. 1 \in Int /\ b \in Int /\ \A i \in 1..b : key[i] \in FormKeys!Plain
    BY <1>1
  <2>2. /\ Len(SubSeq(key, 1, b)) = IF 1 <= b THEN b - 1 + 1 ELSE 0
        /\ \A i \in 1..(b - 1 + 1) : SubSeq(key, 1, b)[i] = key[1 + i - 1]
    BY <2>1, SubSeqProperties
  <2>3. 1 <= b /\ b - 1 + 1 = b /\ \A i \in 1..b : 1 + i - 1 = i
    OBVIOUS
  <2> QED BY <1>5, <2>2, <2>3
<1>8. sent # <<>>
  BY <1>7
<1>9. SettledKey(k)
  <2>1. CASE CustomOf(sent)
    <3>1. k = sent /\ b # 2 /\ b >= 2
      BY <1>2, <1>5, <1>6, <1>7, <2>1 DEF CustomOf
    <3> QED BY <1>6, <1>7, <1>8, <3>1 DEF SettledKey
  <2>2. CASE ~CustomOf(sent)
    <3>1. k = FormKeys!Prefix \o sent
      BY <1>6, <2>2
    <3>2. Len(k) > 2 /\ k[Len(k)] = sent[Len(sent)]
      BY <1>6, <1>8, <3>1, PrefixedIs
    <3> QED BY <1>6, <1>8, <3>2 DEF SettledKey
  <2> QED BY <2>1, <2>2
<1>10. ASSUME SettledKey(key) PROVE k = key
  <2>1. key[1] \notin {FormKeys!Underscore} /\ key[Len(key)] \notin {FormKeys!Underscore}
    BY <1>2, <1>10, KeyChars DEF SettledKey
  <2>2. sent = key
    BY <1>1, <2>1, TrimSettled DEF sent
  <2> QED BY <1>6, <2>2
<1> QED BY <1>9, <1>10 DEF k

-----------------------------------------------------------------------------
\* The keys of presets are characters of their own.
PresetKey(k) == k \in {<<p>> : p \in KeyPresets}
RequiredKey(k) == k \in {<<p>> : p \in KeyRequired}

\* A field as it is stored.
StoredField(f) ==
  /\ f \in FormKeys!Field
  /\ IF f.custom THEN CustomOf(f.key) /\ Len(f.key) > 2 /\ f.label # <<>> ELSE PresetKey(f.key)
  /\ FormKeys!Trim(f.label, {FormKeys!Blank}) = f.label
  /\ ~f.custom /\ RequiredKey(f.key) => f.required

LEMMA PresetKeyIs ==
  ASSUME FormKeys!ConsentKeysAssumption, NEW k, PresetKey(k)
  PROVE  /\ k \in Seq(FormKeys!Plain) /\ Len(k) = 1
         /\ FormKeys!Trim(k, {FormKeys!Blank}) = k
<1>1. PICK p \in KeyPresets : k = <<p>>
  BY DEF PresetKey
<1>2. p \in FormKeys!Plain /\ p \notin {FormKeys!Blank}
  BY KeyChars
<1>3. k \in Seq(FormKeys!Plain) /\ Len(k) = 1 /\ k[1] = p
  BY <1>1, <1>2
<1> QED BY <1>2, <1>3, TrimSettled

\* What is accepted is stored with a key of its kind, and sent back it changes nothing
\* but underscores at the end of its key.
LEMMA NormalizedIs ==
  ASSUME FormKeys!ConsentKeysAssumption, NEW f \in FormKeys!Field, ~FormKeys!Invalid(f),
         NEW g, g = FormKeys!NormalizeOne(f)
  PROVE  StoredField(g)
<1>1. /\ f.key \in Seq(FormKeys!Chars) /\ f.label \in Seq(FormKeys!Chars)
      /\ f.custom \in BOOLEAN /\ f.required \in BOOLEAN
      /\ f = [key |-> f.key, label |-> f.label, custom |-> f.custom, required |-> f.required]
  BY DEF FormKeys!Field
<1>2. CASE f.custom
  <2>1. /\ g.key = FormKeys!CustomKey(f.key, f.label) /\ g.label = FormKeys!Trim(f.label, {FormKeys!Blank})
        /\ g.custom = f.custom /\ g.required = f.required
        /\ g = [key |-> g.key, label |-> g.label, custom |-> g.custom, required |-> g.required]
    BY <1>1, <1>2 DEF FormKeys!NormalizeOne
  <2>2. g.label # <<>> /\ g.key # FormKeys!Prefix
    BY <1>2, <2>1 DEF FormKeys!Invalid
  <2>3. CustomOf(g.key) /\ Len(g.key) > 2
    BY <1>1, <2>1, <2>2, CustomKeyIs
  <2>4. g.key \in Seq(FormKeys!Chars)
    BY <2>3, KeyChars, SeqMonotonic DEF CustomOf
  <2>5. g.label \in Seq(FormKeys!Chars) /\ FormKeys!Trim(g.label, {FormKeys!Blank}) = g.label
    BY <1>1, <2>1, TrimResult, TrimAgain
  <2> QED BY <1>1, <1>2, <2>1, <2>2, <2>3, <2>4, <2>5 DEF StoredField, FormKeys!Field
<1>3. CASE ~f.custom
  <2> DEFINE k == FormKeys!Trim(f.key, {FormKeys!Blank})
  <2>1. /\ g.key = k /\ g.label = k /\ g.custom = f.custom /\ g.required = (f.required \/ RequiredKey(k))
        /\ g = [key |-> g.key, label |-> g.label, custom |-> g.custom, required |-> g.required]
    BY <1>1, <1>3 DEF FormKeys!NormalizeOne, RequiredKey
  <2>2. PresetKey(k)
    BY <1>3 DEF FormKeys!Invalid, PresetKey
  <2>3. k \in Seq(FormKeys!Plain) /\ FormKeys!Trim(k, {FormKeys!Blank}) = k
    BY <2>2, PresetKeyIs
  <2>4. k \in Seq(FormKeys!Chars)
    BY <2>3, KeyChars, SeqMonotonic
  <2> HIDE DEF k
  <2>5. g.required \in BOOLEAN /\ (RequiredKey(k) => g.required)
    BY <1>1, <2>1
  <2>6. g \in FormKeys!Field
    BY <1>1, <2>1, <2>4, <2>5 DEF FormKeys!Field
  <2> QED BY <1>3, <2>1, <2>2, <2>3, <2>5, <2>6 DEF StoredField
<1> QED BY <1>1, <1>2, <1>3

\* What was stored is accepted again, and what was sent back once stays as it is.
LEMMA StoredSettles ==
  ASSUME FormKeys!ConsentKeysAssumption, NEW f, StoredField(f), NEW g, g = FormKeys!NormalizeOne(f)
  PROVE  /\ g.custom = f.custom /\ ~FormKeys!Invalid(g)
         /\ FormKeys!NormalizeOne(g) = g
<1>1. /\ f.key \in Seq(FormKeys!Chars) /\ f.label \in Seq(FormKeys!Chars)
      /\ f.custom \in BOOLEAN /\ f.required \in BOOLEAN
      /\ f = [key |-> f.key, label |-> f.label, custom |-> f.custom, required |-> f.required]
      /\ FormKeys!Trim(f.label, {FormKeys!Blank}) = f.label
  BY DEF StoredField, FormKeys!Field
<1>2. CASE f.custom
  <2>1. CustomOf(f.key) /\ f.label # <<>>
    BY <1>2 DEF StoredField
  <2>2. PICK k : k = FormKeys!CustomKey(f.key, f.label)
    OBVIOUS
  <2>3. /\ g.key = k /\ g.label = f.label /\ g.custom = f.custom /\ g.required = f.required
        /\ g = [key |-> g.key, label |-> g.label, custom |-> g.custom, required |-> g.required]
    BY <1>1, <1>2, <2>2 DEF FormKeys!NormalizeOne
  <2>4. SettledKey(k)
    BY <2>1, <2>2, StoredKeySettles
  <2>5. FormKeys!CustomKey(k, g.label) = k
    BY <2>4, StoredKeySettles DEF SettledKey
  <2>6. k # FormKeys!Prefix
    BY <2>4 DEF SettledKey, FormKeys!Prefix
  <2>7. ~FormKeys!Invalid(g)
    BY <1>1, <1>2, <2>1, <2>3, <2>5, <2>6 DEF FormKeys!Invalid
  <2>8. FormKeys!NormalizeOne(g) = g
    <3>1. FormKeys!CustomKey(g.key, g.label) = g.key /\ FormKeys!Trim(g.label, {FormKeys!Blank}) = g.label
      BY <1>1, <2>3, <2>5
    <3>2. FormKeys!NormalizeOne(g) = [g EXCEPT !.key = g.key, !.label = g.label]
      BY <1>2, <2>3, <3>1 DEF FormKeys!NormalizeOne
    <3> QED BY <2>3, <3>2
  <2> QED BY <2>3, <2>7, <2>8
<1>3. CASE ~f.custom
  <2>1. PresetKey(f.key) /\ FormKeys!Trim(f.key, {FormKeys!Blank}) = f.key
    BY <1>3, PresetKeyIs DEF StoredField
  <2>2. /\ g.key = f.key /\ g.label = f.key /\ g.custom = f.custom
        /\ g.required = (f.required \/ RequiredKey(f.key))
        /\ g = [key |-> g.key, label |-> g.label, custom |-> g.custom, required |-> g.required]
    BY <1>1, <1>3, <2>1 DEF FormKeys!NormalizeOne, RequiredKey
  <2>3. ~FormKeys!Invalid(g)
    BY <1>3, <2>1, <2>2 DEF FormKeys!Invalid, PresetKey
  <2>4. (g.required \/ RequiredKey(g.key)) = g.required
    BY <1>1, <2>2
  <2>5. FormKeys!NormalizeOne(g) = g
    <3>1. FormKeys!NormalizeOne(g)
            = [g EXCEPT !.key = g.key, !.label = g.key, !.required = g.required \/ RequiredKey(g.key)]
      BY <1>3, <2>1, <2>2 DEF FormKeys!NormalizeOne, RequiredKey
    <3> QED BY <2>2, <2>4, <3>1
  <2> QED BY <2>2, <2>3, <2>5
<1> QED BY <1>1, <1>2, <1>3

-----------------------------------------------------------------------------
KeysInv ==
  /\ kForm \in Seq(FormKeys!Field) /\ Len(kForm) <= 2 /\ kEdited \in BOOLEAN
  /\ \A i \in DOMAIN kForm : StoredField(kForm[i])
  /\ \A i, j \in DOMAIN kForm : i # j => kForm[i].key # kForm[j].key
  /\ FormKeys!SettlesAtOnce

LEMMA InitKeys == ASSUME FormKeys!Init PROVE KeysInv
<1>1. kForm = <<>> /\ kEdited = TRUE
  BY DEF FormKeys!Init
<1>2. kForm \in Seq(FormKeys!Field) /\ Len(kForm) = 0 /\ DOMAIN kForm = {}
  BY <1>1
<1> QED BY <1>1, <1>2 DEF KeysInv, FormKeys!SettlesAtOnce

\* What is accepted is stored field by field, with different keys.
LEMMA AcceptedIs ==
  ASSUME FormKeys!ConsentKeysAssumption, NEW fields \in Seq(FormKeys!Field),
         FormKeys!Accepted(fields), NEW new, new = FormKeys!Normalized(fields)
  PROVE  /\ new \in Seq(FormKeys!Field) /\ Len(new) = Len(fields) /\ DOMAIN new = DOMAIN fields
         /\ \A i \in DOMAIN new : new[i] = FormKeys!NormalizeOne(fields[i]) /\ StoredField(new[i])
         /\ \A i, j \in DOMAIN new : i # j => new[i].key # new[j].key
<1>1. Len(fields) \in Nat /\ DOMAIN fields = 1..Len(fields)
  OBVIOUS
<1>2. new = [i \in 1..Len(fields) |-> FormKeys!NormalizeOne(fields[i])]
  BY <1>1 DEF FormKeys!Normalized
<1>3. ASSUME NEW i \in 1..Len(fields)
      PROVE  new[i] = FormKeys!NormalizeOne(fields[i]) /\ StoredField(new[i])
  <2>1. fields[i] \in FormKeys!Field /\ ~FormKeys!Invalid(fields[i])
    BY <1>1 DEF FormKeys!Accepted
  <2>2. StoredField(FormKeys!NormalizeOne(fields[i]))
    BY <2>1, NormalizedIs
  <2> QED BY <1>2, <2>2
<1>4. \A i \in 1..Len(fields) : new[i] \in FormKeys!Field
  BY <1>3 DEF StoredField
<1>5. new \in Seq(FormKeys!Field) /\ Len(new) = Len(fields) /\ DOMAIN new = DOMAIN fields
  BY <1>1, <1>2, <1>4
<1>6. ASSUME NEW i \in 1..Len(fields), NEW j \in 1..Len(fields), new[i].key = new[j].key
      PROVE  i = j
  <2> DEFINE keys == [x \in DOMAIN fields |-> FormKeys!NormalizeOne(fields[x]).key]
  <2>1. FormKeys!IsInjective(keys)
    BY DEF FormKeys!Accepted
  <2>2. keys[i] = keys[j] /\ i \in DOMAIN keys /\ j \in DOMAIN keys
    BY <1>1, <1>3, <1>6
  <2> HIDE DEF keys
  <2> QED BY <2>1, <2>2 DEF FormKeys!IsInjective
<1> QED BY <1>1, <1>3, <1>5, <1>6

\* Whatever organizers send has the type of a field.
LEMMA SentFits ==
  ASSUME FormKeys!ConsentKeysAssumption, NEW f \in FormKeys!Sent
  PROVE  f \in FormKeys!Field
<1>1. \A s \in KeyLabels \cup KeysSent : s \in Seq(FormKeys!Chars)
  BY DEF FormKeys!ConsentKeysAssumption
<1>2. <<>> \in Seq(FormKeys!Chars)
  OBVIOUS
<1>3. CASE f \in [key : KeysSent, label : KeyLabels, custom : {TRUE}, required : {FALSE}]
  <2>1. /\ f = [key |-> f.key, label |-> f.label, custom |-> f.custom, required |-> f.required]
        /\ f.key \in KeysSent /\ f.label \in KeyLabels /\ f.custom = TRUE /\ f.required = FALSE
    BY <1>3
  <2> QED BY <1>1, <2>1 DEF FormKeys!Field
<1>4. CASE f \in [key : KeysSent, label : {<<>>}, custom : {FALSE}, required : {FALSE}]
  <2>1. /\ f = [key |-> f.key, label |-> f.label, custom |-> f.custom, required |-> f.required]
        /\ f.key \in KeysSent /\ f.label = <<>> /\ f.custom = FALSE /\ f.required = FALSE
    BY <1>4
  <2> QED BY <1>1, <1>2, <2>1 DEF FormKeys!Field
<1> QED BY <1>3, <1>4 DEF FormKeys!Sent

LEMMA NextKeys ==
  ASSUME FormKeys!ConsentKeysAssumption, KeysInv, [FormKeys!Next]_(FormKeys!vars)
  PROVE  KeysInv'
<1>1. CASE UNCHANGED FormKeys!vars
  BY <1>1 DEF KeysInv, FormKeys!vars, FormKeys!SettlesAtOnce
<1>2. CASE FormKeys!PutTemplate
  <2>1. PICK f \in FormKeys!Sent, old \in {<<>>, kForm} :
          /\ Len(old) < 2
          /\ FormKeys!Accepted(Append(old, f))
          /\ kForm' = FormKeys!Normalized(Append(old, f)) /\ kEdited' = TRUE
    BY <1>2 DEF FormKeys!PutTemplate
  <2>2. f \in FormKeys!Field /\ old \in Seq(FormKeys!Field)
    <3>1. kForm \in Seq(FormKeys!Field) /\ <<>> \in Seq(FormKeys!Field)
      BY DEF KeysInv
    <3> QED BY <3>1, SentFits
  <2>3. Append(old, f) \in Seq(FormKeys!Field) /\ Len(Append(old, f)) = Len(old) + 1 /\ Len(old) \in Nat
    BY <2>2, AppendProperties
  <2>4. Len(Append(old, f)) <= 2
    BY <2>1, <2>3
  <2>5. PICK fields : fields = Append(old, f)
    OBVIOUS
  <2>6. fields \in Seq(FormKeys!Field) /\ FormKeys!Accepted(fields) /\ Len(fields) <= 2
    BY <2>1, <2>3, <2>4, <2>5
  <2>7. PICK new : new = FormKeys!Normalized(fields)
    OBVIOUS
  <2>8. /\ new \in Seq(FormKeys!Field) /\ Len(new) = Len(fields)
        /\ \A i \in DOMAIN new : StoredField(new[i])
        /\ \A i, j \in DOMAIN new : i # j => new[i].key # new[j].key
    BY <2>6, <2>7, AcceptedIs
  <2>9. Len(new) <= 2 /\ kForm' = new
    BY <2>1, <2>5, <2>6, <2>7, <2>8
  <2> QED BY <2>1, <2>8, <2>9 DEF KeysInv, StoredField, FormKeys!SettlesAtOnce
<1>3. CASE FormKeys!PutAgain
  <2>1. FormKeys!Accepted(kForm) /\ kForm' = FormKeys!Normalized(kForm) /\ kEdited' = FALSE
    BY <1>3 DEF FormKeys!PutAgain
  <2>2. kForm \in Seq(FormKeys!Field) /\ \A i \in DOMAIN kForm : StoredField(kForm[i])
    BY DEF KeysInv
  <2>3. PICK new : new = FormKeys!Normalized(kForm)
    OBVIOUS
  <2>4. /\ new \in Seq(FormKeys!Field) /\ Len(new) = Len(kForm) /\ DOMAIN new = DOMAIN kForm
        /\ \A i \in DOMAIN new : new[i] = FormKeys!NormalizeOne(kForm[i]) /\ StoredField(new[i])
        /\ \A i, j \in DOMAIN new : i # j => new[i].key # new[j].key
    BY <2>1, <2>2, <2>3, AcceptedIs
  <2>5. \A i \in DOMAIN new : ~FormKeys!Invalid(new[i]) /\ FormKeys!NormalizeOne(new[i]) = new[i]
    BY <2>2, <2>4, StoredSettles
  <2>6. FormKeys!Normalized(new) = new
    <3>1. FormKeys!Normalized(new) = [i \in DOMAIN new |-> new[i]]
      BY <2>5 DEF FormKeys!Normalized
    <3> QED BY <2>4, <3>1
  <2>7. FormKeys!Accepted(new)
    <3>1. new # <<>>
      <4>1. kForm # <<>>
        BY <2>1 DEF FormKeys!Accepted
      <4>2. Len(kForm) # 0
        BY <2>2, <4>1
      <4> QED BY <2>4, <4>2
    <3>2. FormKeys!IsInjective([i \in DOMAIN new |-> FormKeys!NormalizeOne(new[i]).key])
      BY <2>4, <2>5 DEF FormKeys!IsInjective
    <3> QED BY <2>5, <3>1, <3>2 DEF FormKeys!Accepted
  <2>8. Len(new) <= 2
    BY <2>4 DEF KeysInv
  <2>9. kForm' = new
    BY <2>1, <2>3
  <2>10. FormKeys!SettlesAtOnce'
    BY <2>6, <2>7, <2>9 DEF FormKeys!SettlesAtOnce, FormKeys!Accepted, FormKeys!Normalized
  <2> QED BY <2>1, <2>4, <2>8, <2>9, <2>10 DEF KeysInv, StoredField
<1> QED BY <1>1, <1>2, <1>3 DEF FormKeys!Next

LEMMA KeysFollow ==
  ASSUME FormKeys!ConsentKeysAssumption, KeysInv
  PROVE  FormKeys!TypeOK /\ FormKeys!CustomIsApart /\ FormKeys!SettlesAtOnce
<1>1. ASSUME NEW i \in DOMAIN kForm
      PROVE  /\ \A c \in FormKeys!Range(kForm[i].key) : c \in FormKeys!Plain
             /\ ~kForm[i].custom /\ RequiredKey(kForm[i].key) => kForm[i].required
             /\ IF kForm[i].custom
                THEN /\ FormKeys!IsPrefix(FormKeys!Prefix, kForm[i].key)
                     /\ Len(kForm[i].key) > Len(FormKeys!Prefix)
                ELSE PresetKey(kForm[i].key)
  <2>1. StoredField(kForm[i])
    BY DEF KeysInv
  <2>2. kForm[i].custom \in BOOLEAN
    BY <2>1 DEF StoredField, FormKeys!Field
  <2>3. kForm[i].key \in Seq(FormKeys!Plain)
    BY <2>1, <2>2, PresetKeyIs DEF StoredField, CustomOf
  <2>4. \A c \in FormKeys!Range(kForm[i].key) : c \in FormKeys!Plain
    BY <2>3 DEF FormKeys!Range
  <2>5. ASSUME kForm[i].custom
        PROVE  /\ FormKeys!IsPrefix(FormKeys!Prefix, kForm[i].key)
               /\ Len(kForm[i].key) > Len(FormKeys!Prefix)
    <3>1. CustomOf(kForm[i].key) /\ Len(kForm[i].key) > 2
      BY <2>1, <2>5 DEF StoredField
    <3>2. FormKeys!IsPrefix(FormKeys!Prefix, kForm[i].key)
      BY <2>3, <3>1, PrefixIs DEF CustomOf
    <3>3. Len(FormKeys!Prefix) = 2
      BY DEF FormKeys!Prefix
    <3> QED BY <3>1, <3>2, <3>3
  <2>6. ~kForm[i].custom => PresetKey(kForm[i].key)
    BY <2>1 DEF StoredField
  <2>7. ~kForm[i].custom /\ RequiredKey(kForm[i].key) => kForm[i].required
    BY <2>1 DEF StoredField
  <2> QED BY <2>2, <2>4, <2>5, <2>6, <2>7
<1>2. FormKeys!TypeOK
  BY <1>1 DEF KeysInv, FormKeys!TypeOK, RequiredKey
<1>3. FormKeys!CustomIsApart
  BY <1>1 DEF FormKeys!CustomIsApart, PresetKey
<1> QED BY <1>2, <1>3 DEF KeysInv

LEMMA KeysAreSettled ==
  ASSUME FormKeys!ConsentKeysAssumption
  PROVE  FormKeys!Spec => [](FormKeys!TypeOK /\ FormKeys!CustomIsApart /\ FormKeys!SettlesAtOnce)
<1>1. FormKeys!Init => KeysInv
  BY InitKeys
<1>2. KeysInv /\ [FormKeys!Next]_(FormKeys!vars) => KeysInv'
  BY NextKeys
<1>3. KeysInv => FormKeys!TypeOK /\ FormKeys!CustomIsApart /\ FormKeys!SettlesAtOnce
  BY KeysFollow
<1> QED BY <1>1, <1>2, <1>3, PTL DEF FormKeys!Spec

-----------------------------------------------------------------------------
(* Codes to clock in, codes to join, consent forms, their keys, and alerts  *)

LEMMA FormsRun == PartsSpec => Forms!Spec
<1>1. PartsInit => Forms!Init
  BY DEF PartsInit
<1>2. [PartsNext]_<<part, aVars, vars, jVars, fVars, kVars>> => [Forms!Next]_(Forms!vars)
  BY DEF PartsNext, fVars, Forms!vars, Forms!tables, Forms!counts, Forms!workers
<1> QED BY <1>1, <1>2, PTL DEF PartsSpec, Forms!Spec

LEMMA JoinsRun == PartsSpec => Joins!Spec
<1>1. PartsInit => Joins!Init
  BY DEF PartsInit
<1>2. [PartsNext]_<<part, aVars, vars, jVars, fVars, kVars>> => [Joins!Next]_(Joins!vars)
  BY DEF PartsNext, jVars, Joins!vars, Joins!tables, Joins!workers
<1> QED BY <1>1, <1>2, PTL DEF PartsSpec, Joins!Spec

LEMMA KeysRun == PartsSpec => FormKeys!Spec
<1>1. PartsInit => FormKeys!Init
  BY DEF PartsInit
<1>2. [PartsNext]_<<part, aVars, vars, jVars, fVars, kVars>> => [FormKeys!Next]_(FormKeys!vars)
  BY DEF PartsNext, kVars, FormKeys!vars
<1> QED BY <1>1, <1>2, PTL DEF PartsSpec, FormKeys!Spec

LEMMA PollsRun == PartsSpec => Polls!Spec
<1>1. PartsInit => Polls!Init
  BY DEF PartsInit
<1>2. [PartsNext]_<<part, aVars, vars, jVars, fVars, kVars>> => [Polls!Next]_(Polls!vars)
  BY DEF PartsNext, aVars, Polls!vars, Polls!attendees, Polls!gatherings, Polls!inbox, Polls!delivery,
         Polls!history, Polls!observed, Polls!workers
<1> QED BY <1>1, <1>2, PTL DEF PartsSpec, Polls!Spec

LEMMA ClockInRuns == PartsSpec => Spec
<1>1. PartsInit => Init
  BY DEF PartsInit
<1>2. [PartsNext]_<<part, aVars, vars, jVars, fVars, kVars>> => [Next]_vars
  BY DEF PartsNext
<1> QED BY <1>1, <1>2, PTL DEF PartsSpec, Spec

\* What is checked of the codes to join beside those to clock in holds for any events,
\* attendees and codes.
THEOREM JoinCodesAreKept == PartsSpec => JoinCodesHold
<1>1. Joins!Spec => Joins!JoinedWithCode
  BY PartsAssumption, JoinsHaveACode
<1>2. Joins!Spec => Joins!ReplacedForGood
  BY PartsAssumption, ReplacedCodesAreGone
<1>3. Joins!Spec => []Joins!SharedIsAccepted
  BY PartsAssumption, SharedCodesAreAccepted
<1> QED BY <1>1, <1>2, <1>3, JoinsRun DEF JoinCodesHold

\* However many submissions and changes of forms interleave, a stored consent whose keys
\* are not padded answers a form that the event had since its request began.
THEOREM ConsentsAnswerForms == PartsSpec => ConsentAnswersForm
<1>1. Forms!Spec => Forms!ConsentAnswersForm
  BY PartsAssumption, AnswersForm
<1> QED BY <1>1, FormsRun DEF ConsentAnswersForm

\* The counters of custom fields never exceed the forms that were written, whatever
\* increments are lost; while requests run one at a time, they include every confirmed
\* form.  Rows of codes and forms keep their types.
THEOREM ConfirmedFormsAreCounted == PartsSpec => []ConfirmedIsCounted
<1>1. Forms!Spec => []Forms!TypeOK
  BY PartsAssumption, FormCountersFit
<1>2. Forms!Spec => []Forms!ConfirmedIsCounted
  BY PartsAssumption, ConfirmedCounts
<1>3. Joins!Spec => []Joins!TypeOK
  BY PartsAssumption, JoinRowsFit
<1> QED BY <1>1, <1>2, <1>3, TypeInvariant, FormsRun, JoinsRun, ClockInRuns, PTL DEF ConfirmedIsCounted

\* Whatever organizers type as labels and keys, a custom field has a key of its own after
\* the prefix, which no preset has, and a form that was sent back once as it was answered
\* keeps its keys from then on, for any labels, keys, presets and length of the cut.
THEOREM KeysAreKept == PartsSpec => []KeysSettle
<1>1. FormKeys!Spec => [](FormKeys!TypeOK /\ FormKeys!CustomIsApart /\ FormKeys!SettlesAtOnce)
  BY PartsAssumption, KeysAreSettled
<1> QED BY <1>1, KeysRun, PTL DEF KeysSettle

\* However many attendees join, leave and poll while events end and are deleted, no alert is
\* marked that nobody read, none is answered twice until requests race, and unless a run of
\* the job fails, a join is alerted once, and an attendee is until requests race.
THEOREM AlertsAreKept == PartsSpec => []AlertsAreHandedOver
<1>1. Polls!Spec => []Polls!TypeOK
  BY PollsAssumption, Polls!TypeInvariant
<1>2. Polls!Spec => []Polls!MarkedIsAnswered
  BY PollsAssumption, Polls!MarkedAlertsWereRead
<1>3. Polls!Spec => []Polls!AnsweredOnce
  BY PollsAssumption, Polls!AlertsAreAnsweredOnce
<1>4. Polls!Spec => []Polls!OneAlertPerGoLive
  BY PollsAssumption, Polls!AlertedOnce
<1>5. Polls!TypeOK /\ Polls!MarkedIsAnswered /\ Polls!AnsweredOnce /\ Polls!OneAlertPerGoLive
        => AlertsAreHandedOver
  BY DEF AlertsAreHandedOver
<1> QED BY <1>1, <1>2, <1>3, <1>4, <1>5, PollsRun, PTL
===============================================================================
