------------------------------ MODULE RouteGuards ------------------------------
(***************************************************************************)
(* Who may call what.  A path and a method select a route; its guards look *)
(* at the method, the bearer token, the account of the token and the       *)
(* organization of the event, each at its own moment, before the handler   *)
(* runs.  Meanwhile accounts and events change and tokens expire.  What    *)
(* handlers do is in the other modules; here they remove what later guards *)
(* look for.                                                               *)
(***************************************************************************)
EXTENDS Naturals, Sequences, FiniteSets, Requests

CONSTANTS
  Attendees, Staff, \* ids of accounts of the two pools
  Orgs,             \* organizations
  Events,           \* events
  EventOrg,         \* the organization of each
  TTL,              \* lifetime of a token
  MaxTime,          \* bound on the clock
  MaxTokens,        \* bound on the tokens that are kept
  MaxChanges,       \* bound on the changes of accounts by hand
  Nil               \* no token, event, organization or caller

Roles == {"owner", "admin", "viewer"}
Statuses == {"active", "disabled"}
Methods == {"GET", "POST", "PUT", "PATCH", "DELETE"}

\* What an instance has to satisfy.
RouteGuardsAssumption ==
  /\ Nil \notin Attendees \cup Staff \cup Orgs \cup Events
  /\ EventOrg \in [Events -> Orgs]
  /\ {TTL, MaxTime, MaxTokens, MaxChanges} \subseteq Nat

VARIABLES
  users,    \* users: the status of each account, Nil if there is none
  staff,    \* business_users
  events,   \* events there are
  tokens,   \* tokens that were issued and are kept
  now,      \* the clock
  changes,  \* changes by hand
  began,    \* no column: when a request began
  seen      \* no column: what was true of the caller's account and the event since then

accounts == <<users, staff, changes>>
vars == <<accounts, events, tokens, now, began, seen, workers>>

-----------------------------------------------------------------------------
(* The routes.  on: the methods for which the path selects the route;      *)
(* allow: those that AllowMethods lets pass.                               *)

Route(path, on, allow, guard) == [path |-> path, on |-> on, allow |-> allow, guard |-> guard]

MeRoutes ==
  {Route(<<"me">>, Methods, {"DELETE", "PATCH"}, "User"),
   Route(<<"me", "notification-preferences">>, Methods, {"GET", "PATCH"}, "User"),
   Route(<<"me", "device-tokens">>, Methods, {"POST", "DELETE"}, "User"),
   Route(<<"me", "event-joins", "id">>, Methods, {"DELETE"}, "User"),
   Route(<<"me", "events", "id", "consent">>, Methods, Methods, "User")}
  \cup {Route(<<"me", p>>, Methods, {"GET"}, "User") : p \in {"event-joins", "subscribed-events", "activity-history"}}
  \cup {Route(<<"me", p>>, Methods, {"POST"}, "User") : p \in {"change-password", "clock-in", "clock-out", "dispatch"}}

\* Below the id of an event.
Read(path, on) == Route(<<"events", "id">> \o path, on, on, "BusinessRead")

Write(path, on) == Route(<<"events", "id">> \o path, on, on, "BusinessWrite")

EventRoutes ==
  {Read(<<>>, {"GET"}), Write(<<>>, {"PATCH"}), Write(<<>>, {"DELETE"}),
   Read(<<"fences">>, {"POST"}), Read(<<"fences">>, {"GET"}), Write(<<"fences", "id">>, {"DELETE"}),
   Read(<<"fences", "id", "analytics">>, {"GET"}), Read(<<"analytics">>, {"GET"}),
   Read(<<"attendance">>, {"GET"}),
   [Read(<<"consent-template">>, Methods) EXCEPT !.allow = {"GET", "PUT"}],
   Read(<<"share">>, {"GET"}), Write(<<"share", "regenerate">>, {"POST"}),
   Read(<<"clock-in-share">>, {"GET"}), Write(<<"clock-in-settings">>, {"PATCH"}),
   Write(<<"clock-in-share", "regenerate">>, {"POST"}),
   Read(<<"fence-capture">>, {"GET", "POST"}), Write(<<"fence-capture", "apply">>, {"POST"}),
   [Read(<<"join-by-qr">>, {"POST"}) EXCEPT !.guard = "OptionalUser"],
   [Read(<<"attendance", "mark-present">>, {"POST"}) EXCEPT !.guard = "User"]}

Routes ==
  MeRoutes \cup EventRoutes
    \cup {Route(<<"events">>, Methods, {"GET", "POST"}, "BusinessRead"),
          Route(<<"consent-field-recommendations">>, Methods, {"GET"}, "BusinessRead"),
          Route(<<"public">>, Methods, Methods, "Public")}

Paths == {r.path : r \in Routes}

\* A path and a method select one route at most.
RoutesAreApart == \A p \in Paths, m \in Methods : Cardinality({r \in Routes : r.path = p /\ m \in r.on}) <= 1

IsEvent(path) == Len(path) > 1 /\ path[1] = "events"

\* What handlers of the dashboard change, whatever the guard of the route is.
Changes(path, method) ==
  \/ path = <<"events">> /\ method = "POST"
  \/ path = <<"events", "id">> /\ method \in {"PATCH", "DELETE"}
  \/ path = <<"events", "id", "fences">> /\ method = "POST"
  \/ path = <<"events", "id", "fences", "id">> /\ method = "DELETE"
  \/ path = <<"events", "id", "consent-template">> /\ method = "PUT"
  \/ path \in {<<"events", "id", p, "regenerate">> : p \in {"share", "clock-in-share"}}
  \/ path = <<"events", "id", "clock-in-settings">>
  \/ path \in {<<"events", "id", "fence-capture">>, <<"events", "id", "fence-capture", "apply">>}
       /\ method = "POST"

-----------------------------------------------------------------------------
StaffRow == [org : Orgs, role : Roles, status : Statuses]
Token == [typ : {"user", "business"}, sub : Attendees \cup Staff, org : Orgs \cup {Nil},
          role : Roles \cup {Nil}, until : Nat]

NoRequest == [path |-> Nil, method |-> Nil, token |-> Nil, event |-> Nil, caller |-> Nil, org |-> Nil]

RouteOf(w) == CHOOSE r \in Routes : r.path = req[w].path /\ req[w].method \in r.on
Known(w) == \E r \in Routes : r.path = req[w].path /\ req[w].method \in r.on

Reply(w) == Step(w, "idle", NoRequest)
OnlyRead == UNCHANGED <<accounts, events, tokens, now>>

Init ==
  /\ users = [u \in Attendees |-> "active"]
  /\ staff \in [Staff -> [org : Orgs, role : {"owner"}, status : {"active"}]]
  /\ changes = 0 /\ events = Events /\ tokens = {} /\ now = 0
  /\ began = [w \in Workers |-> 0] /\ seen = [w \in Workers |-> {}]
  /\ pc = [w \in Workers |-> "idle"] /\ req = [w \in Workers |-> NoRequest]

Tick ==
  /\ now < MaxTime
  /\ now' = now + 1
  /\ UNCHANGED <<accounts, events, tokens, workers>>

\* The last step of every way to sign in.
IssueUserToken ==
  /\ \E u \in Attendees :
        /\ users[u] = "active"
        /\ tokens' = tokens \cup {[typ |-> "user", sub |-> u, org |-> Nil, role |-> Nil, until |-> now + TTL]}
  /\ Cardinality(tokens') <= MaxTokens
  /\ UNCHANGED <<accounts, events, now, workers>>

IssueBusinessToken ==
  /\ \E s \in Staff :
        /\ staff[s].status = "active"
        /\ tokens' = tokens \cup {[typ |-> "business", sub |-> s, org |-> staff[s].org,
                                   role |-> staff[s].role, until |-> now + TTL]}
  /\ Cardinality(tokens') <= MaxTokens
  /\ UNCHANGED <<accounts, events, now, workers>>

\* No code changes the role, organization or status of an account: a hand in the database.
ChangeAccount ==
  /\ changes < MaxChanges /\ changes' = changes + 1
  /\ \/ \E s \in Staff, r \in StaffRow : staff' = [staff EXCEPT ![s] = r] /\ UNCHANGED users
     \/ \E u \in Attendees : users[u] = "active" /\ users' = [users EXCEPT ![u] = "disabled"] /\ UNCHANGED staff
  /\ UNCHANGED <<events, tokens, now, workers>>

-----------------------------------------------------------------------------
(* The guards, outer to inner.                                             *)

Request(w) ==
  /\ \E p \in Paths, m \in Methods, t \in tokens \cup {Nil} :
     \E e \in IF IsEvent(p) THEN Events ELSE {Nil} :
        Start(w, "classify", [NoRequest EXCEPT !.path = p, !.method = m, !.token = t, !.event = e])
  /\ OnlyRead

\* classifyEventRoute, and AllowMethods.
Classify(w) ==
  /\ At(w, "classify")
  /\ IF Known(w) /\ req[w].method \in RouteOf(w).allow
     THEN Goto(w, IF RouteOf(w).guard = "Public" THEN "handle" ELSE "bearer")
     ELSE Reply(w)  \* 404 or 405
  /\ OnlyRead

TypeFor(guard) == IF guard \in {"User", "OptionalUser"} THEN "user" ELSE "business"

Bearer(w) ==
  LET t == req[w].token
  IN  /\ At(w, "bearer")
      /\ IF t = Nil
         THEN Goto(w, IF RouteOf(w).guard = "OptionalUser" THEN "handle" ELSE "refused")
         ELSE Goto(w, IF now < t.until /\ t.typ = TypeFor(RouteOf(w).guard) THEN "account" ELSE "refused")
      /\ OnlyRead

CanBusinessWrite(role) == role \in {"owner", "admin"}

\* Mutation: PUT is forgotten.
IsWriteMethodButPut(method) == method \in {"POST", "PATCH", "DELETE"}

IsWriteMethod(method) == method \in {"POST", "PUT", "PATCH", "DELETE"}

User(w) ==
  /\ At(w, "account") /\ TypeFor(RouteOf(w).guard) = "user"
  /\ IF users[req[w].token.sub] = "active"
     THEN Step(w, "handle", [req[w] EXCEPT !.caller = req[w].token.sub])
     ELSE Goto(w, "refused")
  /\ OnlyRead

\* Mutation: the dashboard is for those who may write.
BusinessAuthWriters(w) ==
  LET t == req[w].token
      a == staff[t.sub]
  IN  /\ At(w, "account") /\ TypeFor(RouteOf(w).guard) = "business"
      /\ IF /\ a.status = "active" /\ a.org = t.org /\ a.role = t.role /\ CanBusinessWrite(a.role)
         THEN Step(w, IF IsEvent(req[w].path) THEN "tenant" ELSE "handle",
                   [req[w] EXCEPT !.caller = t.sub, !.org = a.org])
         ELSE Goto(w, "refused")
      /\ OnlyRead

BusinessAuth(w) ==
  LET t == req[w].token
      a == staff[t.sub]
  IN  /\ At(w, "account") /\ TypeFor(RouteOf(w).guard) = "business"
      /\ IF /\ a.status = "active" /\ a.org = t.org /\ a.role = t.role
            /\ RouteOf(w).guard = "BusinessWrite" \/ IsWriteMethod(req[w].method) => CanBusinessWrite(a.role)
         THEN Step(w, IF IsEvent(req[w].path) THEN "tenant" ELSE "handle",
                   [req[w] EXCEPT !.caller = t.sub, !.org = a.org])
         ELSE Goto(w, "refused")
      /\ OnlyRead

RequireEventTenant(w) ==
  /\ At(w, "tenant")
  /\ Goto(w, IF req[w].event \in events /\ EventOrg[req[w].event] = req[w].org THEN "handle" ELSE "refused")
  /\ OnlyRead

-----------------------------------------------------------------------------
(* The handlers that change what guards look at; the others, and these     *)
(* when they refuse, leave it alone.                                       *)

\* A read fails: 500.
GuardFails(w) == (At(w, "account") \/ At(w, "tenant")) /\ Reply(w) /\ OnlyRead

Refused(w) == At(w, "refused") /\ Reply(w) /\ OnlyRead

Handle(w) ==
  /\ At(w, "handle")
  /\ \/ UNCHANGED <<users, events>>
     \/ /\ req[w].path = <<"me">> /\ req[w].method = "DELETE"
        /\ users' = [users EXCEPT ![req[w].caller] = Nil]
        /\ UNCHANGED events
     \/ /\ req[w].path = <<"events", "id">> /\ req[w].method = "DELETE"
        /\ EventOrg[req[w].event] = req[w].org
        /\ events' = events \ {req[w].event}
        /\ UNCHANGED users
  /\ Reply(w)
  /\ UNCHANGED <<staff, changes, tokens, now>>

-----------------------------------------------------------------------------
\* The caller's account and whether the event is there.
Situation(w) ==
  [user |-> IF req'[w].token # Nil /\ req'[w].token.typ = "user" THEN users'[req'[w].token.sub] ELSE Nil,
   staff |-> IF req'[w].token # Nil /\ req'[w].token.typ = "business" THEN {staff'[req'[w].token.sub]} ELSE {},
   there |-> req'[w].event \in events']

Observe ==
  /\ began' = [w \in Workers |-> IF pc'[w] = "idle" THEN 0 ELSE IF pc[w] = "idle" THEN now ELSE began[w]]
  /\ seen' = [w \in Workers |->
                IF pc'[w] = "idle" THEN {} ELSE (IF pc[w] = "idle" THEN {} ELSE seen[w]) \cup {Situation(w)}]

Next ==
  /\ \/ Tick \/ IssueUserToken \/ IssueBusinessToken \/ ChangeAccount
     \/ \E w \in Workers :
          \/ Request(w) \/ Classify(w) \/ Bearer(w) \/ User(w) \/ BusinessAuth(w)
          \/ RequireEventTenant(w) \/ GuardFails(w) \/ Refused(w) \/ Handle(w)
  /\ Observe

Spec == Init /\ [][Next]_vars

-----------------------------------------------------------------------------
\* The types of rows, tokens and requests; no path and method select two routes.
TypeOK ==
  /\ users \in [Attendees -> Statuses \cup {Nil}] /\ staff \in [Staff -> StaffRow]
  /\ events \subseteq Events /\ tokens \subseteq Token
  /\ now \in 0..MaxTime /\ changes \in 0..MaxChanges
  /\ began \in [Workers -> 0..MaxTime]
  /\ pc \in [Workers -> {"idle", "classify", "bearer", "account", "tenant", "refused", "handle"}]

\* The caller may do this, given what was true at one moment.
Entitled(w, s) ==
  LET t == req[w].token
  IN  CASE TypeFor(RouteOf(w).guard) = "user" -> t.typ = "user" /\ s.user = "active"
        [] OTHER ->
             \E a \in s.staff :
                /\ t.typ = "business" /\ a.status = "active" /\ a.org = t.org /\ a.role = t.role
                /\ Changes(req[w].path, req[w].method) => a.role # "viewer"
                /\ IsEvent(req[w].path) => EventOrg[req[w].event] = a.org

\* Whatever changes while the guards run, a handler runs only for a caller whose
\* token was alive when the request came and who, at some moment since, was entitled
\* to what the handler does: no change by a viewer, by whichever route and
\* method, none for a deleted account, and none to an event of others.
HandledIfEntitled ==
  \A w \in Workers :
    pc[w] = "handle" /\ RouteOf(w).guard # "Public" =>
      IF req[w].token = Nil THEN RouteOf(w).guard = "OptionalUser"
      ELSE /\ began[w] < req[w].token.until
           /\ \E s \in seen[w] : Entitled(w, s)
           /\ req[w].caller = req[w].token.sub
           /\ TypeFor(RouteOf(w).guard) = "business" /\ IsEvent(req[w].path) => \E s \in seen[w] : s.there

\* The guards refuse nobody who was entitled all the time since the request came, with a
\* token that is still alive, to something that is still there.
EntitledIsHandled ==
  \A w \in Workers :
    pc[w] = "refused" /\ req[w].token # Nil =>
      ~(now < req[w].token.until /\ \A s \in seen[w] : Entitled(w, s) /\ (IsEvent(req[w].path) => s.there))
=============================================================================
