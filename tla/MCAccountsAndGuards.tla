------------------------- MODULE MCAccountsAndGuards -------------------------
(***************************************************************************)
(* Accounts and the guards of the routes.  RouteGuards has what it needs   *)
(* of accounts itself and shares no state with Accounts, so that a         *)
(* behaviour is about one of them, its part, and the other stays as it     *)
(* began.                                                                  *)
(***************************************************************************)
EXTENDS MCAccounts

CONSTANTS
  Attendees, Staff, Orgs, Events, EventOrg, GuardWorkers, Nil, \* of RouteGuards
  TTL, MaxTime, MaxTokens, MaxChanges \* its bounds

VARIABLES
  part, \* what the behaviour is about
  gUsers, gStaff, gEvents, gTokens, gNow, gChanges, gBegan, gSeen, gPc, gReq

gVars == <<gUsers, gStaff, gEvents, gTokens, gNow, gChanges, gBegan, gSeen, gPc, gReq>>

\* All events are of one organization, which an organizer may or may not be in.
TheEventOrg == [e \in Events |-> CHOOSE o \in Orgs : TRUE]

Guards ==
  INSTANCE RouteGuards WITH
    Workers <- GuardWorkers, users <- gUsers, staff <- gStaff, events <- gEvents, tokens <- gTokens,
    now <- gNow, changes <- gChanges, began <- gBegan, seen <- gSeen, pc <- gPc, req <- gReq

ASSUME PartsAssumption == Guards!RouteGuardsAssumption /\ Guards!RoutesAreApart

PartsInit ==
  /\ part \in {"accounts", "guards"}
  /\ Init /\ Guards!Init
  /\ part = "accounts" => \A s \in Staff : gStaff[s].org = CHOOSE o \in Orgs : TRUE

PartsNext ==
  \/ part = "accounts" /\ Next /\ UNCHANGED <<part, gVars>>
  \/ part = "guards" /\ Guards!Next /\ UNCHANGED <<part, vars>>

PartsSpec == PartsInit /\ [][PartsNext]_<<part, vars, gVars>>

\* A handler runs only for a caller who was entitled at some time since the request
\* came, and whoever was entitled all the time is not refused.  Rows keep their types.
HandledIfEntitled ==
  TypeOK /\ Guards!TypeOK /\ Guards!HandledIfEntitled /\ Guards!EntitledIsHandled
=============================================================================
