------------------------- MODULE MCAttendanceListings -------------------------
(***************************************************************************)
(* Attendance, and the lists of joined events that a phone asks for.       *)
(* Listings has what it needs of the tables itself and shares no state     *)
(* with Attendance, so that a behaviour is about one of them, its half,    *)
(* and the other stays as it began.                                        *)
(***************************************************************************)
EXTENDS MCAttendance

\* Those of Listings.
CONSTANTS
  Listed, ListTime, ListChanges,       \* events, bound on starts, bound on changes
  ListDefault, ListCap, ListAsked, ListLimits \* rows of pages

VARIABLES
  half, \* what the behaviour is about
  lEvents, lStarts, lScans, lFence, lJoined, lNow, lChanges, lThere, lMoved, lGrown, lPc, lReq

lVars == <<lEvents, lStarts, lScans, lFence, lJoined, lNow, lChanges, lThere, lMoved, lGrown, lPc, lReq>>

Lists ==
  INSTANCE Listings WITH
    Events <- Listed, Workers <- {"phone"}, MaxTime <- ListTime, MaxChanges <- ListChanges,
    Default <- ListDefault, Cap <- ListCap, Asked <- ListAsked, Limits <- ListLimits,
    events <- lEvents, starts <- lStarts, scans <- lScans, fence <- lFence, joined <- lJoined,
    now <- lNow, changes <- lChanges, there <- lThere, moved <- lMoved, grown <- lGrown,
    pc <- lPc, req <- lReq

ASSUME HalvesAssumption == Lists!ListingsAssumption

HalvesInit ==
  /\ half \in {"attendance", "listings"}
  /\ Init /\ Lists!Init
  /\ half = "attendance" => lJoined = {} /\ lNow = 1 /\ \A e \in Listed : lStarts[e] = 0

HalvesNext ==
  \/ half = "attendance" /\ Next /\ UNCHANGED <<half, lVars>>
  \/ half = "listings" /\ Lists!Next /\ UNCHANGED <<half, vars>>

HalvesSpec == HalvesInit /\ [][HalvesNext]_<<half, vars, lVars>>

\* The pages of a phone list whatever was joined throughout unless rows moved, and
\* nothing twice unless rows came in; the subscribed events are those not over,
\* as long as they fit and nothing changes.
ListsAreRight ==
  Lists!TypeOK /\ Lists!WalkListsAll /\ Lists!WalkRepeatsNothing /\ Lists!SubscribedAreUpcoming

ListedSymmetry == Permutations(Listed)
=============================================================================
