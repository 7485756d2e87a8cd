------------------------------- MODULE Listings -------------------------------
(***************************************************************************)
(* What an attendee's phone asks for: the events that the attendee joined, *)
(* page by page, and the upcoming ones among them with their fences.       *)
(* Every page is a request that counts the rows before it reads some of    *)
(* them, and nothing holds them still from one statement to the next.      *)
(* One attendee has one phone, which asks one question at a time; the same *)
(* attendee and the organizers change the tables meanwhile.                *)
(***************************************************************************)
EXTENDS Integers, FiniteSets, SequencesExt, Requests

CONSTANTS
  Events,     \* events
  MaxTime,    \* bound on starts
  Default,    \* rows of a page that names no limit
  Cap,        \* rows a page has at most
  Asked,      \* rows the subscribed events ask for
  Limits,     \* limits that phones name, 0 for none
  MaxChanges  \* bound on the changes of the tables

\* What an instance has to satisfy.
ListingsAssumption ==
  /\ IsFiniteSet(Events) /\ MaxTime \in Nat /\ MaxChanges \in Nat
  /\ {Default, Cap, Asked} \subseteq Nat \ {0} /\ Default <= Cap /\ Cap <= Asked
  /\ Limits \subseteq Nat

VARIABLES
  events,  \* events there are
  starts,  \* events.start_at, 0 for none; an event is over one unit later
  scans,   \* events with scan_to_clock_in_enabled
  fence,   \* the fence of an event: none, drawn, or one without a shape
  joined,  \* the attendee's event_joins
  now,     \* the clock
  changes, \* no column: changes of the tables so far
  there,   \* no column: joins that were there ever since the phone began to ask
  moved,   \* no column: rows left, moved or changed under the phone's eyes
  grown    \* no column: rows came in under the phone's eyes

tables == <<events, starts, scans, fence, joined, now, changes>>
vars == <<tables, there, moved, grown, workers>>

NoRequest == [from |-> 0, limit |-> 0, page |-> 1, total |-> 0, listed |-> <<>>,
              now |-> 0, rows |-> <<>>, fence |-> "none", answer |-> <<>>]

Init ==
  /\ events = Events
  /\ starts \in [Events -> 0..MaxTime]
  /\ scans = Events /\ fence = [e \in Events |-> "drawn"]
  /\ joined \in SUBSET Events
  /\ now \in 1..(MaxTime + 1) /\ changes = 0
  /\ there = {} /\ moved = FALSE /\ grown = FALSE
  /\ pc = [w \in Workers |-> "idle"] /\ req = [w \in Workers |-> NoRequest]

-----------------------------------------------------------------------------
(* What others do meanwhile                                                *)

Change == changes < MaxChanges /\ changes' = changes + 1 /\ UNCHANGED workers

Join ==
  /\ Change
  /\ \E e \in events \ joined : joined' = joined \cup {e}
  /\ UNCHANGED <<events, starts, scans, fence, now>>

Leave ==
  /\ Change
  /\ \E e \in joined : joined' = joined \ {e}
  /\ UNCHANGED <<events, starts, scans, fence, now>>

\* An event may lose its schedule, too.
Reschedule ==
  /\ Change
  /\ \E e \in events, t \in 0..MaxTime : starts[e] # t /\ starts' = [starts EXCEPT ![e] = t]
  /\ UNCHANGED <<events, scans, fence, joined, now>>

\* Joins and fences go with their event.
DeleteEvent ==
  /\ Change
  /\ \E e \in events :
       /\ events' = events \ {e} /\ joined' = joined \ {e} /\ scans' = scans \ {e}
       /\ fence' = [fence EXCEPT ![e] = "none"]
  /\ UNCHANGED <<starts, now>>

SwitchScan ==
  /\ Change
  /\ \E e \in events : scans' = IF e \in scans THEN scans \ {e} ELSE scans \cup {e}
  /\ UNCHANGED <<events, starts, fence, joined, now>>

ChangeFence ==
  /\ Change
  /\ \E e \in events, f \in {"none", "drawn", "shapeless"} :
       fence[e] # f /\ fence' = [fence EXCEPT ![e] = f]
  /\ UNCHANGED <<events, starts, scans, joined, now>>

Tick ==
  /\ Change
  /\ now <= MaxTime /\ now' = now + 1
  /\ UNCHANGED <<events, starts, scans, fence, joined>>

-----------------------------------------------------------------------------
(* Pages                                                                   *)

Matching(from) == {e \in joined : starts[e] >= from}

\* The latest start comes first.  Among equal starts the order is the database's choice,
\* in every statement anew.
Orders(from) ==
  {rows \in SetToSeqs(Matching(from)) :
     \A i, j \in DOMAIN rows : i < j => starts[rows[i]] >= starts[rows[j]]}

PageLimit(limit) ==
  IF limit < 1 THEN Default ELSE IF limit > Cap THEN Cap ELSE limit

\* Mutation: an offset of pages, not of rows.
OffsetOfPages(page, limit) == page - 1

\* Rows before the page.
Offset(page, limit) == (page - 1) * limit

Page(rows, page, limit) ==
  SubSeq(rows, Offset(page, limit) + 1,
         IF Offset(page, limit) + limit > Len(rows) THEN Len(rows) ELSE Offset(page, limit) + limit)

\* Mutation: a last page with one row is not asked for.
HasMoreButOne(page, limit, total) == page * limit + 1 < total

HasMore(page, limit, total) == page * limit < total

\* A phone that lists what starts at from or later, beginning with the first page.
ListJoins(w) ==
  /\ \E from \in 0..MaxTime, limit \in Limits :
       Start(w, "page_count", [NoRequest EXCEPT !.from = from, !.limit = PageLimit(limit)])
  /\ UNCHANGED tables

PageCount(w) ==
  /\ At(w, "page_count")
  /\ Step(w, "page_rows", [req[w] EXCEPT !.total = Cardinality(Matching(req[w].from))])
  /\ UNCHANGED tables

\* The phone asks for the next page if the answer says that there is one.
PageRows(w) ==
  LET r == req[w]
  IN  /\ At(w, "page_rows")
      /\ \E rows \in Orders(r.from) :
           LET listed == r.listed \o Page(rows, r.page, r.limit)
           IN  IF HasMore(r.page, r.limit, r.total)
               THEN Step(w, "page_count", [r EXCEPT !.listed = listed, !.page = @ + 1])
               ELSE Step(w, "page_end", [r EXCEPT !.listed = listed])
      /\ UNCHANGED tables

-----------------------------------------------------------------------------
(* Subscribed events                                                       *)

\* The time is read first; the first page is asked for.
Subscribe(w) ==
  /\ Start(w, "subscribed_rows", [NoRequest EXCEPT !.now = now, !.limit = PageLimit(Asked)])
  /\ UNCHANGED tables

SubscribedRows(w) ==
  /\ At(w, "subscribed_rows")
  /\ \E rows \in Orders(0) :
       Step(w, "subscribed_event",
            [req[w] EXCEPT !.rows = [i \in DOMAIN Page(rows, 1, req[w].limit) |->
                                       [event |-> rows[i], start |-> starts[rows[i]]]]])
  /\ UNCHANGED tables

\* Mutation: an event is left out as soon as it has started.
OverAtStart(start, at) == start # 0 /\ start < at

\* An event without schedule is never over.
Over(start, at) == start # 0 /\ start + 1 < at

SubscribedEvent(w) ==
  LET r == req[w]
  IN  /\ At(w, "subscribed_event")
      /\ CASE r.rows = <<>> -> Goto(w, "subscribed_end")
           [] r.rows # <<>> /\ Over(r.rows[1].start, r.now) ->
                Step(w, "subscribed_event", [r EXCEPT !.rows = Tail(@)])
           [] OTHER -> Goto(w, "subscribed_fences")
      /\ UNCHANGED tables

\* A fence without a shape is left out.
SubscribedFences(w) ==
  LET f == fence[req[w].rows[1].event]
  IN  /\ At(w, "subscribed_fences")
      /\ Step(w, "subscribed_scan", [req[w] EXCEPT !.fence = IF f = "drawn" THEN f ELSE "none"])
      /\ UNCHANGED tables

\* An event that is not there anymore asks for no scan.
SubscribedScan(w) ==
  LET r == req[w]
      e == r.rows[1].event
  IN  /\ At(w, "subscribed_scan")
      /\ Step(w, "subscribed_event",
              [r EXCEPT !.rows = Tail(@),
                        !.answer = Append(@, [event |-> e, fence |-> r.fence, scan |-> e \in scans])])
      /\ UNCHANGED tables

Shown(w) ==
  /\ At(w, "page_end") \/ At(w, "subscribed_end")
  /\ Step(w, "idle", NoRequest)
  /\ UNCHANGED tables

-----------------------------------------------------------------------------
\* Two of the joined events start at the same time.
Ties == \E e, f \in joined : e # f /\ starts[e] = starts[f]

\* What happened since the phone began to ask.
Observe ==
  IF \A w \in Workers : Idle(w)
  THEN there' = joined' /\ moved' = Ties' /\ grown' = FALSE
  ELSE /\ there' = there \cap joined'
       /\ moved' = (\/ moved \/ Ties'
                    \/ ~(joined \subseteq joined') \/ \E e \in joined : starts'[e] # starts[e]
                    \/ <<events, scans, fence>>' # <<events, scans, fence>>
                    \/ joined' # joined /\ \E w \in Workers : At(w, "page_rows"))
       /\ grown' = (grown \/ joined' # joined)

Next ==
  /\ \/ Join \/ Leave \/ Reschedule \/ DeleteEvent \/ SwitchScan \/ ChangeFence \/ Tick
     \/ \E w \in Workers :
          \/ ListJoins(w) \/ PageCount(w) \/ PageRows(w)
          \/ Subscribe(w) \/ SubscribedRows(w) \/ SubscribedEvent(w) \/ SubscribedFences(w)
          \/ SubscribedScan(w) \/ Shown(w)
  /\ Observe

Spec == Init /\ [][Next]_vars

-----------------------------------------------------------------------------
\* Rows have their types; the attendee joined events that exist, and no page has more rows
\* than the cap, whatever limit is asked for.
TypeOK ==
  /\ events \subseteq Events /\ starts \in [Events -> 0..MaxTime]
  /\ scans \subseteq events /\ joined \subseteq events
  /\ fence \in [Events -> {"none", "drawn", "shapeless"}]
  /\ now \in 1..(MaxTime + 1) /\ changes \in 0..MaxChanges
  /\ \A w \in Workers :
       /\ Len(req[w].listed) <= Cap * req[w].page
       /\ Len(req[w].rows) + Len(req[w].answer) <= Cap

\* Going from page to page until there are no more lists every event that was joined all
\* along, even when others are joined between two pages, unless a row went or moved, two
\* events start at the same time, or one was joined between the count and its page.
WalkListsAll ==
  \A w \in Workers :
    At(w, "page_end") /\ ~moved
      => {e \in there : starts[e] >= req[w].from} \subseteq Range(req[w].listed)

\* It lists none twice if none was joined meanwhile.
WalkRepeatsNothing ==
  \A w \in Workers :
    At(w, "page_end") /\ ~moved /\ ~grown => IsInjective(req[w].listed)

\* The subscribed events are all joined ones that were not over when the phone asked, with
\* the fences that have a shape and the right way to clock in, if no table changed and the
\* cap did not cut them off.
SubscribedAreUpcoming ==
  \A w \in Workers :
    At(w, "subscribed_end") /\ ~moved /\ ~grown /\ Cardinality(joined) <= Cap
      => Range(req[w].answer) =
           {[event |-> e, fence |-> IF fence[e] = "drawn" THEN "drawn" ELSE "none", scan |-> e \in scans] :
              e \in {f \in joined : starts[f] = 0 \/ req[w].now <= starts[f] + 1}}
=============================================================================
