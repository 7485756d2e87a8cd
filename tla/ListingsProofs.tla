---------------------------- MODULE ListingsProofs ----------------------------
(***************************************************************************)
(* Proofs about Listings and Analytics, which stand beside Attendance in   *)
(* the runs: what a client is listed, and what numbers an organizer is     *)
(* told, for any events, fences, records, times and number of changes.     *)
(***************************************************************************)
EXTENDS AttendanceProofs, MCAttendanceListings, MCAttendanceAnalytics, FiniteSetTheorems,
        SequenceTheorems

-----------------------------------------------------------------------------
(***************************************************************************)
(* The listings of a user, for any events, times and number of changes.   *)
(* In a list without ties the place of an event is the number of the       *)
(* events that start later, so that a client that has read k rows has seen *)
(* exactly the events with fewer than k before them.                       *)
(***************************************************************************)

ListRow == [event : Listed, start : 0..ListTime]
ListAnswer == [event : Listed, fence : {"none", "drawn"}, scan : BOOLEAN]
ListRequest ==
  [from : 0..ListTime, limit : 0..ListCap, page : Nat \ {0}, total : Nat, listed : Seq(Listed),
   now : Nat, rows : Seq(ListRow), fence : {"none", "drawn"}, answer : Seq(ListAnswer)]

Paging == {"page_count", "page_rows"}
Subscribing == {"subscribed_event", "subscribed_fences", "subscribed_scan"}
ListLabels == {"idle", "page_end", "subscribed_rows", "subscribed_end"} \cup Paging \cup Subscribing

\* What a request carries at its next statement.
ListCarries(l, r) ==
  /\ l \in Paging => r.limit >= 1 /\ Len(r.listed) <= ListCap * (r.page - 1)
  /\ l \in {"subscribed_fences", "subscribed_scan"} => r.rows # <<>>
  /\ l \in Paging \cup {"subscribed_rows"} => r.rows = <<>> /\ r.answer = <<>>
  /\ l = "subscribed_rows" => r.limit = ListCap
  /\ Len(r.listed) <= ListCap * r.page
  /\ Len(r.rows) + Len(r.answer) <= ListCap

ListTypes ==
  /\ lEvents \subseteq Listed /\ lStarts \in [Listed -> 0..ListTime]
  /\ lScans \subseteq lEvents /\ lJoined \subseteq lEvents
  /\ lFence \in [Listed -> {"none", "drawn", "shapeless"}]
  /\ lNow \in 1..(ListTime + 1) /\ lChanges \in 0..ListChanges
  /\ lThere \subseteq lJoined /\ lMoved \in BOOLEAN /\ lGrown \in BOOLEAN
  /\ lPc \in [{"phone"} -> ListLabels] /\ lReq \in [{"phone"} -> ListRequest]
  /\ ListCarries(lPc["phone"], lReq["phone"])

LEMMA ListCard == ASSUME NEW S PROVE Lists!Cardinality(S) = Cardinality(S)
  BY DEF Lists!Cardinality, Cardinality

LEMMA ListFinite == ASSUME NEW S PROVE Lists!IsFiniteSet(S) <=> IsFiniteSet(S)
  BY DEF Lists!IsFiniteSet, IsFiniteSet

\* The joined events that start after one, and so come before it.
Before(e) == {f \in lJoined : lStarts[f] > lStarts[e]}

\* In a list without ties, the place of an event is the number of those that start later.
LEMMA PlaceIs ==
  ASSUME IsFiniteSet(lJoined), \A e \in lJoined : lStarts[e] \in Nat, ~Lists!Ties, NEW from,
         NEW rows \in Lists!Orders(from)
  PROVE  /\ Cardinality(Lists!Matching(from)) \in Nat
         /\ rows \in [1..Cardinality(Lists!Matching(from)) -> Lists!Matching(from)]
         /\ Range(rows) = Lists!Matching(from)
         /\ \A i, j \in DOMAIN rows : rows[i] = rows[j] => i = j
         /\ from \in Nat => \A i \in DOMAIN rows : Cardinality(Before(rows[i])) = i - 1
<1> DEFINE M == Lists!Matching(from)
<1>1. M \subseteq lJoined /\ IsFiniteSet(M) /\ Cardinality(M) \in Nat
  BY FS_Subset, FS_CardinalityType DEF Lists!Matching
<1>2. PICK n \in Nat : n = Cardinality(M)
  BY <1>1
<1>3. /\ rows \in [1..n -> M] /\ \A i, j \in 1..n : i # j => rows[i] # rows[j]
      /\ \A i, j \in 1..n : i < j => lStarts[rows[i]] >= lStarts[rows[j]]
  BY <1>2, ListCard DEF Lists!Orders, Lists!SetToSeqs
<1>4. rows \in Injection(1..n, M)
  BY <1>3 DEF Injection, IsInjective
<1>5. rows \in Surjection(1..n, M)
  BY <1>1, <1>2, <1>4, FS_Injection, FS_Interval
<1>6. Range(rows) = M
  BY <1>3, <1>5 DEF Surjection, Range
<1>7. ASSUME from \in Nat, NEW i \in 1..n PROVE Cardinality(Before(rows[i])) = i - 1
  <2>1. \A j \in 1..n : rows[j] \in lJoined /\ lStarts[rows[j]] \in Nat
    BY <1>1, <1>3
  <2>2. \A j, k \in 1..n : j < k => lStarts[rows[j]] > lStarts[rows[k]]
    BY <1>3, <2>1 DEF Lists!Ties
  <2>3. \A j \in 1..n : j < i <=> lStarts[rows[j]] > lStarts[rows[i]]
    <3> TAKE j \in 1..n
    <3>1. CASE j < i
      BY <3>1, <2>2
    <3>2. CASE i < j
      BY <3>2, <2>1, <2>2
    <3>3. CASE i = j
      BY <3>3, <2>1
    <3> QED BY <3>1, <3>2, <3>3
  <2>4. Before(rows[i]) = {rows[j] : j \in 1..(i - 1)}
    <3>1. ASSUME NEW f \in Before(rows[i]) PROVE f \in {rows[j] : j \in 1..(i - 1)}
      <4>1. f \in lJoined /\ lStarts[f] > lStarts[rows[i]] /\ lStarts[rows[i]] >= from
        BY <3>1, <1>3 DEF Before, Lists!Matching
      <4>2. lStarts[f] \in Nat /\ lStarts[rows[i]] \in Nat
        BY <4>1, <2>1
      <4>3. f \in M
        BY <4>1, <4>2, <1>7 DEF Lists!Matching
      <4>4. PICK j \in 1..n : f = rows[j]
        BY <4>3, <1>5 DEF Surjection
      <4> QED BY <4>1, <4>4, <2>3
    <3>2. ASSUME NEW j \in 1..(i - 1) PROVE rows[j] \in Before(rows[i])
      BY <2>1, <2>3 DEF Before
    <3> QED BY <3>1, <3>2
  <2>5. [j \in 1..(i - 1) |-> rows[j]] \in Bijection(1..(i - 1), Before(rows[i]))
    BY <2>4, <1>3 DEF Bijection, Injection, Surjection, IsInjective
  <2>6. ExistsBijection(1..(i - 1), Before(rows[i])) /\ i - 1 \in Nat
    BY <2>5 DEF ExistsBijection
  <2> QED BY <2>6, FS_CountingElements
<1> QED BY <1>1, <1>2, <1>3, <1>6, <1>7

\* Up to limit rows, after the first k.
RowsAfter(t, rows, k, limit) ==
  /\ Len(t) <= limit
  /\ \A j \in DOMAIN t : j <= limit /\ k + j \in DOMAIN rows /\ t[j] = rows[k + j]
  /\ \A i \in DOMAIN rows : i > k /\ i <= k + limit => \E j \in DOMAIN t : t[j] = rows[i]

\* A page has the rows after those of the pages before it.
LEMMA PageHas ==
  ASSUME NEW S, NEW rows \in Seq(S), NEW p \in Nat \ {0}, NEW limit \in Nat \ {0}
  PROVE  /\ Lists!Page(rows, p, limit) \in Seq(S)
         /\ \E k \in Nat : /\ k = (p - 1) * limit /\ p * limit = k + limit
                           /\ RowsAfter(Lists!Page(rows, p, limit), rows, k, limit)
<1>1. PICK k \in Nat : k = (p - 1) * limit
  OBVIOUS
<1>2. PICK n \in Nat : n = Len(rows)
  BY LenProperties
<1>3. PICK m \in Nat : m = IF k + limit > n THEN n ELSE k + limit
  OBVIOUS
<1> DEFINE t == SubSeq(rows, k + 1, m)
<1>4. Lists!Page(rows, p, limit) = t
  BY <1>1, <1>2, <1>3 DEF Lists!Page, Lists!Offset
<1>5. p * limit = k + limit
  BY <1>1
<1>6. DOMAIN rows = 1..n
  BY <1>2, LenProperties
<1>7. m <= n /\ m <= k + limit /\ (m = n \/ m = k + limit) /\ m \in Int /\ k + 1 \in Int
  BY <1>3
<1>8. \A i \in (k + 1)..m : rows[i] \in S
  BY <1>6, <1>7, ElementOfSeq
<1>9. /\ t \in Seq(S) /\ Len(t) = IF k + 1 <= m THEN m - (k + 1) + 1 ELSE 0
      /\ \A i \in 1..(m - (k + 1) + 1) : t[i] = rows[k + 1 + i - 1]
  BY <1>7, <1>8, SubSeqProperties
<1>10. DOMAIN t = 1..Len(t)
  BY <1>9, LenProperties
<1> HIDE DEF t
<1>11. Len(t) <= limit
  BY <1>7, <1>9
<1>12. ASSUME NEW j \in DOMAIN t PROVE j <= limit /\ k + j \in DOMAIN rows /\ t[j] = rows[k + j]
  <2>1. j \in Nat /\ 1 <= j /\ j <= m - k
    BY <1>9, <1>10, <1>12
  <2>2. k + 1 + j - 1 = k + j
    BY <2>1
  <2> QED BY <2>1, <2>2, <1>6, <1>7, <1>9
<1>13. ASSUME NEW i \in DOMAIN rows, i > k, i <= k + limit PROVE \E j \in DOMAIN t : t[j] = rows[i]
  <2>1. i - k \in DOMAIN t
    BY <1>6, <1>7, <1>9, <1>10, <1>13
  <2>2. k + (i - k) = i
    BY <1>6, <1>13
  <2> QED BY <2>1, <2>2, <1>12
<1>14. RowsAfter(t, rows, k, limit)
  BY <1>11, <1>12, <1>13 DEF RowsAfter
<1> QED BY <1>1, <1>4, <1>5, <1>9, <1>14

-----------------------------------------------------------------------------
(* What a phone that asks for lists knows                                  *)

\* What was joined all along and is not listed comes behind the pages there were.
Walks(l, r) ==
  /\ l # "idle" => ~Lists!Ties
  /\ l \in Paging =>
       \A e \in lThere : lStarts[e] >= r.from =>
         e \in Range(r.listed) \/ Cardinality(Before(e)) >= (r.page - 1) * r.limit
  /\ l = "page_rows" => r.total = Cardinality(Lists!Matching(r.from))
  /\ l = "page_end" => \A e \in lThere : lStarts[e] >= r.from => e \in Range(r.listed)

\* What is listed comes before the pages there will be, and is there once.
Advances(l, r) ==
  /\ l \in Paging => \A i \in DOMAIN r.listed :
                       /\ r.listed[i] \in lJoined
                       /\ Cardinality(Before(r.listed[i])) < (r.page - 1) * r.limit
  /\ l \in Paging \cup {"page_end"} =>
       \A i, j \in DOMAIN r.listed : r.listed[i] = r.listed[j] => i = j

Upcoming(at) == {f \in lJoined : lStarts[f] = 0 \/ at <= lStarts[f] + 1}

AnswerFor(e) ==
  [event |-> e, fence |-> IF lFence[e] = "drawn" THEN "drawn" ELSE "none", scan |-> e \in lScans]

\* An upcoming event is answered or a row that was not looked at yet.
Answers(l, r) ==
  /\ l \in Subscribing \cup {"subscribed_end"} =>
       /\ \A i \in DOMAIN r.rows :
            r.rows[i].event \in lJoined /\ r.rows[i].start = lStarts[r.rows[i].event]
       /\ \A i \in DOMAIN r.answer : \E e \in Upcoming(r.now) : r.answer[i] = AnswerFor(e)
       /\ \A e \in Upcoming(r.now) :
            \/ \E i \in DOMAIN r.answer : r.answer[i] = AnswerFor(e)
            \/ \E i \in DOMAIN r.rows : r.rows[i].event = e
  /\ l \in {"subscribed_fences", "subscribed_scan"} => r.rows[1].event \in Upcoming(r.now)
  /\ l = "subscribed_scan" => r.fence = AnswerFor(r.rows[1].event).fence
  /\ l = "subscribed_end" => r.rows = <<>>

ListKnows(l, r) ==
  /\ ~lMoved => Walks(l, r)
  /\ ~lMoved /\ ~lGrown => Advances(l, r) /\ (Cardinality(lJoined) <= ListCap => Answers(l, r))

ListInv == ListTypes /\ ListKnows(lPc["phone"], lReq["phone"])

LEMMA ListMoves ==
  ASSUME ListTypes, NEW l, NEW r, Lists!Step("phone", l, r)
  PROVE  /\ lPc'["phone"] = l /\ lReq'["phone"] = r
         /\ l \in ListLabels => lPc' \in [{"phone"} -> ListLabels]
         /\ r \in ListRequest => lReq' \in [{"phone"} -> ListRequest]
<1>1. /\ lPc \in [{"phone"} -> ListLabels] /\ lReq \in [{"phone"} -> ListRequest]
      /\ lPc' = [lPc EXCEPT !["phone"] = l] /\ lReq' = [lReq EXCEPT !["phone"] = r]
  BY DEF ListTypes, Lists!Step
<1> QED BY <1>1

LEMMA ListGotoMoves ==
  ASSUME ListTypes, NEW l, Lists!Goto("phone", l)
  PROVE  Lists!Step("phone", l, lReq["phone"])
<1>1. lReq = [lReq EXCEPT !["phone"] = lReq["phone"]]
  BY DEF ListTypes
<1> QED BY <1>1 DEF Lists!Goto, Lists!Step

\* A step of the phone itself changes no table.
LEMMA PhoneKeeps ==
  ASSUME ListInv, ~Lists!Idle("phone"), UNCHANGED Lists!tables, Lists!Observe,
         NEW l \in ListLabels, NEW r \in ListRequest, Lists!Step("phone", l, r), ListCarries(l, r),
         ~lMoved => Walks(l, r),
         ~lMoved /\ ~lGrown => Advances(l, r) /\ (Cardinality(lJoined) <= ListCap => Answers(l, r))
  PROVE  ListInv'
<1>1. /\ lPc'["phone"] = l /\ lReq'["phone"] = r
      /\ lPc' \in [{"phone"} -> ListLabels] /\ lReq' \in [{"phone"} -> ListRequest]
  BY ListMoves DEF ListInv
<1>2. /\ UNCHANGED <<lEvents, lStarts, lScans, lFence, lJoined, lNow, lChanges>>
  BY DEF Lists!tables
<1>3. lThere' = lThere /\ (~lMoved' => ~lMoved) /\ lGrown' = lGrown /\ lMoved' \in BOOLEAN
  BY <1>2 DEF Lists!Observe, ListInv, ListTypes
<1>4. ListTypes'
  BY <1>1, <1>2, <1>3 DEF ListInv, ListTypes, ListCarries
<1>5. /\ \A e : Before(e)' = Before(e) /\ AnswerFor(e)' = AnswerFor(e)
      /\ \A n : Upcoming(n)' = Upcoming(n)
      /\ \A n : Lists!Matching(n)' = Lists!Matching(n)
      /\ Lists!Ties' = Lists!Ties
  BY <1>2 DEF Before, AnswerFor, Upcoming, Lists!Matching, Lists!Ties
<1>6. ASSUME Walks(l, r) PROVE Walks(lPc["phone"], lReq["phone"])'
  BY <1>1, <1>2, <1>3, <1>5, <1>6 DEF Walks
<1>7. ASSUME Advances(l, r) PROVE Advances(lPc["phone"], lReq["phone"])'
  BY <1>1, <1>2, <1>5, <1>7 DEF Advances
<1>8. ASSUME Answers(l, r) PROVE Answers(lPc["phone"], lReq["phone"])'
  BY <1>1, <1>2, <1>5, <1>8 DEF Answers
<1> QED BY <1>2, <1>3, <1>4, <1>6, <1>7, <1>8 DEF ListInv, ListKnows

\* A step of the others asks and answers nothing.
LEMMA OthersKeepLists ==
  ASSUME ListInv, ListTypes', IsFiniteSet(Listed), UNCHANGED <<lPc, lReq>>, Lists!Observe
  PROVE  ListInv'
<1> DEFINE l == lPc["phone"]
           r == lReq["phone"]
<1>1. l' = l /\ r' = r
  OBVIOUS
<1> HIDE DEF l, r
<1>2. CASE Lists!Idle("phone")
  <2>1. l = "idle" /\ (~lMoved' => ~Lists!Ties')
    BY <1>2 DEF Lists!Idle, Lists!Observe, l
  <2>2. ~lMoved' => Walks(l, r)'
    BY <2>1, <1>1 DEF Walks, Paging
  <2>3. Advances(l, r)' /\ Answers(l, r)'
    BY <2>1, <1>1 DEF Advances, Answers, Paging, Subscribing
  <2> QED BY <2>2, <2>3 DEF ListInv, ListKnows, l, r
<1>3. CASE ~Lists!Idle("phone")
  <2>1. lThere' = lThere \cap lJoined' /\ (lGrown' <=> lGrown \/ lJoined' # lJoined)
    BY <1>3 DEF Lists!Observe
  <2>2. ASSUME ~lMoved'
        PROVE  /\ ~lMoved /\ ~Lists!Ties'
               /\ lJoined \subseteq lJoined' /\ \A e \in lJoined : lStarts'[e] = lStarts[e]
               /\ lEvents' = lEvents /\ lScans' = lScans /\ lFence' = lFence
               /\ l = "page_rows" => lJoined' = lJoined
    BY <1>3, <2>2 DEF Lists!Observe, Lists!At, l
  <2>3. IsFiniteSet(lJoined') /\ \A e \in lJoined' : lStarts'[e] \in Nat
    BY FS_Subset DEF ListTypes, ListInv
  <2>4. ASSUME ~lMoved' PROVE Walks(l, r)'
    <3>1. ASSUME NEW e \in lThere', lStarts'[e] >= r.from, l \in Paging
          PROVE  e \in Range(r.listed) \/ Cardinality(Before(e)') >= (r.page - 1) * r.limit
      <4>1. e \in lThere /\ e \in lJoined /\ lStarts[e] >= r.from
        BY <2>1, <2>2, <2>4, <3>1 DEF ListInv, ListTypes
      <4>2. e \in Range(r.listed) \/ Cardinality(Before(e)) >= (r.page - 1) * r.limit
        BY <2>2, <2>4, <3>1, <4>1 DEF ListInv, ListKnows, Walks, l, r
      <4>3. Before(e) \subseteq Before(e)'
        BY <2>2, <2>4, <4>1 DEF Before
      <4>4. Before(e)' \subseteq lJoined'
        BY DEF Before
      <4>5. IsFiniteSet(Before(e)')
        BY <2>3, <4>4, FS_Subset
      <4>6. /\ Cardinality(Before(e)) <= Cardinality(Before(e)')
            /\ Cardinality(Before(e)) \in Nat /\ Cardinality(Before(e)') \in Nat
        BY <4>3, <4>5, FS_Subset, FS_CardinalityType
      <4>7. (r.page - 1) * r.limit \in Int
        BY DEF ListInv, ListTypes, ListRequest, r
      <4> QED BY <4>2, <4>6, <4>7
    <3>2. ASSUME l = "page_rows" PROVE r.total = Cardinality(Lists!Matching(r.from)')
      <4>1. Lists!Matching(r.from)' = Lists!Matching(r.from)
        BY <1>1, <2>2, <2>4, <3>2 DEF Lists!Matching
      <4> QED BY <2>2, <2>4, <3>2, <4>1 DEF ListInv, ListKnows, Walks, l, r
    <3>3. ASSUME l = "page_end", NEW e \in lThere', lStarts'[e] >= r.from PROVE e \in Range(r.listed)
      <4>1. e \in lThere /\ e \in lJoined /\ lStarts[e] >= r.from
        BY <2>1, <2>2, <2>4, <3>3 DEF ListInv, ListTypes
      <4> QED BY <2>2, <2>4, <3>3, <4>1 DEF ListInv, ListKnows, Walks, l, r
    <3> QED BY <1>1, <2>2, <2>4, <3>1, <3>2, <3>3 DEF Walks
  <2>5. ASSUME ~lMoved', ~lGrown'
        PROVE  Advances(l, r)' /\ ((Cardinality(lJoined) <= ListCap)' => Answers(l, r)')
    <3>1. lJoined' = lJoined /\ ~lMoved /\ ~lGrown
      BY <2>1, <2>2, <2>5
    <3>2. \A e \in lJoined : Before(e)' = Before(e) /\ AnswerFor(e)' = AnswerFor(e) /\ lStarts'[e] = lStarts[e]
      BY <2>2, <2>5, <3>1 DEF Before, AnswerFor
    <3>3. \A n : Upcoming(n)' = Upcoming(n) /\ Upcoming(n) \subseteq lJoined
      BY <2>2, <2>5, <3>1 DEF Upcoming
    <3>4. Advances(l, r)'
      <4>1. Advances(l, r)
        BY <3>1 DEF ListInv, ListKnows, l, r
      <4> QED BY <4>1, <1>1, <3>1, <3>2 DEF Advances
    <3>5. ASSUME Cardinality(lJoined) <= ListCap PROVE Answers(l, r)'
      <4>1. Answers(l, r)
        BY <3>1, <3>5 DEF ListInv, ListKnows, l, r
      <4>2. l \in {"subscribed_fences", "subscribed_scan"} => r.rows[1].event \in lJoined
        BY <4>1, <3>3 DEF Answers
      <4> QED BY <4>1, <4>2, <1>1, <3>1, <3>2, <3>3 DEF Answers
    <3> QED BY <3>1, <3>4, <3>5
  <2> QED BY <2>4, <2>5 DEF ListInv, ListKnows, l, r
<1> QED BY <1>2, <1>3

LEMMA ListBounds ==
  ASSUME Lists!ListingsAssumption
  PROVE  /\ IsFiniteSet(Listed) /\ ListTime \in Nat /\ ListCap \in Nat /\ ListCap >= 1
         /\ \A limit \in ListLimits : Lists!PageLimit(limit) \in 1..ListCap
         /\ Lists!PageLimit(ListAsked) = ListCap
<1>1. /\ ListCap \in Nat \ {0} /\ ListDefault \in Nat \ {0} /\ ListAsked \in Nat \ {0}
      /\ ListDefault <= ListCap /\ ListCap <= ListAsked /\ ListLimits \subseteq Nat
  BY DEF Lists!ListingsAssumption
<1>2. ASSUME NEW limit \in Nat PROVE Lists!PageLimit(limit) \in 1..ListCap
  BY <1>1 DEF Lists!PageLimit
<1>3. Lists!PageLimit(ListAsked) = ListCap
  BY <1>1 DEF Lists!PageLimit
<1> QED BY <1>1, <1>2, <1>3, ListFinite DEF Lists!ListingsAssumption

LEMMA NoListRequest == ASSUME Lists!ListingsAssumption PROVE Lists!NoRequest \in ListRequest
<1>1. ListTime \in Nat /\ ListCap \in Nat
  BY ListBounds
<1>2. 0 \in 0..ListTime /\ 0 \in 0..ListCap /\ 1 \in Nat \ {0}
  BY <1>1
<1> QED BY <1>2 DEF Lists!NoRequest, ListRequest

LEMMA PhoneStarts ==
  ASSUME ListInv, Lists!Idle("phone"), UNCHANGED Lists!tables, Lists!Observe, IsFiniteSet(Listed),
         NEW l \in {"page_count", "subscribed_rows"}, NEW r \in ListRequest,
         r.listed = <<>>, r.page = 1, ListCarries(l, r), Lists!Step("phone", l, r)
  PROVE  ListInv'
<1>1. /\ lPc'["phone"] = l /\ lReq'["phone"] = r
      /\ lPc' \in [{"phone"} -> ListLabels] /\ lReq' \in [{"phone"} -> ListRequest]
  BY ListMoves DEF ListInv, ListLabels, Paging
<1>2. UNCHANGED <<lEvents, lStarts, lScans, lFence, lJoined, lNow, lChanges>>
  BY DEF Lists!tables
<1>3. lThere' = lJoined' /\ lMoved' = Lists!Ties' /\ lGrown' = FALSE
  BY DEF Lists!Observe
<1>4. lMoved' \in BOOLEAN
  BY <1>3 DEF Lists!Ties
<1>5. ListTypes'
  BY <1>1, <1>2, <1>3, <1>4 DEF ListInv, ListTypes, ListCarries
<1>6. ASSUME ~lMoved', l = "page_count" PROVE Walks(lPc["phone"], lReq["phone"])'
  <2>1. ASSUME NEW e \in lThere' PROVE Cardinality(Before(e)') >= 0
    <3>1. Before(e)' \subseteq Listed
      BY <1>5 DEF Before, ListTypes
    <3> QED BY <3>1, FS_Subset, FS_CardinalityType
  <2>2. (r.page - 1) * r.limit = 0
    BY DEF ListRequest
  <2> QED BY <1>1, <1>3, <1>6, <2>1, <2>2 DEF Walks
<1>7. ASSUME ~lMoved', l = "subscribed_rows" PROVE Walks(lPc["phone"], lReq["phone"])'
  BY <1>1, <1>3, <1>7 DEF Walks, Paging
<1>8. Advances(lPc["phone"], lReq["phone"])' /\ Answers(lPc["phone"], lReq["phone"])'
  BY <1>1 DEF Advances, Answers, Paging, Subscribing
<1> QED BY <1>5, <1>6, <1>7, <1>8 DEF ListInv, ListKnows

LEMMA ListJoinsKeeps ==
  ASSUME ListInv, Lists!ListingsAssumption, Lists!ListJoins("phone"), Lists!Observe
  PROVE  ListInv'
<1>1. PICK from \in 0..ListTime, limit \in ListLimits :
        Lists!Start("phone", "page_count",
                    [Lists!NoRequest EXCEPT !.from = from, !.limit = Lists!PageLimit(limit)])
  BY DEF Lists!ListJoins
<1>2. PICK k \in 1..ListCap : k = Lists!PageLimit(limit)
  BY ListBounds
<1>3. PICK r : r = [Lists!NoRequest EXCEPT !.from = from, !.limit = k]
  OBVIOUS
<1>4. /\ r \in ListRequest /\ r.listed = <<>> /\ r.page = 1 /\ r.limit >= 1
      /\ r.rows = <<>> /\ r.answer = <<>>
  <2>1. r \in ListRequest
    <3>1. k \in 0..ListCap
      BY ListBounds
    <3> QED BY <1>3, <3>1, NoListRequest DEF ListRequest
  <2> QED BY <2>1, <1>2, <1>3 DEF Lists!NoRequest
<1>5. ListCarries("page_count", r)
  BY <1>4, ListBounds DEF ListCarries, Paging
<1> QED BY <1>1, <1>2, <1>3, <1>4, <1>5, PhoneStarts, ListBounds DEF Lists!ListJoins, Lists!Start

LEMMA SubscribeKeeps ==
  ASSUME ListInv, Lists!ListingsAssumption, Lists!Subscribe("phone"), Lists!Observe
  PROVE  ListInv'
<1>1. PICK r : r = [Lists!NoRequest EXCEPT !.now = lNow, !.limit = ListCap]
  OBVIOUS
<1>2. Lists!PageLimit(ListAsked) = ListCap /\ ListCap \in Nat /\ ListCap \in 0..ListCap /\ lNow \in Nat
  BY ListBounds DEF ListInv, ListTypes
<1>3. /\ r \in ListRequest /\ r.listed = <<>> /\ r.page = 1 /\ r.limit = ListCap
      /\ r.rows = <<>> /\ r.answer = <<>>
  <2>1. r \in ListRequest
    BY <1>1, <1>2, NoListRequest DEF ListRequest
  <2> QED BY <2>1, <1>1 DEF Lists!NoRequest
<1>4. ListCarries("subscribed_rows", r)
  BY <1>2, <1>3 DEF ListCarries, Paging
<1> QED BY <1>1, <1>2, <1>3, <1>4, PhoneStarts, ListBounds DEF Lists!Subscribe, Lists!Start

LEMMA ShownKeeps ==
  ASSUME ListInv, Lists!ListingsAssumption, Lists!Shown("phone"), Lists!Observe
  PROVE  ListInv'
<1>1. PICK r : r = Lists!NoRequest
  OBVIOUS
<1>2. r \in ListRequest /\ r.listed = <<>> /\ r.page = 1 /\ r.rows = <<>> /\ r.answer = <<>>
  BY <1>1 DEF ListRequest, Lists!NoRequest, Lists!ListingsAssumption
<1>3. ListCarries("idle", r)
  BY <1>2 DEF ListCarries, Paging, Lists!ListingsAssumption
<1>4. /\ Lists!Step("phone", "idle", r) /\ UNCHANGED Lists!tables
      /\ ~Lists!Idle("phone") /\ "idle" \in ListLabels
  BY <1>1 DEF Lists!Shown, Lists!At, Lists!Idle, ListLabels
<1>5. ~lMoved => Walks("idle", r)
  BY DEF Walks, Paging
<1>6. Advances("idle", r) /\ Answers("idle", r)
  BY DEF Advances, Answers, Paging, Subscribing
<1> QED BY <1>2, <1>3, <1>4, <1>5, <1>6, PhoneKeeps

LEMMA PageCountKeeps ==
  ASSUME ListInv, Lists!ListingsAssumption, Lists!PageCount("phone"), Lists!Observe
  PROVE  ListInv'
<1> DEFINE q == lReq["phone"]
<1>1. q \in ListRequest /\ ListCarries("page_count", q) /\ lPc["phone"] = "page_count"
  BY DEF ListInv, ListTypes, Lists!PageCount, Lists!At
<1>2. PICK n \in Nat : n = Cardinality(Lists!Matching(q.from))
  <2>1. Lists!Matching(q.from) \subseteq Listed
    BY DEF Lists!Matching, ListInv, ListTypes
  <2> QED BY <2>1, FS_Subset, FS_CardinalityType, ListFinite DEF Lists!ListingsAssumption
<1>3. PICK r : r = [q EXCEPT !.total = n]
  OBVIOUS
<1>4. /\ r \in ListRequest /\ r.listed = q.listed /\ r.page = q.page /\ r.limit = q.limit
      /\ r.from = q.from /\ r.rows = q.rows /\ r.answer = q.answer /\ r.total = n
  BY <1>1, <1>3 DEF ListRequest
<1>5. ListCarries("page_rows", r)
  BY <1>1, <1>4 DEF ListCarries, Paging
<1>6. /\ Lists!Step("phone", "page_rows", r) /\ UNCHANGED Lists!tables
      /\ ~Lists!Idle("phone") /\ "page_rows" \in ListLabels
  BY <1>1, <1>2, <1>3, ListCard DEF Lists!PageCount, Lists!Idle, ListLabels, Paging
<1>7. ASSUME ~lMoved PROVE Walks("page_rows", r)
  <2>1. Walks("page_count", q)
    BY <1>1, <1>7 DEF ListInv, ListKnows
  <2> QED BY <2>1, <1>2, <1>4 DEF Walks, Paging
<1>8. ASSUME ~lMoved, ~lGrown PROVE Advances("page_rows", r) /\ Answers("page_rows", r)
  <2>1. Advances("page_count", q)
    BY <1>1, <1>8 DEF ListInv, ListKnows
  <2> QED BY <2>1, <1>4 DEF Advances, Answers, Paging, Subscribing
<1> QED BY <1>4, <1>5, <1>6, <1>7, <1>8, PhoneKeeps

LEMMA PageRowsKeeps ==
  ASSUME ListInv, Lists!ListingsAssumption, Lists!PageRows("phone"), Lists!Observe
  PROVE  ListInv'
<1> DEFINE q == lReq["phone"]
<1>1. q \in ListRequest /\ ListCarries("page_rows", q) /\ lPc["phone"] = "page_rows"
  BY DEF ListInv, ListTypes, Lists!PageRows, Lists!At
<1>2. PICK rows \in Lists!Orders(q.from) :
        LET listed == q.listed \o Lists!Page(rows, q.page, q.limit)
        IN  IF Lists!HasMore(q.page, q.limit, q.total)
            THEN Lists!Step("phone", "page_count", [q EXCEPT !.listed = listed, !.page = @ + 1])
            ELSE Lists!Step("phone", "page_end", [q EXCEPT !.listed = listed])
  BY DEF Lists!PageRows
<1>3. /\ q.from \in Nat /\ q.page \in Nat \ {0} /\ q.limit \in Nat \ {0} /\ q.limit <= ListCap
      /\ q.listed \in Seq(Listed) /\ Len(q.listed) <= ListCap * (q.page - 1)
      /\ q.rows = <<>> /\ q.answer = <<>> /\ ListCap \in Nat
  BY <1>1, ListBounds DEF ListRequest, ListCarries, Paging
<1>4. IsFiniteSet(lJoined) /\ lJoined \subseteq Listed /\ \A e \in lJoined : lStarts[e] \in Nat
  BY ListBounds, FS_Subset DEF ListInv, ListTypes
<1>5. rows \in Seq(Listed)
  <2>1. Lists!Matching(q.from) \subseteq Listed
    BY <1>4 DEF Lists!Matching
  <2>2. Cardinality(Lists!Matching(q.from)) \in Nat
    BY <2>1, FS_Subset, FS_CardinalityType, ListBounds
  <2>3. rows \in [1..Cardinality(Lists!Matching(q.from)) -> Lists!Matching(q.from)]
    BY <1>2, ListCard DEF Lists!Orders, Lists!SetToSeqs
  <2> QED BY <2>1, <2>2, <2>3, SeqDef
<1> HIDE DEF q
<1>6. PICK t : t = Lists!Page(rows, q.page, q.limit)
  OBVIOUS
<1>7. PICK k \in Nat :
        /\ k = (q.page - 1) * q.limit /\ q.page * q.limit = k + q.limit
        /\ t \in Seq(Listed) /\ Len(t) <= q.limit
        /\ \A j \in DOMAIN t : j <= q.limit /\ k + j \in DOMAIN rows /\ t[j] = rows[k + j]
        /\ \A i \in DOMAIN rows : i > k /\ i <= k + q.limit => \E j \in DOMAIN t : t[j] = rows[i]
  <2>1. /\ Lists!Page(rows, q.page, q.limit) \in Seq(Listed)
        /\ \E k \in Nat : /\ k = (q.page - 1) * q.limit /\ q.page * q.limit = k + q.limit
                          /\ RowsAfter(Lists!Page(rows, q.page, q.limit), rows, k, q.limit)
    BY <1>3, <1>5, PageHas
  <2> QED BY <2>1, <1>6 DEF RowsAfter
<1>8. PICK listed : listed = q.listed \o t
  OBVIOUS
<1>9. listed \in Seq(Listed) /\ Len(listed) = Len(q.listed) + Len(t)
  BY <1>3, <1>7, <1>8, ConcatProperties
<1>10. /\ \A i \in DOMAIN q.listed : i \in DOMAIN listed /\ listed[i] = q.listed[i]
       /\ \A j \in DOMAIN t : Len(q.listed) + j \in DOMAIN listed /\ listed[Len(q.listed) + j] = t[j]
       /\ \A i \in DOMAIN listed :
            \/ i \in DOMAIN q.listed
            \/ \E j \in DOMAIN t : i = Len(q.listed) + j
  <2>1. PICK m \in Nat, n \in Nat : m = Len(q.listed) /\ n = Len(t)
    BY <1>3, <1>7, LenProperties
  <2>2. DOMAIN q.listed = 1..m /\ DOMAIN t = 1..n /\ DOMAIN listed = 1..(m + n)
    BY <1>3, <1>7, <1>9, <2>1, LenProperties
  <2>3. \A i \in 1..(m + n) : listed[i] = IF i <= m THEN q.listed[i] ELSE t[i - m]
    BY <1>3, <1>7, <1>8, <2>1, ConcatProperties
  <2>4. ASSUME NEW j \in 1..n PROVE m + j \in 1..(m + n) /\ listed[m + j] = t[j]
    <3>1. m + j \in 1..(m + n) /\ ~(m + j <= m) /\ m + j - m = j
      OBVIOUS
    <3> QED BY <3>1, <2>3
  <2>5. ASSUME NEW i \in 1..(m + n) PROVE i \in 1..m \/ \E j \in 1..n : i = m + j
    <3>1. CASE i > m
      <4>1. i - m \in 1..n /\ i = m + (i - m)
        BY <3>1
      <4> QED BY <4>1
    <3> QED BY <3>1
  <2>6. \A i \in DOMAIN q.listed : i \in DOMAIN listed /\ listed[i] = q.listed[i]
    BY <2>2, <2>3
  <2>7. \A j \in DOMAIN t : Len(q.listed) + j \in DOMAIN listed /\ listed[Len(q.listed) + j] = t[j]
    BY <2>1, <2>2, <2>4
  <2>8. \A i \in DOMAIN listed :
          \/ i \in DOMAIN q.listed
          \/ \E j \in DOMAIN t : i = Len(q.listed) + j
    BY <2>1, <2>2, <2>5
  <2> QED BY <2>6, <2>7, <2>8
<1>11. Len(listed) <= ListCap * q.page
  <2>1. ListCap * q.page = ListCap * (q.page - 1) + ListCap
    BY <1>3
  <2>2. PICK m \in Nat, n \in Nat : m = Len(q.listed) /\ n = Len(t)
    BY <1>3, <1>7, LenProperties
  <2>3. PICK z \in Nat : z = ListCap * (q.page - 1)
    BY <1>3
  <2>4. m <= z /\ n <= ListCap /\ Len(listed) = m + n
    BY <1>3, <1>7, <1>9, <2>2, <2>3
  <2> QED BY <1>3, <2>1, <2>2, <2>3, <2>4
<1>12. ASSUME ~lMoved
       PROVE  /\ ~Lists!Ties /\ q.total = Cardinality(Lists!Matching(q.from)) /\ q.total \in Nat
              /\ \A e \in lThere : lStarts[e] >= q.from =>
                   \/ e \in Range(listed)
                   \/ Cardinality(Before(e)) >= k + q.limit /\ q.total > k + q.limit
  <2>1. Walks("page_rows", q)
    BY <1>1, <1>12 DEF ListInv, ListKnows, q
  <2>2. ~Lists!Ties /\ q.total = Cardinality(Lists!Matching(q.from))
    BY <2>1 DEF Walks
  <2>3. PICK n \in Nat : n = Cardinality(Lists!Matching(q.from))
    BY <1>2, <1>4, <2>2, PlaceIs
  <2>4. /\ DOMAIN rows = 1..n /\ Range(rows) = Lists!Matching(q.from)
        /\ \A i \in DOMAIN rows : Cardinality(Before(rows[i])) = i - 1
    BY <1>2, <1>3, <1>4, <2>2, <2>3, PlaceIs
  <2>5. ASSUME NEW e \in lThere, lStarts[e] >= q.from, e \notin Range(listed)
        PROVE  Cardinality(Before(e)) >= k + q.limit /\ n > k + q.limit
    <3>1. e \in Range(rows)
      BY <2>4, <2>5 DEF Lists!Matching, ListInv, ListTypes
    <3>2. PICK i \in 1..n : rows[i] = e
      BY <3>1, <2>4 DEF Range
    <3>3. e \notin Range(q.listed)
      BY <2>5, <1>10 DEF Range
    <3>4. Cardinality(Before(e)) >= k /\ Cardinality(Before(e)) = i - 1
      BY <2>1, <2>4, <2>5, <3>2, <3>3, <1>7 DEF Walks, Paging
    <3>5. ~(i <= k + q.limit)
      <4>1. ASSUME i <= k + q.limit PROVE FALSE
        <5>1. i > k
          BY <3>4
        <5>2. PICK j \in DOMAIN t : t[j] = e
          BY <4>1, <5>1, <3>2, <2>4, <1>7
        <5> QED BY <5>2, <1>10, <2>5 DEF Range
      <4> QED BY <4>1
    <3> QED BY <1>3, <3>4, <3>5
  <2> QED BY <2>2, <2>3, <2>5
<1>13. ASSUME ~lMoved, ~lGrown
       PROVE  /\ \A i \in DOMAIN listed :
                   listed[i] \in lJoined /\ Cardinality(Before(listed[i])) < k + q.limit
              /\ \A i, j \in DOMAIN listed : listed[i] = listed[j] => i = j
  <2>1. Advances("page_rows", q) /\ Walks("page_rows", q)
    BY <1>1, <1>13 DEF ListInv, ListKnows, q
  <2>2. \A i \in DOMAIN q.listed : q.listed[i] \in lJoined /\ Cardinality(Before(q.listed[i])) < k
    BY <2>1, <1>7 DEF Advances, Paging
  <2>3. \A i, j \in DOMAIN q.listed : q.listed[i] = q.listed[j] => i = j
    BY <2>1 DEF Advances, Paging
  <2>4. /\ \A i, j \in DOMAIN rows : rows[i] = rows[j] => i = j
        /\ \A i \in DOMAIN rows : rows[i] \in lJoined /\ Cardinality(Before(rows[i])) = i - 1
        /\ DOMAIN rows \subseteq Nat
    <3>1. ~Lists!Ties
      BY <2>1 DEF Walks
    <3>2. Lists!Matching(q.from) \subseteq lJoined
      BY DEF Lists!Matching
    <3>3. /\ \A i, j \in DOMAIN rows : rows[i] = rows[j] => i = j
          /\ \A i \in DOMAIN rows : Cardinality(Before(rows[i])) = i - 1
          /\ rows \in [1..Cardinality(Lists!Matching(q.from)) -> Lists!Matching(q.from)]
          /\ Cardinality(Lists!Matching(q.from)) \in Nat
      BY <1>2, <1>3, <1>4, <3>1, PlaceIs
    <3> QED BY <3>2, <3>3
  <2>5. ASSUME NEW j \in DOMAIN t
        PROVE  /\ t[j] \in lJoined /\ Cardinality(Before(t[j])) = k + j - 1
               /\ j \in Nat /\ 1 <= j /\ j <= q.limit
    <3>1. DOMAIN t = 1..Len(t) /\ Len(t) \in Nat
      BY <1>7, LenProperties
    <3> QED BY <3>1, <2>4, <1>7
  <2>6. ASSUME NEW i \in DOMAIN t, NEW j \in DOMAIN t, t[i] = t[j] PROVE i = j
    <3>1. k + i - 1 = k + j - 1
      BY <2>5, <2>6
    <3> QED BY <3>1, <2>5
  <2>7. ASSUME NEW i \in DOMAIN q.listed, NEW j \in DOMAIN t, q.listed[i] = t[j] PROVE FALSE
    <3>1. Cardinality(Before(t[j])) < k
      BY <2>2, <2>7
    <3> QED BY <3>1, <2>5
  <2>8. ASSUME NEW i \in DOMAIN listed
        PROVE  listed[i] \in lJoined /\ Cardinality(Before(listed[i])) < k + q.limit
    <3>1. CASE i \in DOMAIN q.listed
      <4>1. listed[i] = q.listed[i] /\ q.listed[i] \in lJoined /\ Cardinality(Before(q.listed[i])) < k
        BY <3>1, <1>10, <2>2
      <4>2. Before(q.listed[i]) \subseteq lJoined
        BY DEF Before
      <4>3. Cardinality(Before(q.listed[i])) \in Nat
        BY <4>2, <1>4, FS_Subset, FS_CardinalityType
      <4> QED BY <4>1, <4>3, <1>3
    <3>2. ASSUME NEW j \in DOMAIN t, i = Len(q.listed) + j
          PROVE  listed[i] \in lJoined /\ Cardinality(Before(listed[i])) < k + q.limit
      <4>1. listed[i] = t[j]
        BY <3>2, <1>10
      <4> QED BY <4>1, <2>5, <1>3
    <3> QED BY <3>1, <3>2, <1>10
  <2>9. ASSUME NEW i \in DOMAIN listed, NEW j \in DOMAIN listed, listed[i] = listed[j] PROVE i = j
    <3>1. ASSUME i \in DOMAIN q.listed, j \in DOMAIN q.listed PROVE i = j
      BY <3>1, <2>9, <1>10, <2>3
    <3>2. ASSUME i \in DOMAIN q.listed, NEW b \in DOMAIN t, j = Len(q.listed) + b PROVE FALSE
      BY <3>2, <2>9, <1>10, <2>7
    <3>3. ASSUME j \in DOMAIN q.listed, NEW a \in DOMAIN t, i = Len(q.listed) + a PROVE FALSE
      BY <3>3, <2>9, <1>10, <2>7
    <3>4. ASSUME NEW a \in DOMAIN t, i = Len(q.listed) + a,
                 NEW b \in DOMAIN t, j = Len(q.listed) + b
          PROVE  i = j
      BY <3>4, <2>9, <1>10, <2>6
    <3> QED BY <3>1, <3>2, <3>3, <3>4, <1>10
  <2> QED BY <2>8, <2>9
<1>14. /\ UNCHANGED Lists!tables /\ ~Lists!Idle("phone") /\ "page_count" \in ListLabels
       /\ "page_end" \in ListLabels
  BY <1>1 DEF Lists!PageRows, Lists!Idle, ListLabels, Paging
<1>15. CASE Lists!HasMore(q.page, q.limit, q.total)
  <2>1. PICK r : r = [q EXCEPT !.listed = listed, !.page = q.page + 1]
    OBVIOUS
  <2>2. /\ r \in ListRequest /\ r.listed = listed /\ r.page = q.page + 1 /\ r.limit = q.limit
        /\ r.from = q.from /\ r.rows = <<>> /\ r.answer = <<>>
    <3>1. q.page + 1 \in Nat \ {0}
      BY <1>3
    <3>2. r \in ListRequest
      BY <1>1, <1>9, <2>1, <3>1 DEF ListRequest
    <3> QED BY <1>1, <1>3, <2>1, <3>2 DEF ListRequest
  <2>3. (r.page - 1) * r.limit = k + q.limit /\ r.page - 1 = q.page
    BY <1>3, <1>7, <2>2
  <2>4. ListCarries("page_count", r)
    <3>1. ListCap * r.page = ListCap * q.page + ListCap
      BY <1>3, <2>2
    <3>2. PICK m \in Nat : m = Len(listed)
      BY <1>9, LenProperties
    <3>3. PICK z \in Nat : z = ListCap * q.page
      BY <1>3
    <3>4. m <= ListCap * (r.page - 1) /\ m <= ListCap * r.page
      BY <1>3, <1>11, <2>2, <2>3, <3>1, <3>2, <3>3
    <3> QED BY <1>3, <2>2, <3>2, <3>4 DEF ListCarries, Paging
  <2>5. Lists!Step("phone", "page_count", r)
    BY <1>2, <1>6, <1>8, <1>15, <2>1 DEF q
  <2>6. ~lMoved => Walks("page_count", r)
    BY <1>12, <2>2, <2>3 DEF Walks, Paging
  <2>7. ~lMoved /\ ~lGrown => Advances("page_count", r)
    BY <1>13, <2>2, <2>3 DEF Advances, Paging
  <2>8. Answers("page_count", r)
    BY DEF Answers, Subscribing
  <2> QED BY <1>14, <2>2, <2>4, <2>5, <2>6, <2>7, <2>8, PhoneKeeps
<1>16. CASE ~Lists!HasMore(q.page, q.limit, q.total)
  <2>1. PICK r : r = [q EXCEPT !.listed = listed]
    OBVIOUS
  <2>2. /\ r \in ListRequest /\ r.listed = listed /\ r.page = q.page /\ r.limit = q.limit
        /\ r.from = q.from /\ r.rows = <<>> /\ r.answer = <<>>
    BY <1>1, <1>3, <1>9, <2>1 DEF ListRequest
  <2>3. ListCarries("page_end", r)
    BY <1>3, <1>11, <2>2 DEF ListCarries, Paging
  <2>4. Lists!Step("phone", "page_end", r)
    BY <1>2, <1>6, <1>8, <1>16, <2>1 DEF q
  <2>5. ASSUME ~lMoved PROVE Walks("page_end", r)
    <3>1. ~(q.total > k + q.limit)
      BY <1>3, <1>7, <1>12, <1>16, <2>5 DEF Lists!HasMore
    <3> QED BY <3>1, <1>12, <2>2, <2>5 DEF Walks, Paging
  <2>6. ~lMoved /\ ~lGrown => Advances("page_end", r)
    BY <1>13, <2>2 DEF Advances, Paging
  <2>7. Answers("page_end", r)
    BY DEF Answers, Subscribing
  <2> QED BY <1>14, <2>2, <2>3, <2>4, <2>5, <2>6, <2>7, PhoneKeeps
<1> QED BY <1>15, <1>16

-----------------------------------------------------------------------------
(* The subscribed events                                                   *)

LEMMA SubscribedRowsKeeps ==
  ASSUME ListInv, Lists!ListingsAssumption, Lists!SubscribedRows("phone"), Lists!Observe
  PROVE  ListInv'
<1> DEFINE q == lReq["phone"]
           label == "subscribed_event"
<1>1. q \in ListRequest /\ ListCarries("subscribed_rows", q) /\ lPc["phone"] = "subscribed_rows"
  BY DEF ListInv, ListTypes, Lists!SubscribedRows, Lists!At
<1>2. PICK rows \in Lists!Orders(0) :
        Lists!Step("phone", label,
             [q EXCEPT !.rows = [i \in DOMAIN Lists!Page(rows, 1, q.limit) |->
                                   [event |-> rows[i], start |-> lStarts[rows[i]]]]])
  BY DEF Lists!SubscribedRows
<1>3. /\ q.limit = ListCap /\ q.answer = <<>> /\ ListCap \in Nat \ {0}
      /\ Len(q.listed) <= ListCap * q.page
  BY <1>1, ListBounds DEF ListCarries, Paging
<1> HIDE DEF q
<1>4. /\ IsFiniteSet(lJoined) /\ lJoined \subseteq Listed
      /\ \A e \in lJoined : lStarts[e] \in Nat /\ lStarts[e] \in 0..ListTime
  BY ListBounds, FS_Subset DEF ListInv, ListTypes
<1>5. Lists!Matching(0) = lJoined
  BY <1>4 DEF Lists!Matching
<1>6. PICK n \in Nat : n = Cardinality(lJoined)
  BY <1>4, FS_CardinalityType
<1>7. rows \in [1..n -> lJoined] /\ rows \in Seq(Listed) /\ Len(rows) = n
  <2>1. rows \in [1..n -> lJoined]
    BY <1>2, <1>5, <1>6, ListCard DEF Lists!Orders, Lists!SetToSeqs
  <2>2. rows \in [1..n -> Listed]
    BY <2>1, <1>4
  <2>3. rows \in Seq(Listed)
    BY <2>2, SeqDef
  <2> QED BY <2>1, <2>3, LenProperties
<1>8. PICK t : t = Lists!Page(rows, 1, ListCap)
  OBVIOUS
<1>9. PICK k \in Nat : k = (1 - 1) * ListCap /\ RowsAfter(t, rows, k, ListCap) /\ t \in Seq(Listed)
  <2>1. 1 \in Nat \ {0}
    OBVIOUS
  <2> QED BY <2>1, <1>3, <1>7, <1>8, PageHas
<1>10. k = 0 /\ t \in Seq(Listed) /\ Len(t) <= ListCap
  BY <1>3, <1>9 DEF RowsAfter
<1>11. PICK m \in Nat : m = Len(t) /\ DOMAIN t = 1..m /\ m <= ListCap
  BY <1>10, LenProperties
<1>12. \A j \in 1..m : j \in 1..n /\ t[j] = rows[j]
  BY <1>7, <1>9, <1>10, <1>11 DEF RowsAfter
<1>13. PICK list : list = [i \in 1..m |-> [event |-> rows[i], start |-> lStarts[rows[i]]]]
  OBVIOUS
<1>14. /\ list \in Seq(ListRow) /\ Len(list) = m
       /\ \A i \in 1..m : list[i].event = rows[i] /\ list[i].start = lStarts[rows[i]]
  <2>1. list \in [1..m -> ListRow]
    BY <1>4, <1>7, <1>12, <1>13 DEF ListRow
  <2>2. list \in Seq(ListRow)
    BY <2>1, SeqDef
  <2> QED BY <2>1, <2>2, <1>13, LenProperties
<1>15. PICK r : r = [q EXCEPT !.rows = list]
  OBVIOUS
<1>16. /\ r \in ListRequest /\ r.rows = list /\ r.answer = <<>> /\ r.listed = q.listed
       /\ r.page = q.page
  BY <1>1, <1>3, <1>14, <1>15 DEF ListRequest
<1>17. ListCarries(label, r)
  BY <1>3, <1>11, <1>14, <1>16 DEF ListCarries, Paging
<1>18. Lists!Step("phone", label, r)
  BY <1>2, <1>3, <1>8, <1>11, <1>13, <1>15
<1>19. UNCHANGED Lists!tables /\ ~Lists!Idle("phone") /\ label \in ListLabels
  BY <1>1 DEF Lists!SubscribedRows, Lists!Idle, ListLabels, Subscribing
<1>20. ~lMoved => Walks(label, r)
  BY <1>1 DEF Walks, Paging, ListInv, ListKnows
<1>21. Advances(label, r)
  BY DEF Advances, Paging
<1>22. ASSUME ~lMoved, Cardinality(lJoined) <= ListCap PROVE Answers(label, r)
  <2>1. \A e \in lJoined : \E i \in 1..m : rows[i] = e
    <3>1. ~Lists!Ties
      BY <1>1, <1>22 DEF ListInv, ListKnows, Walks
    <3>2. Range(rows) = lJoined
      BY <1>2, <1>4, <1>5, <3>1, PlaceIs
    <3>3. ASSUME NEW i \in 1..n PROVE \E j \in 1..m : rows[j] = rows[i]
      <4>1. i \in DOMAIN rows /\ i > k /\ i <= k + ListCap
        BY <1>3, <1>6, <1>7, <1>10, <1>22
      <4> QED BY <4>1, <1>9, <1>11, <1>12 DEF RowsAfter
    <3> QED BY <3>2, <3>3, <1>7 DEF Range
  <2>2. DOMAIN r.rows = 1..m /\ DOMAIN r.answer = {}
    BY <1>14, <1>16, LenProperties
  <2>3. \A i \in DOMAIN r.rows :
          r.rows[i].event \in lJoined /\ r.rows[i].start = lStarts[r.rows[i].event]
    BY <2>2, <1>7, <1>12, <1>14, <1>16
  <2>4. \A e \in Upcoming(r.now) : \E i \in DOMAIN r.rows : r.rows[i].event = e
    BY <2>1, <2>2, <1>14, <1>16 DEF Upcoming
  <2> QED BY <2>2, <2>3, <2>4 DEF Answers
<1> QED BY <1>16, <1>17, <1>18, <1>19, <1>20, <1>21, <1>22, PhoneKeeps

\* The first row is looked at: it is over, or the next statements are about it.
LEMMA SubscribedEventKeeps ==
  ASSUME ListInv, Lists!ListingsAssumption, Lists!SubscribedEvent("phone"), Lists!Observe
  PROVE  ListInv'
<1> DEFINE q == lReq["phone"]
<1>1. q \in ListRequest /\ ListCarries("subscribed_event", q) /\ lPc["phone"] = "subscribed_event"
  BY DEF ListInv, ListTypes, Lists!SubscribedEvent, Lists!At
<1>2. /\ UNCHANGED Lists!tables /\ ~Lists!Idle("phone")
      /\ {"subscribed_event", "subscribed_end", "subscribed_fences"} \subseteq ListLabels
  BY <1>1 DEF Lists!SubscribedEvent, Lists!Idle, ListLabels, Subscribing
<1>3. ASSUME NEW l, NEW r, l \notin Paging \cup {"page_end"} PROVE (~lMoved => Walks(l, r)) /\ Advances(l, r)
  BY <1>1, <1>3 DEF Walks, Advances, Paging, ListInv, ListKnows
<1>4. ASSUME ~lMoved, ~lGrown, Cardinality(lJoined) <= ListCap PROVE Answers("subscribed_event", q)
  BY <1>1, <1>4 DEF ListInv, ListKnows
<1>5. /\ q.rows \in Seq(ListRow) /\ q.answer \in Seq(ListAnswer)
      /\ Len(q.rows) + Len(q.answer) <= ListCap /\ ListCap \in Nat
  BY <1>1, ListBounds DEF ListRequest, ListCarries
<1>6. CASE q.rows = <<>>
  <2>1. Lists!Step("phone", "subscribed_end", q)
    BY <1>6, ListGotoMoves DEF Lists!SubscribedEvent, ListInv
  <2>2. ListCarries("subscribed_end", q)
    BY <1>1 DEF ListCarries, Paging
  <2>3. ASSUME ~lMoved, ~lGrown, Cardinality(lJoined) <= ListCap PROVE Answers("subscribed_end", q)
    BY <1>4, <1>6, <2>3 DEF Answers, Subscribing
  <2> QED BY <1>1, <1>2, <1>3, <2>1, <2>2, <2>3, PhoneKeeps DEF Paging
<1>7. CASE q.rows # <<>> /\ Lists!Over(q.rows[1].start, q.now)
  <2>1. PICK m \in Nat : m = Len(q.rows) /\ m >= 1 /\ DOMAIN q.rows = 1..m
    BY <1>5, <1>7, LenProperties, EmptySeq
  <2>2. PICK t : t = Tail(q.rows)
    OBVIOUS
  <2>3. /\ t \in Seq(ListRow) /\ Len(t) = m - 1 /\ DOMAIN t = 1..(m - 1)
        /\ \A i \in 1..(m - 1) : t[i] = q.rows[i + 1]
    <3>1. t \in Seq(ListRow) /\ Len(t) = m - 1 /\ \A i \in 1..Len(t) : t[i] = q.rows[i + 1]
      BY <1>5, <1>7, <2>1, <2>2, HeadTailProperties
    <3> QED BY <3>1, LenProperties
  <2>4. PICK r : r = [q EXCEPT !.rows = t]
    OBVIOUS
  <2>5. /\ r \in ListRequest /\ r.rows = t /\ r.answer = q.answer /\ r.listed = q.listed
        /\ r.page = q.page /\ r.now = q.now
    BY <1>1, <2>3, <2>4 DEF ListRequest
  <2>6. ListCarries("subscribed_event", r)
    <3>1. PICK a \in Nat : a = Len(q.answer)
      BY <1>5, LenProperties
    <3>2. m + a <= ListCap
      BY <1>5, <2>1, <3>1
    <3>3. Len(r.rows) = m - 1 /\ Len(r.answer) = a
      BY <2>3, <2>5, <3>1
    <3>4. Len(r.rows) + Len(r.answer) <= ListCap
      BY <1>5, <3>2, <3>3
    <3> QED BY <1>1, <2>5, <3>4 DEF ListCarries, Paging
  <2>7. Lists!Step("phone", "subscribed_event", r)
    BY <1>7, <2>2, <2>4 DEF Lists!SubscribedEvent
  <2>8. ASSUME ~lMoved, ~lGrown, Cardinality(lJoined) <= ListCap PROVE Answers("subscribed_event", r)
    <3>1. /\ \A i \in DOMAIN q.rows :
               q.rows[i].event \in lJoined /\ q.rows[i].start = lStarts[q.rows[i].event]
          /\ \A i \in DOMAIN q.answer : \E e \in Upcoming(q.now) : q.answer[i] = AnswerFor(e)
          /\ \A e \in Upcoming(q.now) :
               \/ \E i \in DOMAIN q.answer : q.answer[i] = AnswerFor(e)
               \/ \E i \in DOMAIN q.rows : q.rows[i].event = e
      BY <1>4, <2>8 DEF Answers, Subscribing
    <3>2. q.rows[1].event \notin Upcoming(q.now)
      <4>1. lStarts[q.rows[1].event] = q.rows[1].start /\ q.rows[1].event \in lJoined
        BY <2>1, <3>1
      <4>2. lStarts[q.rows[1].event] \in Nat /\ q.now \in Nat
        BY <1>1, <4>1 DEF ListInv, ListTypes, ListRequest
      <4> QED BY <1>7, <4>1, <4>2 DEF Upcoming, Lists!Over
    <3>3. ASSUME NEW e \in Upcoming(q.now), NEW i \in 1..m, q.rows[i].event = e
          PROVE  \E j \in 1..(m - 1) : t[j].event = e
      <4>1. i # 1
        BY <3>2, <3>3
      <4>2. i - 1 \in 1..(m - 1) /\ i - 1 + 1 = i
        BY <4>1
      <4> QED BY <4>2, <2>3, <3>3
    <3>4. ASSUME NEW i \in 1..(m - 1) PROVE i + 1 \in 1..m /\ t[i] = q.rows[i + 1]
      BY <2>3
    <3>5. \A i \in DOMAIN r.rows :
            r.rows[i].event \in lJoined /\ r.rows[i].start = lStarts[r.rows[i].event]
      <4>1. ASSUME NEW i \in 1..(m - 1) PROVE t[i].event \in lJoined /\ t[i].start = lStarts[t[i].event]
        <5>1. i + 1 \in 1..m /\ t[i] = q.rows[i + 1]
          BY <3>4
        <5>2. i + 1 \in DOMAIN q.rows
          BY <2>1, <5>1
        <5> HIDE DEF q
        <5> QED BY <3>1, <5>1, <5>2
      <4> QED BY <4>1, <2>3, <2>5
    <3>6. \A e \in Upcoming(r.now) :
            \/ \E i \in DOMAIN r.answer : r.answer[i] = AnswerFor(e)
            \/ \E i \in DOMAIN r.rows : r.rows[i].event = e
      <4>1. ASSUME NEW e \in Upcoming(q.now)
            PROVE  \/ \E i \in DOMAIN q.answer : q.answer[i] = AnswerFor(e)
                   \/ \E j \in 1..(m - 1) : t[j].event = e
        BY <2>1, <3>1, <3>3
      <4> QED BY <4>1, <2>3, <2>5
    <3> QED BY <2>5, <3>1, <3>5, <3>6 DEF Answers
  <2> QED BY <1>2, <1>3, <2>5, <2>6, <2>7, <2>8, PhoneKeeps DEF Paging
<1>8. CASE q.rows # <<>> /\ ~Lists!Over(q.rows[1].start, q.now)
  <2>1. Lists!Step("phone", "subscribed_fences", q)
    BY <1>8, ListGotoMoves DEF Lists!SubscribedEvent, ListInv
  <2>2. ListCarries("subscribed_fences", q)
    BY <1>1, <1>8 DEF ListCarries, Paging
  <2>3. ASSUME ~lMoved, ~lGrown, Cardinality(lJoined) <= ListCap PROVE Answers("subscribed_fences", q)
    <3>1. Answers("subscribed_event", q)
      BY <1>4, <2>3
    <3>2. 1 \in DOMAIN q.rows
      BY <1>5, <1>8, LenProperties, EmptySeq
    <3>3. q.rows[1].event \in lJoined /\ q.rows[1].start = lStarts[q.rows[1].event]
      BY <3>1, <3>2 DEF Answers, Subscribing
    <3>4. lStarts[q.rows[1].event] \in Nat /\ q.now \in Nat
      BY <1>1, <3>3 DEF ListInv, ListTypes, ListRequest
    <3>5. q.rows[1].event \in Upcoming(q.now)
      BY <1>8, <3>3, <3>4 DEF Upcoming, Lists!Over
    <3> QED BY <3>1, <3>5 DEF Answers, Subscribing
  <2> QED BY <1>1, <1>2, <1>3, <2>1, <2>2, <2>3, PhoneKeeps DEF Paging
<1> QED BY <1>6, <1>7, <1>8

LEMMA SubscribedFencesKeeps ==
  ASSUME ListInv, Lists!ListingsAssumption, Lists!SubscribedFences("phone"), Lists!Observe
  PROVE  ListInv'
<1> DEFINE q == lReq["phone"]
           label == "subscribed_scan"
<1>1. q \in ListRequest /\ ListCarries("subscribed_fences", q) /\ lPc["phone"] = "subscribed_fences"
  BY DEF ListInv, ListTypes, Lists!SubscribedFences, Lists!At
<1>2. PICK f : f = IF lFence[q.rows[1].event] = "drawn" THEN "drawn" ELSE "none"
  OBVIOUS
<1>3. PICK r : r = [q EXCEPT !.fence = f]
  OBVIOUS
<1>4. /\ r \in ListRequest /\ r.rows = q.rows /\ r.answer = q.answer /\ r.listed = q.listed
      /\ r.page = q.page /\ r.now = q.now /\ r.fence = f
  BY <1>1, <1>2, <1>3 DEF ListRequest
<1>5. ListCarries(label, r)
  BY <1>1, <1>4 DEF ListCarries, Paging
<1>6. Lists!Step("phone", label, r)
  BY <1>2, <1>3 DEF Lists!SubscribedFences
<1>7. UNCHANGED Lists!tables /\ ~Lists!Idle("phone") /\ label \in ListLabels
  BY <1>1 DEF Lists!SubscribedFences, Lists!Idle, ListLabels, Subscribing
<1>8. ~lMoved => Walks(label, r)
  BY <1>1 DEF Walks, Paging, ListInv, ListKnows
<1>9. Advances(label, r)
  BY DEF Advances, Paging
<1>10. ASSUME ~lMoved, ~lGrown, Cardinality(lJoined) <= ListCap PROVE Answers(label, r)
  <2>1. Answers("subscribed_fences", q)
    BY <1>1, <1>10 DEF ListInv, ListKnows
  <2>2. r.fence = AnswerFor(r.rows[1].event).fence
    BY <1>2, <1>4 DEF AnswerFor
  <2> QED BY <2>1, <2>2, <1>4 DEF Answers, Subscribing
<1> QED BY <1>4, <1>5, <1>6, <1>7, <1>8, <1>9, <1>10, PhoneKeeps

\* The first row is answered.
LEMMA SubscribedScanKeeps ==
  ASSUME ListInv, Lists!ListingsAssumption, Lists!SubscribedScan("phone"), Lists!Observe
  PROVE  ListInv'
<1> DEFINE q == lReq["phone"]
           label == "subscribed_event"
<1>1. q \in ListRequest /\ ListCarries("subscribed_scan", q) /\ lPc["phone"] = "subscribed_scan"
  BY DEF ListInv, ListTypes, Lists!SubscribedScan, Lists!At
<1>2. /\ q.rows \in Seq(ListRow) /\ q.rows # <<>> /\ q.answer \in Seq(ListAnswer)
      /\ Len(q.rows) + Len(q.answer) <= ListCap /\ ListCap \in Nat /\ q.fence \in {"none", "drawn"}
  BY <1>1, ListBounds DEF ListRequest, ListCarries
<1>3. PICK m \in Nat : m = Len(q.rows) /\ m >= 1 /\ DOMAIN q.rows = 1..m
  BY <1>2, LenProperties, EmptySeq
<1>4. PICK a \in Nat : a = Len(q.answer) /\ DOMAIN q.answer = 1..a
  BY <1>2, LenProperties
<1>5. PICK first : first = q.rows[1].event
  OBVIOUS
<1>6. first \in Listed
  <2>1. q.rows[1] \in ListRow
    BY <1>2, <1>3, ElementOfSeq
  <2> QED BY <2>1, <1>5 DEF ListRow
<1>7. PICK entry : entry = [event |-> first, fence |-> q.fence, scan |-> first \in lScans]
  OBVIOUS
<1>8. PICK t : t = Tail(q.rows)
  OBVIOUS
<1>9. /\ t \in Seq(ListRow) /\ Len(t) = m - 1 /\ DOMAIN t = 1..(m - 1)
      /\ \A i \in 1..(m - 1) : t[i] = q.rows[i + 1]
  <2>1. t \in Seq(ListRow) /\ Len(t) = m - 1 /\ \A i \in 1..Len(t) : t[i] = q.rows[i + 1]
    BY <1>2, <1>3, <1>8, HeadTailProperties
  <2> QED BY <2>1, LenProperties
<1>10. PICK u : u = Append(q.answer, entry)
  OBVIOUS
<1>11. /\ u \in Seq(ListAnswer) /\ Len(u) = a + 1 /\ DOMAIN u = 1..(a + 1)
       /\ u[a + 1] = entry /\ \A i \in 1..a : u[i] = q.answer[i]
  <2>1. entry \in ListAnswer
    BY <1>2, <1>6, <1>7 DEF ListAnswer
  <2>2. /\ u \in Seq(ListAnswer) /\ Len(u) = a + 1
        /\ u[a + 1] = entry /\ \A i \in 1..a : u[i] = q.answer[i]
    BY <1>2, <1>4, <1>10, <2>1, AppendProperties
  <2> QED BY <2>2, LenProperties
<1>12. PICK r : r = [q EXCEPT !.rows = t, !.answer = u]
  OBVIOUS
<1>13. /\ r \in ListRequest /\ r.rows = t /\ r.answer = u /\ r.listed = q.listed
       /\ r.page = q.page /\ r.now = q.now
  BY <1>1, <1>9, <1>11, <1>12 DEF ListRequest
<1>14. ListCarries(label, r)
  <2>1. Len(r.rows) + Len(r.answer) <= ListCap
    <3>1. Len(r.rows) = m - 1 /\ Len(r.answer) = a + 1 /\ m + a <= ListCap
      BY <1>2, <1>3, <1>4, <1>9, <1>11, <1>13
    <3> QED BY <3>1, <1>2
  <2> QED BY <1>1, <1>13, <2>1 DEF ListCarries, Paging
<1>15. Lists!Step("phone", label, r)
  BY <1>5, <1>7, <1>8, <1>10, <1>12 DEF Lists!SubscribedScan
<1>16. UNCHANGED Lists!tables /\ ~Lists!Idle("phone") /\ label \in ListLabels
  BY <1>1 DEF Lists!SubscribedScan, Lists!Idle, ListLabels, Subscribing
<1>17. ~lMoved => Walks(label, r)
  BY <1>1 DEF Walks, Paging, ListInv, ListKnows
<1>18. Advances(label, r)
  BY DEF Advances, Paging
<1>19. ASSUME ~lMoved, ~lGrown, Cardinality(lJoined) <= ListCap PROVE Answers(label, r)
  <2>1. Answers("subscribed_scan", q)
    BY <1>1, <1>19 DEF ListInv, ListKnows
  <2>2. /\ \A i \in DOMAIN q.rows :
             q.rows[i].event \in lJoined /\ q.rows[i].start = lStarts[q.rows[i].event]
        /\ \A i \in DOMAIN q.answer : \E e \in Upcoming(q.now) : q.answer[i] = AnswerFor(e)
        /\ \A e \in Upcoming(q.now) :
             \/ \E i \in DOMAIN q.answer : q.answer[i] = AnswerFor(e)
             \/ \E i \in DOMAIN q.rows : q.rows[i].event = e
        /\ first \in Upcoming(q.now) /\ q.fence = AnswerFor(first).fence
    BY <2>1, <1>5 DEF Answers, Subscribing
  <2>3. entry = AnswerFor(first)
    <3>1. q.fence = IF lFence[first] = "drawn" THEN "drawn" ELSE "none"
      BY <2>2 DEF AnswerFor
    <3> QED BY <3>1, <1>7 DEF AnswerFor
  <2>4. ASSUME NEW i \in 1..(m - 1) PROVE t[i].event \in lJoined /\ t[i].start = lStarts[t[i].event]
    <3>1. i + 1 \in 1..m /\ t[i] = q.rows[i + 1]
      BY <1>9
    <3> QED BY <3>1, <2>2, <1>3
  <2>5. ASSUME NEW i \in 1..(a + 1) PROVE \E e \in Upcoming(q.now) : u[i] = AnswerFor(e)
    <3>1. CASE i = a + 1
      BY <3>1, <2>2, <2>3, <1>11
    <3>2. CASE i # a + 1
      <4>1. i \in 1..a
        BY <3>2
      <4> QED BY <4>1, <2>2, <1>4, <1>11
    <3> QED BY <3>1, <3>2
  <2>6. ASSUME NEW e \in Upcoming(q.now)
        PROVE  (\E i \in 1..(a + 1) : u[i] = AnswerFor(e)) \/ \E j \in 1..(m - 1) : t[j].event = e
    <3>1. ASSUME NEW i \in 1..a, q.answer[i] = AnswerFor(e) PROVE \E j \in 1..(a + 1) : u[j] = AnswerFor(e)
      <4>1. i \in 1..(a + 1) /\ u[i] = AnswerFor(e)
        BY <3>1, <1>11
      <4> QED BY <4>1
    <3>2. ASSUME NEW i \in 1..m, q.rows[i].event = e, i # 1 PROVE \E j \in 1..(m - 1) : t[j].event = e
      <4>1. i - 1 \in 1..(m - 1) /\ i - 1 + 1 = i
        BY <3>2
      <4> QED BY <4>1, <1>9, <3>2
    <3>3. ASSUME q.rows[1].event = e PROVE \E j \in 1..(a + 1) : u[j] = AnswerFor(e)
      <4>1. a + 1 \in 1..(a + 1) /\ u[a + 1] = AnswerFor(e)
        BY <3>3, <2>3, <1>5, <1>11
      <4> QED BY <4>1
    <3> QED BY <3>1, <3>2, <3>3, <2>2, <1>3, <1>4
  <2>7. \A i \in DOMAIN r.rows :
          r.rows[i].event \in lJoined /\ r.rows[i].start = lStarts[r.rows[i].event]
    BY <2>4, <1>9, <1>13
  <2>8. \A i \in DOMAIN r.answer : \E e \in Upcoming(r.now) : r.answer[i] = AnswerFor(e)
    BY <2>5, <1>11, <1>13
  <2>9. \A e \in Upcoming(r.now) :
          \/ \E i \in DOMAIN r.answer : r.answer[i] = AnswerFor(e)
          \/ \E i \in DOMAIN r.rows : r.rows[i].event = e
    BY <2>6, <1>9, <1>11, <1>13
  <2> QED BY <2>7, <2>8, <2>9 DEF Answers
<1> QED BY <1>13, <1>14, <1>15, <1>16, <1>17, <1>18, <1>19, PhoneKeeps

-----------------------------------------------------------------------------
\* What others do to the tables.
LEMMA OthersFit ==
  ASSUME ListInv, Lists!ListingsAssumption, Lists!Observe,
         \/ Lists!Join \/ Lists!Leave \/ Lists!Reschedule \/ Lists!DeleteEvent
         \/ Lists!SwitchScan \/ Lists!ChangeFence \/ Lists!Tick
  PROVE  ListTypes' /\ UNCHANGED <<lPc, lReq>>
<1>1. lChanges' \in 0..ListChanges /\ UNCHANGED <<lPc, lReq>>
  BY DEF Lists!Join, Lists!Leave, Lists!Reschedule, Lists!DeleteEvent, Lists!SwitchScan,
         Lists!ChangeFence, Lists!Tick, Lists!Change, Lists!workers, ListInv, ListTypes,
         Lists!ListingsAssumption
<1>2. /\ lEvents' \subseteq Listed /\ lScans' \subseteq lEvents' /\ lJoined' \subseteq lEvents'
      /\ lStarts' \in [Listed -> 0..ListTime]
      /\ lFence' \in [Listed -> {"none", "drawn", "shapeless"}] /\ lNow' \in 1..(ListTime + 1)
  <2>1. CASE Lists!Join
    BY <2>1 DEF Lists!Join, ListInv, ListTypes
  <2>2. CASE Lists!Leave
    BY <2>2 DEF Lists!Leave, ListInv, ListTypes
  <2>3. CASE Lists!Reschedule
    BY <2>3 DEF Lists!Reschedule, ListInv, ListTypes
  <2>4. CASE Lists!DeleteEvent
    BY <2>4 DEF Lists!DeleteEvent, ListInv, ListTypes
  <2>5. CASE Lists!SwitchScan
    <3>1. PICK e \in lEvents : lScans' = IF e \in lScans THEN lScans \ {e} ELSE lScans \cup {e}
      BY <2>5 DEF Lists!SwitchScan
    <3> QED BY <2>5, <3>1 DEF Lists!SwitchScan, ListInv, ListTypes
  <2>6. CASE Lists!ChangeFence
    BY <2>6 DEF Lists!ChangeFence, ListInv, ListTypes
  <2>7. CASE Lists!Tick
    BY <2>7 DEF Lists!Tick, ListInv, ListTypes, Lists!ListingsAssumption
  <2> QED BY <2>1, <2>2, <2>3, <2>4, <2>5, <2>6, <2>7
<1>3. /\ lThere' \subseteq lJoined' /\ lMoved' \in BOOLEAN /\ lGrown' \in BOOLEAN
  BY DEF Lists!Observe, Lists!Ties, ListInv, ListTypes
<1> QED BY <1>1, <1>2, <1>3 DEF ListInv, ListTypes

LEMMA NextLists ==
  ASSUME ListInv, Lists!ListingsAssumption, [Lists!Next]_(Lists!vars)
  PROVE  ListInv'
<1>1. CASE UNCHANGED Lists!vars
  <2>1. UNCHANGED <<lEvents, lStarts, lScans, lFence, lJoined, lNow, lChanges, lThere, lMoved,
                    lGrown, lPc, lReq>>
    BY <1>1 DEF Lists!vars, Lists!tables, Lists!workers
  <2>2. ListTypes'
    BY <2>1 DEF ListInv, ListTypes, ListCarries
  <2>3. /\ \A e : Before(e)' = Before(e) /\ AnswerFor(e)' = AnswerFor(e)
        /\ \A n : Upcoming(n)' = Upcoming(n)
        /\ \A n : Lists!Matching(n)' = Lists!Matching(n)
        /\ Lists!Ties' = Lists!Ties
    BY <2>1 DEF Before, AnswerFor, Upcoming, Lists!Matching, Lists!Ties
  <2>4. ASSUME NEW l, NEW r
        PROVE  /\ Walks(l, r) => Walks(l, r)'
               /\ Advances(l, r) => Advances(l, r)'
               /\ Answers(l, r) => Answers(l, r)'
    <3>1. Walks(l, r) => Walks(l, r)'
      BY <2>1, <2>3 DEF Walks
    <3>2. Advances(l, r) => Advances(l, r)'
      BY <2>1, <2>3 DEF Advances
    <3>3. Answers(l, r) => Answers(l, r)'
      BY <2>1, <2>3 DEF Answers
    <3> QED BY <3>1, <3>2, <3>3
  <2> QED BY <2>1, <2>2, <2>4 DEF ListInv, ListKnows
<1>2. CASE Lists!Observe /\ (Lists!Join \/ Lists!Leave \/ Lists!Reschedule \/ Lists!DeleteEvent
                             \/ Lists!SwitchScan \/ Lists!ChangeFence \/ Lists!Tick)
  BY <1>2, OthersFit, OthersKeepLists, ListBounds
<1>3. CASE Lists!Observe /\ Lists!ListJoins("phone")
  BY <1>3, ListJoinsKeeps
<1>4. CASE Lists!Observe /\ Lists!PageCount("phone")
  BY <1>4, PageCountKeeps
<1>5. CASE Lists!Observe /\ Lists!PageRows("phone")
  BY <1>5, PageRowsKeeps
<1>6. CASE Lists!Observe /\ Lists!Subscribe("phone")
  BY <1>6, SubscribeKeeps
<1>7. CASE Lists!Observe /\ Lists!SubscribedRows("phone")
  BY <1>7, SubscribedRowsKeeps
<1>8. CASE Lists!Observe /\ Lists!SubscribedEvent("phone")
  BY <1>8, SubscribedEventKeeps
<1>9. CASE Lists!Observe /\ Lists!SubscribedFences("phone")
  BY <1>9, SubscribedFencesKeeps
<1>10. CASE Lists!Observe /\ Lists!SubscribedScan("phone")
  BY <1>10, SubscribedScanKeeps
<1>11. CASE Lists!Observe /\ Lists!Shown("phone")
  BY <1>11, ShownKeeps
<1> QED BY <1>1, <1>2, <1>3, <1>4, <1>5, <1>6, <1>7, <1>8, <1>9, <1>10, <1>11 DEF Lists!Next

LEMMA InitLists == ASSUME Lists!ListingsAssumption, Lists!Init PROVE ListInv
<1>1. /\ lPc["phone"] = "idle" /\ lReq["phone"] = Lists!NoRequest
      /\ lPc \in [{"phone"} -> ListLabels] /\ lReq \in [{"phone"} -> ListRequest]
  BY NoListRequest DEF Lists!Init, ListLabels
<1>2. ListCarries("idle", Lists!NoRequest)
  BY ListBounds DEF ListCarries, Paging, Lists!NoRequest
<1>3. ListTypes
  <2>1. /\ lEvents = Listed /\ lScans = Listed /\ lJoined \subseteq Listed /\ lThere = {}
        /\ lMoved = FALSE /\ lGrown = FALSE /\ lChanges = 0 /\ lNow \in 1..(ListTime + 1)
        /\ lStarts \in [Listed -> 0..ListTime] /\ lFence = [e \in Listed |-> "drawn"]
    BY DEF Lists!Init
  <2>2. lFence \in [Listed -> {"none", "drawn", "shapeless"}]
    BY <2>1
  <2>3. lChanges \in 0..ListChanges
    BY <2>1 DEF Lists!ListingsAssumption
  <2> QED BY <1>1, <1>2, <2>1, <2>2, <2>3 DEF ListTypes
<1>4. ListKnows("idle", Lists!NoRequest)
  BY DEF ListKnows, Walks, Advances, Answers, Paging, Subscribing
<1> QED BY <1>1, <1>3, <1>4 DEF ListInv

LEMMA ListsAnswer ==
  ASSUME ListInv, Lists!ListingsAssumption
  PROVE  /\ Lists!TypeOK /\ Lists!WalkListsAll /\ Lists!WalkRepeatsNothing
         /\ Lists!SubscribedAreUpcoming
<1> DEFINE l == lPc["phone"]
           r == lReq["phone"]
<1>1. Lists!TypeOK
  BY DEF ListInv, ListTypes, ListCarries, Lists!TypeOK
<1>2. Lists!WalkListsAll
  BY DEF ListInv, ListKnows, Walks, Lists!WalkListsAll, Lists!At, Lists!Range, Range
<1>3. Lists!WalkRepeatsNothing
  BY DEF ListInv, ListKnows, Advances, Lists!WalkRepeatsNothing, Lists!At, Lists!IsInjective
<1>4. ASSUME l = "subscribed_end", ~lMoved, ~lGrown, Cardinality(lJoined) <= ListCap
      PROVE  Lists!Range(r.answer) = {AnswerFor(e) : e \in Upcoming(r.now)}
  <2>1. Answers("subscribed_end", r)
    BY <1>4 DEF ListInv, ListKnows
  <2>2. r.rows = <<>> /\ DOMAIN r.rows = {}
    BY <2>1 DEF Answers
  <2>3. /\ \A i \in DOMAIN r.answer : \E e \in Upcoming(r.now) : r.answer[i] = AnswerFor(e)
        /\ \A e \in Upcoming(r.now) : \E i \in DOMAIN r.answer : r.answer[i] = AnswerFor(e)
    BY <2>1, <2>2 DEF Answers
  <2> QED BY <2>3 DEF Lists!Range
<1>5. Lists!SubscribedAreUpcoming
  BY <1>4, ListCard DEF Lists!SubscribedAreUpcoming, Lists!At, Upcoming, AnswerFor
<1> QED BY <1>1, <1>2, <1>3, <1>5

LEMMA ListsAreSound ==
  ASSUME Lists!ListingsAssumption
  PROVE  Lists!Spec => [](/\ Lists!TypeOK /\ Lists!WalkListsAll /\ Lists!WalkRepeatsNothing
                          /\ Lists!SubscribedAreUpcoming)
<1>1. Lists!Init => ListInv
  BY InitLists
<1>2. ListInv /\ [Lists!Next]_(Lists!vars) => ListInv'
  BY NextLists
<1>3. ListInv => /\ Lists!TypeOK /\ Lists!WalkListsAll /\ Lists!WalkRepeatsNothing
                 /\ Lists!SubscribedAreUpcoming
  BY ListsAnswer
<1> QED BY <1>1, <1>2, <1>3, PTL DEF Lists!Spec

\* A behaviour of the composition is one of the listings.
LEMMA ListsRun == HalvesSpec => Lists!Spec
<1>1. HalvesInit => Lists!Init
  BY DEF HalvesInit
<1>2. [HalvesNext]_<<half, vars, lVars>> => [Lists!Next]_(Lists!vars)
  <2> SUFFICES ASSUME [HalvesNext]_<<half, vars, lVars>> PROVE [Lists!Next]_(Lists!vars)
    OBVIOUS
  <2>1. CASE UNCHANGED lVars
    BY <2>1 DEF lVars, Lists!vars, Lists!tables, Lists!workers
  <2>2. CASE Lists!Next
    BY <2>2
  <2> QED BY <2>1, <2>2 DEF HalvesNext
<1> QED BY <1>1, <1>2, PTL DEF HalvesSpec, Lists!Spec

\* The pages of a phone list whatever was joined throughout unless rows moved, and nothing
\* twice unless rows came in; the subscribed events are those not over as long as they fit
\* and nothing changes: for any number of events and changes, any limits and caps.
THEOREM ListsAreKept == HalvesSpec => []ListsAreRight
<1>1. Lists!Spec => [](/\ Lists!TypeOK /\ Lists!WalkListsAll /\ Lists!WalkRepeatsNothing
                       /\ Lists!SubscribedAreUpcoming)
  BY HalvesAssumption, ListsAreSound
<1> QED BY <1>1, ListsRun, PTL DEF ListsAreRight

-----------------------------------------------------------------------------
(***************************************************************************)
(* The numbers of an event, for any fences, records and number of changes. *)
(* What is counted by source, hour or fence are parts of the rows that do  *)
(* not overlap; what is said while nothing changes is about the rows that  *)
(* are there.                                                              *)
(***************************************************************************)

LEMMA NumCard == ASSUME NEW S PROVE Numbers!Cardinality(S) = Cardinality(S)
  BY DEF Numbers!Cardinality, Cardinality

\* The sizes of sets that do not overlap add up to the size of all of them.
LEMMA PartsAddUp ==
  ASSUME NEW I, IsFiniteSet(I), NEW D, NEW F \in [D -> SUBSET I],
         \A x, y \in D : F[x] \cap F[y] # {} => x = y,
         NEW f, DOMAIN f = D, \A x \in D : f[x] = Cardinality(F[x])
  PROVE  Numbers!Sum(f) = Cardinality(UNION {F[x] : x \in D})
<1> DEFINE U == UNION {F[x] : x \in D}
           P == UNION {{x} \X (1..f[x]) : x \in D}
<1>1. \A x \in D : IsFiniteSet(F[x]) /\ f[x] \in Nat /\ ExistsBijection(F[x], 1..f[x])
  <2> TAKE x \in D
  <2>1. IsFiniteSet(F[x])
    BY FS_Subset
  <2>2. f[x] \in Nat /\ ExistsBijection(1..f[x], F[x])
    BY <2>1, FS_CardinalityType
  <2>3. IsFiniteSet(1..f[x]) /\ Cardinality(1..f[x]) = f[x]
    BY <2>2, FS_Interval
  <2> QED BY <2>1, <2>2, <2>3, FS_SameCardinalityBij
<1> DEFINE at(i) == CHOOSE x \in D : i \in F[x]
           num(x) == CHOOSE b : b \in Bijection(F[x], 1..f[x])
           h == [i \in U |-> <<at(i), num(at(i))[i]>>]
<1>2. \A i \in U : at(i) \in D /\ i \in F[at(i)]
  OBVIOUS
<1>3. \A x \in D : num(x) \in Bijection(F[x], 1..f[x])
  BY <1>1 DEF ExistsBijection
<1> HIDE DEF num, at
<1>4. \A x \in D : \A i \in F[x] : i \in U /\ at(i) = x
  BY <1>2
<1>5. \A x \in D : num(x) \in [F[x] -> 1..f[x]]
  BY <1>3 DEF Bijection, Injection, Surjection
<1>6. h \in Injection(U, P)
  <2>1. ASSUME NEW i \in U PROVE <<at(i), num(at(i))[i]>> \in P
    <3>1. num(at(i))[i] \in 1..f[at(i)]
      BY <1>2, <1>5
    <3> QED BY <1>2, <3>1
  <2>2. ASSUME NEW i \in U, NEW j \in U, at(i) = at(j), num(at(i))[i] = num(at(j))[j] PROVE i = j
    <3>1. i \in F[at(i)] /\ j \in F[at(i)] /\ num(at(i)) \in Injection(F[at(i)], 1..f[at(i)])
      BY <1>2, <1>3, <2>2 DEF Bijection
    <3> QED BY <3>1, <2>2 DEF Injection, IsInjective
  <2>3. h \in [U -> P]
    BY <2>1
  <2>4. \A i, j \in U : h[i] = h[j] => i = j
    BY <2>2
  <2> QED BY <2>3, <2>4 DEF Injection, IsInjective
<1>7. h \in Surjection(U, P)
  <2>1. ASSUME NEW p \in P PROVE \E i \in U : h[i] = p
    <3>1. PICK x \in D : p \in {x} \X (1..f[x])
      OBVIOUS
    <3> DEFINE n == p[2]
    <3>4. p = <<x, n>> /\ n \in 1..f[x]
      BY <3>1
    <3>2. PICK i \in F[x] : num(x)[i] = n
      BY <1>3, <3>4 DEF Bijection, Surjection
    <3>3. i \in U /\ at(i) = x
      BY <1>4
    <3> QED BY <3>2, <3>3, <3>4
  <2>2. h \in [U -> P]
    BY <1>6 DEF Injection
  <2> QED BY <2>1, <2>2 DEF Surjection
<1>8. U \subseteq I
  OBVIOUS
<1>9. IsFiniteSet(U)
  BY <1>8, FS_Subset
<1>10. ExistsBijection(U, P)
  BY <1>6, <1>7 DEF ExistsBijection, Bijection
<1>11. Cardinality(P) = Cardinality(U)
  BY <1>9, <1>10, FS_Bijection
<1> QED BY <1>11, NumCard DEF Numbers!Sum

LEMMA LeastNatural ==
  ASSUME NEW T \in SUBSET Nat, T # {}
  PROVE  \E n \in T : \A m \in T : n <= m
<1> DEFINE below == {0..(n - 1) : n \in T}
           order == StrictSubsetOrdering(Nat)
<1>1. below \subseteq FiniteSubsetsOf(Nat)
  <2> SUFFICES ASSUME NEW n \in T PROVE 0..(n - 1) \in FiniteSubsetsOf(Nat)
    OBVIOUS
  <2>1. n \in Nat /\ 0 \in Int /\ n - 1 \in Int
    OBVIOUS
  <2>2. IsFiniteSet(0..(n - 1))
    BY <2>1, FS_Interval
  <2>3. 0..(n - 1) \in SUBSET Nat
    BY <2>1
  <2> QED BY <2>2, <2>3 DEF FiniteSubsetsOf
<1>2. below # {}
  OBVIOUS
<1>3. IsWellFoundedOn(order, FiniteSubsetsOf(Nat))
  BY FS_StrictSubsetOrderingWellFounded
<1> HIDE DEF below, order
<1>4. PICK x \in below : \A y \in below : ~(<<y, x>> \in order)
  BY <1>1, <1>2, <1>3, WFMin
<1> USE DEF below, order
<1>5. PICK n \in T : x = 0..(n - 1)
  BY <1>4
<1>6. ASSUME NEW m \in T, m < n PROVE FALSE
  <2>1. 0..(m - 1) \in below /\ <<0..(m - 1), x>> \notin order
    BY <1>4
  <2>2. m \in Nat /\ n \in Nat
    OBVIOUS
  <2>3. 0..(m - 1) \subseteq 0..(n - 1) /\ 0..(m - 1) \subseteq Nat /\ 0..(n - 1) \subseteq Nat
    BY <1>6, <2>2
  <2>4. m \in 0..(n - 1) /\ m \notin 0..(m - 1)
    BY <1>6, <2>2
  <2> QED BY <1>5, <2>1, <2>3, <2>4 DEF StrictSubsetOrdering
<1> QED BY <1>6

LEMMA SourcesAddUp ==
  ASSUME NEW rows, NEW I, IsFiniteSet(I)
  PROVE  Numbers!Sum(Numbers!BySource(rows, I)) = Cardinality(I)
<1> DEFINE source(i) == Numbers!SourceOf(rows[i])
           D == {source(i) : i \in I}
           F == [s \in D |-> {i \in I : source(i) = s}]
           f == Numbers!BySource(rows, I)
<1> HIDE DEF source
<1>1. F \in [D -> SUBSET I] /\ \A x, y \in D : F[x] \cap F[y] # {} => x = y
  OBVIOUS
<1>2. DOMAIN f = D /\ \A x \in D : f[x] = Cardinality(F[x])
  BY NumCard DEF Numbers!BySource, source
<1>3. UNION {F[x] : x \in D} = I
  <2>1. ASSUME NEW i \in I PROVE source(i) \in D /\ i \in F[source(i)]
    OBVIOUS
  <2>2. \A x \in D : F[x] \subseteq I
    OBVIOUS
  <2> HIDE DEF F, D
  <2> QED BY <2>1, <2>2
<1> HIDE DEF F, D, f
<1>4. Numbers!Sum(f) = Cardinality(UNION {F[x] : x \in D})
  BY <1>1, <1>2, PartsAddUp
<1> QED BY <1>3, <1>4 DEF f

LEMMA FencesFit ==
  ASSUME NEW rows, NEW fs, IsFiniteSet(DOMAIN rows), NEW f, DOMAIN f = Numbers!Range(fs),
         \A x \in DOMAIN f : f[x] = Cardinality(Numbers!RowsOf(x, fs, rows))
  PROVE  /\ Numbers!Sum(f) \in Nat /\ Cardinality(DOMAIN rows) \in Nat
         /\ Numbers!Sum(f) <= Cardinality(DOMAIN rows)
<1> DEFINE I == DOMAIN rows
           D == DOMAIN f
           F == [x \in D |-> Numbers!RowsOf(x, fs, rows)]
<1>1. F \in [D -> SUBSET I] /\ \A x, y \in D : F[x] \cap F[y] # {} => x = y
  BY DEF Numbers!RowsOf
<1>2. \A x \in D : f[x] = Cardinality(F[x])
  OBVIOUS
<1> HIDE DEF F
<1>3. Numbers!Sum(f) = Cardinality(UNION {F[x] : x \in D})
  BY <1>1, <1>2, PartsAddUp
<1>4. UNION {F[x] : x \in D} \subseteq I
  BY <1>1
<1> QED BY <1>3, <1>4, FS_Subset, FS_CardinalityType

LEMMA BucketsAddUp ==
  ASSUME NEW rows, NEW I \in SUBSET Nat, IsFiniteSet(I), NEW window
  PROVE  LET T == Numbers!BuildTimeline(rows, I, window)
         IN  /\ Numbers!Sum([k \in DOMAIN T |-> T[k].count]) = Cardinality(I)
             /\ \A j, k \in DOMAIN T : T[j].label = T[k].label => j = k
<1> DEFINE label(i) == Numbers!Label(rows[i].at, window)
           T == Numbers!BuildTimeline(rows, I, window)
           D == {k \in I : \A j \in I : label(j) = label(k) => k <= j}
           F == [k \in D |-> {j \in I : label(j) = label(k)}]
           f == [k \in DOMAIN T |-> T[k].count]
<1>1. T = [i \in D |-> [label |-> label(i), count |-> Numbers!Cardinality({j \in I : label(j) = label(i)})]]
  BY DEF Numbers!BuildTimeline
<1> HIDE DEF label, T
<1>2. DOMAIN T = D /\ \A k \in D : T[k].label = label(k) /\ T[k].count = Cardinality(F[k])
  BY <1>1, NumCard
<1>3. \A j, k \in D : label(j) = label(k) => j = k
  OBVIOUS
<1>4. F \in [D -> SUBSET I] /\ \A x, y \in D : F[x] \cap F[y] # {} => x = y
  BY <1>3
<1>5. UNION {F[x] : x \in D} = I
  <2>1. ASSUME NEW i \in I PROVE \E k \in D : i \in F[k]
    <3>1. {j \in I : label(j) = label(i)} # {} /\ {j \in I : label(j) = label(i)} \subseteq Nat
      OBVIOUS
    <3>2. PICK k \in {j \in I : label(j) = label(i)} : \A j \in {j \in I : label(j) = label(i)} : k <= j
      BY <3>1, LeastNatural
    <3> QED BY <3>2
  <2> QED BY <2>1
<1>6. DOMAIN f = D /\ \A x \in D : f[x] = Cardinality(F[x])
  BY <1>2
<1> HIDE DEF F, D, f
<1>7. Numbers!Sum(f) = Cardinality(I)
  BY <1>4, <1>5, <1>6, PartsAddUp
<1> QED BY <1>2, <1>3, <1>7 DEF T, f

\* Whatever fences and rows an answer is made from, its numbers agree with each other.
LEMMA AnswersAddUp ==
  ASSUME NEW fs, NEW js, NEW S, NEW rows \in Seq(S), NEW a, a = Numbers!ComputeEventAnalytics(fs, js, rows)
  PROVE  /\ Numbers!Sum(a.source) = a.total
         /\ Numbers!Sum([k \in DOMAIN a.timeline |-> a.timeline[k].count]) = a.total
         /\ Numbers!IsInjective([k \in DOMAIN a.timeline |-> a.timeline[k].label])
         /\ Numbers!Sum([f \in DOMAIN a.fence |-> a.fence[f].total]) <= a.total
<1>1. PICK n \in Nat : n = Len(rows) /\ DOMAIN rows = 1..n
  BY LenProperties
<1>2. IsFiniteSet(DOMAIN rows) /\ Cardinality(DOMAIN rows) = n /\ DOMAIN rows \in SUBSET Nat
  <2>1. 1 \in Int /\ n \in Int
    OBVIOUS
  <2>2. IsFiniteSet(1..n) /\ Cardinality(1..n) = IF 1 > n THEN 0 ELSE n - 1 + 1
    BY <2>1, FS_Interval
  <2>3. Cardinality(1..n) = n
    BY <2>2
  <2> QED BY <1>1, <2>2, <2>3
<1>3. /\ a.total = n
      /\ a.source = Numbers!BySource(rows, DOMAIN rows)
      /\ a.timeline = Numbers!BuildTimeline(rows, DOMAIN rows, NumTimes)
      /\ DOMAIN a.fence = Numbers!Range(fs)
      /\ \A f \in Numbers!Range(fs) : a.fence[f].total = Cardinality(Numbers!RowsOf(f, fs, rows))
  BY <1>1, NumCard DEF Numbers!ComputeEventAnalytics
<1>4. Numbers!Sum(a.source) = a.total
  BY <1>2, <1>3, SourcesAddUp
<1>5. /\ Numbers!Sum([k \in DOMAIN a.timeline |-> a.timeline[k].count]) = a.total
      /\ Numbers!IsInjective([k \in DOMAIN a.timeline |-> a.timeline[k].label])
  BY <1>2, <1>3, BucketsAddUp DEF Numbers!IsInjective
<1>6. Numbers!Sum([f \in DOMAIN a.fence |-> a.fence[f].total]) <= a.total
  <2> DEFINE g == [f \in DOMAIN a.fence |-> a.fence[f].total]
  <2>1. DOMAIN g = Numbers!Range(fs) /\ \A x \in DOMAIN g : g[x] = Cardinality(Numbers!RowsOf(x, fs, rows))
    BY <1>3
  <2> HIDE DEF g
  <2>2. Numbers!Sum(g) <= Cardinality(DOMAIN rows)
    BY <1>2, <2>1, FencesFit
  <2> QED BY <1>2, <1>3, <2>2 DEF g
<1> QED BY <1>4, <1>5, <1>6

-----------------------------------------------------------------------------
(* What an organizer's request knows                                       *)

NumRow ==
  {[user |-> m.user, source |-> m.source, place |-> m.place, fence |-> m.fence, at |-> t] :
     m \in NumMarks, t \in 1..NumTime}
NumRequest ==
  [fence : NumFences \cup {Nil}, fences : Seq(NumFences), joins : SUBSET NumAttendees, rows : Seq(NumRow)]

EventPhase == {"event", "event_fences", "event_joins", "event_rows", "event_answer"}
FencePhase == {"fence_fence", "fence_fences", "fence_rows", "fence_answer"}
NumLabels == {"idle", "fence_event"} \cup EventPhase \cup FencePhase

NewestFirst(rows) == \A i, j \in DOMAIN rows : i < j => rows[i].at >= rows[j].at

NumTypes ==
  /\ nEvent \in BOOLEAN /\ nMade \subseteq NumFences /\ nJoins \subseteq NumAttendees
  /\ nFences \in Seq(NumFences)
  /\ Numbers!Range(nFences) \subseteq nMade /\ Numbers!IsInjective(nFences)
  /\ nAttendance \in Seq(NumRow) /\ Len(nAttendance) <= NumRows
  /\ \A i, j \in DOMAIN nAttendance : i < j => nAttendance[i].at <= nAttendance[j].at
  /\ \A i \in DOMAIN nAttendance : nAttendance[i].at <= nNow
  /\ nNow \in 1..NumTime /\ nQuiet \in BOOLEAN /\ nRaced \in BOOLEAN
  /\ nPc \in [{"dashboard"} -> NumLabels] /\ nReq \in [{"dashboard"} -> NumRequest]
  /\ NewestFirst(nReq["dashboard"].rows)

\* An answer about the event, from tables of different times.
Answered(report) ==
  \/ report = <<>>
  \/ \E fs \in Seq(NumFences), js \in SUBSET NumAttendees, rows \in Seq(NumRow) :
       report = <<Numbers!ComputeEventAnalytics(fs, js, rows)>>

\* An answer about the event, from the tables as they are.
AnswersNow(report) ==
  \/ report = <<>>
  \/ \E js : report = <<Numbers!ComputeEventAnalytics(nFences, js, Numbers!ListAttendanceByEvent)>>

\* What was read is still so, if no table has changed since.
StillSo(l, r) ==
  /\ l \in {"event_joins", "event_rows", "event_answer", "fence_rows", "fence_answer"}
       => r.fences = nFences
  /\ l \in {"event_answer", "fence_answer"} => r.rows = Numbers!ListAttendanceByEvent
  /\ l \in {"fence_fences", "fence_rows", "fence_answer"} => r.fence \in Numbers!Range(nFences)

\* Nobody has asked about the event since the last answer, unless the event is gone.
AnswerStands(l) ==
  /\ l \in FencePhase => nEvent
  /\ nEvent /\ l \notin EventPhase => AnswersNow(nReport)

NumInv ==
  /\ NumTypes /\ Answered(nReport)
  /\ nQuiet \/ ~nRaced => StillSo(nPc["dashboard"], nReq["dashboard"])
  /\ nQuiet => AnswerStands(nPc["dashboard"])

LEMMA NumBounds ==
  ASSUME Numbers!AnalyticsAssumption
  PROVE  /\ NumTime \in Nat \ {0} /\ NumRows \in Nat /\ Nil \notin NumFences
         /\ \A r \in NumRow : r.at \in 1..NumTime /\ r.at \in Nat
<1>1. NumTime \in Nat \ {0} /\ NumRows \in Nat /\ Nil \notin NumFences
  <2>1. {NumHour, NumDay, NumYear, NumTime} \subseteq Nat \ {0} /\ {NumTwoDays, NumRows} \subseteq Nat
        /\ Nil \notin NumFences
    BY DEF Numbers!AnalyticsAssumption
  <2> QED BY <2>1
<1>2. \A r \in NumRow : r.at \in 1..NumTime
  BY DEF NumRow
<1> QED BY <1>1, <1>2

LEMMA ReverseHas ==
  ASSUME NEW S, NEW s \in Seq(S)
  PROVE  /\ Numbers!Reverse(s) \in Seq(S) /\ DOMAIN Numbers!Reverse(s) = DOMAIN s
         /\ \A i \in DOMAIN s : /\ Len(s) - i + 1 \in DOMAIN s
                                /\ Numbers!Reverse(s)[i] = s[Len(s) - i + 1]
<1>1. PICK n \in Nat : n = Len(s) /\ DOMAIN s = 1..n
  BY LenProperties
<1>2. \A i \in 1..n : n - i + 1 \in 1..n /\ s[n - i + 1] \in S
  <2> TAKE i \in 1..n
  <2>1. n - i + 1 \in 1..n
    OBVIOUS
  <2> QED BY <2>1, <1>1, ElementOfSeq
<1>3. Numbers!Reverse(s) = [i \in 1..n |-> s[(n - i) + 1]]
  BY <1>1 DEF Numbers!Reverse
<1>4. Numbers!Reverse(s) \in [1..n -> S]
  BY <1>2, <1>3
<1>5. Numbers!Reverse(s) \in Seq(S)
  BY <1>4, SeqDef
<1> QED BY <1>1, <1>2, <1>3, <1>5

\* A step of the request, which reads tables and changes none.
LEMMA DashMoves ==
  ASSUME NumInv, NEW l \in NumLabels, NEW r \in NumRequest, Numbers!Step("dashboard", l, r),
         UNCHANGED <<Numbers!tables, nNow>>, ~Numbers!Idle("dashboard"), Numbers!Observe,
         NewestFirst(r.rows), Answered(nReport'),
         nQuiet \/ ~nRaced => StillSo(l, r),
         nQuiet => /\ l \in FencePhase => nEvent
                   /\ nEvent /\ l \notin EventPhase => AnswersNow(nReport')
  PROVE  NumInv'
<1>1. nPc' = [nPc EXCEPT !["dashboard"] = l] /\ nReq' = [nReq EXCEPT !["dashboard"] = r]
  BY DEF Numbers!Step
<1>2. /\ nPc'["dashboard"] = l /\ nReq'["dashboard"] = r
      /\ nPc' \in [{"dashboard"} -> NumLabels] /\ nReq' \in [{"dashboard"} -> NumRequest]
  BY <1>1 DEF NumInv, NumTypes
<1>3. nEvent' = nEvent /\ nMade' = nMade /\ nFences' = nFences /\ nJoins' = nJoins
      /\ nAttendance' = nAttendance /\ nNow' = nNow
  BY DEF Numbers!tables
<1>4. nQuiet' = nQuiet /\ nRaced' = nRaced
  BY <1>3 DEF Numbers!Observe, Numbers!Idle, Numbers!tables, NumInv, NumTypes
<1>5. NumTypes'
  BY <1>2, <1>3, <1>4 DEF NumTypes, NewestFirst, NumInv
<1>6. Answered(nReport)'
  BY <1>3 DEF Answered
<1>7. nQuiet' \/ ~nRaced' => StillSo(nPc["dashboard"], nReq["dashboard"])'
  BY <1>2, <1>3, <1>4 DEF StillSo, Numbers!ListAttendanceByEvent
<1>8. nQuiet' => AnswerStands(nPc["dashboard"])'
  BY <1>2, <1>3, <1>4 DEF AnswerStands, AnswersNow, Numbers!ListAttendanceByEvent
<1> QED BY <1>5, <1>6, <1>7, <1>8 DEF NumInv

\* A step of somebody else: what the request has read may not be so any more.
LEMMA OthersMove ==
  ASSUME NumInv, UNCHANGED <<nPc, nReq>>, Numbers!Observe, NumTypes',
         nReport' \in {<<>>, nReport}, nReport' = <<>> \/ UNCHANGED Numbers!tables
  PROVE  NumInv'
<1>1. nQuiet' = (nQuiet /\ UNCHANGED Numbers!tables)
  BY DEF Numbers!Observe, Numbers!Idle
<1>2. nRaced' = IF Numbers!Idle("dashboard") THEN FALSE ELSE nRaced \/ Numbers!tables' # Numbers!tables
  BY DEF Numbers!Observe
<1>3. Answered(nReport)'
  BY DEF Answered, NumInv
<1>4. ASSUME nQuiet' \/ ~nRaced' PROVE StillSo(nPc["dashboard"], nReq["dashboard"])'
  <2>1. CASE Numbers!Idle("dashboard")
    BY <2>1 DEF StillSo, Numbers!Idle
  <2>2. CASE ~Numbers!Idle("dashboard")
    <3>1. (nQuiet \/ ~nRaced) /\ UNCHANGED Numbers!tables
      BY <1>1, <1>2, <1>4, <2>2 DEF NumInv, NumTypes
    <3> QED BY <3>1 DEF NumInv, StillSo, Numbers!ListAttendanceByEvent, Numbers!tables
  <2> QED BY <2>1, <2>2
<1>5. ASSUME nQuiet' PROVE AnswerStands(nPc["dashboard"])'
  <2>1. nQuiet /\ nEvent' = nEvent /\ nFences' = nFences /\ nAttendance' = nAttendance
    BY <1>1, <1>5 DEF Numbers!tables
  <2>2. AnswerStands(nPc["dashboard"])
    BY <2>1 DEF NumInv
  <2>3. nPc'["dashboard"] = nPc["dashboard"]
    OBVIOUS
  <2>4. AnswersNow(nReport) => AnswersNow(nReport)'
    BY <2>1 DEF AnswersNow, Numbers!ListAttendanceByEvent
  <2> QED BY <2>1, <2>2, <2>3, <2>4 DEF AnswerStands
<1> QED BY <1>3, <1>4, <1>5 DEF NumInv

-----------------------------------------------------------------------------
(* The steps                                                               *)

LEMMA RequestStarts ==
  ASSUME NumInv, Numbers!AnalyticsAssumption, NEW l \in {"event", "fence_event"}, NEW r \in NumRequest,
         Numbers!Start("dashboard", l, r), r.rows = <<>>,
         UNCHANGED <<Numbers!tables, nNow, nReport>>, Numbers!Observe
  PROVE  NumInv'
<1>1. /\ nPc' = [nPc EXCEPT !["dashboard"] = l] /\ nReq' = [nReq EXCEPT !["dashboard"] = r]
      /\ nPc["dashboard"] = "idle"
  BY DEF Numbers!Step, Numbers!Start, Numbers!Idle
<1>2. /\ nPc'["dashboard"] = l /\ nReq'["dashboard"] = r
      /\ nPc' \in [{"dashboard"} -> NumLabels] /\ nReq' \in [{"dashboard"} -> NumRequest]
  BY <1>1 DEF NumInv, NumTypes, NumLabels, EventPhase
<1>3. nEvent' = nEvent /\ nMade' = nMade /\ nFences' = nFences /\ nJoins' = nJoins
      /\ nAttendance' = nAttendance /\ nNow' = nNow /\ nReport' = nReport
  BY DEF Numbers!tables
<1>4. nQuiet' \in BOOLEAN /\ nRaced' = FALSE /\ (l = "fence_event" /\ nQuiet' => nQuiet)
  BY <1>1, <1>2, <1>3 DEF Numbers!Observe, Numbers!Idle, Numbers!tables, NumInv, NumTypes
<1>9. NewestFirst(r.rows)
  BY DEF NewestFirst
<1>5. NumTypes'
  BY <1>2, <1>3, <1>4, <1>9 DEF NumTypes, NewestFirst, NumInv
<1>6. Answered(nReport)'
  BY <1>3 DEF Answered, NumInv
<1>7. StillSo(nPc["dashboard"], nReq["dashboard"])'
  BY <1>2 DEF StillSo
<1>8. ASSUME nQuiet' PROVE AnswerStands(nPc["dashboard"])'
  <2>1. CASE l = "event"
    BY <2>1, <1>2 DEF AnswerStands, EventPhase, FencePhase
  <2>2. CASE l = "fence_event"
    <3>1. AnswerStands("idle")
      BY <1>1, <1>4, <1>8, <2>2 DEF NumInv
    <3>2. AnswersNow(nReport) => AnswersNow(nReport)'
      BY <1>3 DEF AnswersNow, Numbers!ListAttendanceByEvent
    <3> QED BY <3>1, <3>2, <2>2, <1>2, <1>3 DEF AnswerStands, EventPhase, FencePhase
  <2> QED BY <2>1, <2>2
<1> QED BY <1>5, <1>6, <1>7, <1>8 DEF NumInv

LEMMA NoRequestFits ==
  /\ Numbers!NoRequest \in NumRequest /\ Numbers!NoRequest.rows = <<>>
  /\ \A f \in NumFences : /\ [Numbers!NoRequest EXCEPT !.fence = f] \in NumRequest
                          /\ [Numbers!NoRequest EXCEPT !.fence = f].rows = <<>>
<1>1. <<>> \in Seq(NumFences) /\ <<>> \in Seq(NumRow) /\ {} \in SUBSET NumAttendees
  OBVIOUS
<1>2. Numbers!NoRequest = [fence |-> Nil, fences |-> <<>>, joins |-> {}, rows |-> <<>>]
  BY DEF Numbers!NoRequest
<1>3. Numbers!NoRequest \in NumRequest
  BY <1>1, <1>2 DEF NumRequest
<1>4. ASSUME NEW f \in NumFences
      PROVE  /\ [Numbers!NoRequest EXCEPT !.fence = f] \in NumRequest
             /\ [Numbers!NoRequest EXCEPT !.fence = f].rows = Numbers!NoRequest.rows
  BY <1>3 DEF NumRequest
<1> QED BY <1>2, <1>3, <1>4

LEMMA StartsKeep ==
  ASSUME NumInv, Numbers!AnalyticsAssumption, Numbers!Observe,
         Numbers!GetEventAnalytics("dashboard") \/ Numbers!GetFenceAnalytics("dashboard")
  PROVE  NumInv'
<1>1. CASE Numbers!GetEventAnalytics("dashboard")
  BY <1>1, NoRequestFits, RequestStarts DEF Numbers!GetEventAnalytics
<1>2. CASE Numbers!GetFenceAnalytics("dashboard")
  <2>1. PICK f \in NumFences :
          Numbers!Start("dashboard", "fence_event", [Numbers!NoRequest EXCEPT !.fence = f])
    BY <1>2 DEF Numbers!GetFenceAnalytics
  <2> QED BY <1>2, <2>1, NoRequestFits, RequestStarts DEF Numbers!GetFenceAnalytics
<1> QED BY <1>1, <1>2

\* The request ends, and nothing is known of its reads.
LEMMA DashEnds ==
  ASSUME NumInv, Numbers!Step("dashboard", "idle", Numbers!NoRequest), Numbers!Observe,
         UNCHANGED <<Numbers!tables, nNow, nReport>>, ~Numbers!Idle("dashboard"),
         nQuiet /\ nEvent => AnswersNow(nReport)
  PROVE  NumInv'
<1>1. AnswersNow(nReport') <=> AnswersNow(nReport)
  BY DEF AnswersNow
<1>2. StillSo("idle", Numbers!NoRequest) /\ NewestFirst(Numbers!NoRequest.rows) /\ "idle" \in NumLabels
      /\ "idle" \notin FencePhase /\ Answered(nReport')
  BY NoRequestFits DEF StillSo, NewestFirst, NumLabels, FencePhase, NumInv
<1> QED BY <1>1, <1>2, NoRequestFits, DashMoves

\* The event, or the fence, is looked up.
LEMMA ChecksKeep ==
  ASSUME NumInv, Numbers!Observe,
         Numbers!EventRead("dashboard") \/ Numbers!FenceEvent("dashboard") \/ Numbers!FenceFence("dashboard")
  PROVE  NumInv'
<1> DEFINE q == nReq["dashboard"]
<1>1. /\ q \in NumRequest /\ NewestFirst(q.rows) /\ Answered(nReport)
      /\ nPc["dashboard"] \in {"event", "fence_event", "fence_fence"}
      /\ ~Numbers!Idle("dashboard") /\ UNCHANGED <<Numbers!tables, nNow, nReport>>
  BY DEF NumInv, NumTypes, Numbers!EventRead, Numbers!FenceEvent, Numbers!FenceFence, Numbers!Check,
         Numbers!At, Numbers!Idle
<1>2. nQuiet => AnswerStands(nPc["dashboard"])
  BY DEF NumInv
<1>3. ASSUME NEW l, Numbers!Goto("dashboard", l) PROVE Numbers!Step("dashboard", l, q)
  BY <1>3 DEF Numbers!Goto, Numbers!Step, NumInv, NumTypes
<1>4. CASE Numbers!EventRead("dashboard")
  <2>1. CASE nEvent
    <3>1. Numbers!Step("dashboard", "event_fences", q)
      BY <1>3, <1>4, <2>1 DEF Numbers!EventRead, Numbers!Check
    <3>2. StillSo("event_fences", q) /\ "event_fences" \in EventPhase /\ "event_fences" \notin FencePhase
          /\ "event_fences" \in NumLabels
      BY DEF StillSo, EventPhase, FencePhase, NumLabels
    <3> QED BY <1>1, <3>1, <3>2, DashMoves
  <2>2. CASE ~nEvent
    BY <1>1, <1>4, <2>2, DashEnds DEF Numbers!EventRead, Numbers!Check
  <2> QED BY <2>1, <2>2
<1>5. CASE Numbers!FenceEvent("dashboard")
  <2>1. nQuiet /\ nEvent => AnswersNow(nReport)
    BY <1>2, <1>5 DEF AnswerStands, EventPhase, Numbers!FenceEvent, Numbers!Check, Numbers!At
  <2>2. CASE nEvent
    <3>1. Numbers!Step("dashboard", "fence_fence", q)
      BY <1>3, <1>5, <2>2 DEF Numbers!FenceEvent, Numbers!Check
    <3>2. StillSo("fence_fence", q) /\ "fence_fence" \in NumLabels
      BY DEF StillSo, FencePhase, NumLabels
    <3> QED BY <1>1, <2>1, <2>2, <3>1, <3>2, DashMoves
  <2>3. CASE ~nEvent
    BY <1>1, <1>5, <2>3, DashEnds DEF Numbers!FenceEvent, Numbers!Check
  <2> QED BY <2>2, <2>3
<1>6. CASE Numbers!FenceFence("dashboard")
  <2>1. nQuiet => nEvent /\ AnswersNow(nReport)
    BY <1>2, <1>6 DEF AnswerStands, EventPhase, FencePhase, Numbers!FenceFence, Numbers!Check, Numbers!At
  <2>2. CASE q.fence \in Numbers!Range(nFences)
    <3>1. Numbers!Step("dashboard", "fence_fences", q)
      BY <1>3, <1>6, <2>2 DEF Numbers!FenceFence, Numbers!Check
    <3>2. StillSo("fence_fences", q) /\ "fence_fences" \in NumLabels
      BY <2>2 DEF StillSo, FencePhase, NumLabels
    <3> QED BY <1>1, <2>1, <3>1, <3>2, DashMoves
  <2>3. CASE q.fence \notin Numbers!Range(nFences)
    BY <1>1, <1>6, <2>1, <2>3, DashEnds DEF Numbers!FenceFence, Numbers!Check
  <2> QED BY <2>2, <2>3
<1> QED BY <1>4, <1>5, <1>6

\* Fences, joins or records are read.
LEMMA ReadsKeep ==
  ASSUME NumInv, Numbers!AnalyticsAssumption, Numbers!Observe,
         \/ Numbers!EventFences("dashboard") \/ Numbers!EventJoins("dashboard")
         \/ Numbers!EventRows("dashboard") \/ Numbers!FenceFences("dashboard")
         \/ Numbers!FenceRows("dashboard")
  PROVE  NumInv'
<1> DEFINE q == nReq["dashboard"]
           l == nPc["dashboard"]
<1>1. /\ q \in NumRequest /\ NewestFirst(q.rows) /\ Answered(nReport)
      /\ l \in {"event_fences", "event_joins", "event_rows", "fence_fences", "fence_rows"}
      /\ ~Numbers!Idle("dashboard") /\ UNCHANGED <<Numbers!tables, nNow, nReport>>
  BY DEF NumInv, NumTypes, Numbers!EventFences, Numbers!EventJoins, Numbers!EventRows,
         Numbers!FenceFences, Numbers!FenceRows, Numbers!Read, Numbers!At, Numbers!Idle
<1>2. (nQuiet \/ ~nRaced => StillSo(l, q)) /\ (nQuiet => AnswerStands(l))
  BY DEF NumInv
<1>3. /\ nFences \in Seq(NumFences) /\ nJoins \in SUBSET NumAttendees
      /\ Numbers!ListAttendanceByEvent \in Seq(NumRow) /\ NewestFirst(Numbers!ListAttendanceByEvent)
  <2>1. nAttendance \in Seq(NumRow) /\ nFences \in Seq(NumFences) /\ nJoins \in SUBSET NumAttendees
        /\ \A i, j \in DOMAIN nAttendance : i < j => nAttendance[i].at <= nAttendance[j].at
    BY DEF NumInv, NumTypes
  <2>2. PICK n \in Nat : n = Len(nAttendance) /\ DOMAIN nAttendance = 1..n
    BY <2>1, LenProperties
  <2>3. \A i \in 1..n : nAttendance[i].at \in Nat
    BY <2>1, <2>2, ElementOfSeq, NumBounds
  <2>4. /\ Numbers!Reverse(nAttendance) \in Seq(NumRow) /\ DOMAIN Numbers!Reverse(nAttendance) = 1..n
        /\ \A i \in 1..n : n - i + 1 \in 1..n /\ Numbers!Reverse(nAttendance)[i] = nAttendance[n - i + 1]
    BY <2>1, <2>2, ReverseHas
  <2>5. ASSUME NEW i \in 1..n, NEW j \in 1..n, i < j
        PROVE  nAttendance[n - i + 1].at >= nAttendance[n - j + 1].at
    <3>1. n - i + 1 \in 1..n /\ n - j + 1 \in 1..n /\ n - j + 1 < n - i + 1
      BY <2>5
    <3>2. nAttendance[n - j + 1].at <= nAttendance[n - i + 1].at
      BY <2>1, <2>2, <3>1
    <3> QED BY <3>1, <3>2, <2>3
  <2>6. NewestFirst(Numbers!Reverse(nAttendance))
    BY <2>4, <2>5 DEF NewestFirst
  <2> QED BY <2>1, <2>4, <2>6 DEF Numbers!ListAttendanceByEvent
<1>4. CASE Numbers!EventFences("dashboard")
  <2>1. PICK r : r = [q EXCEPT !.fences = nFences]
    OBVIOUS
  <2>2. /\ r \in NumRequest /\ r.fences = nFences /\ r.rows = q.rows
        /\ Numbers!Step("dashboard", "event_joins", r) /\ "event_joins" \in EventPhase
        /\ "event_joins" \in NumLabels /\ "event_joins" \notin FencePhase
    BY <1>1, <1>3, <1>4, <2>1 DEF NumRequest, Numbers!EventFences, Numbers!Read, EventPhase, FencePhase, NumLabels
  <2>3. StillSo("event_joins", r)
    BY <2>2 DEF StillSo
  <2> QED BY <1>1, <2>2, <2>3, DashMoves
<1>5. CASE Numbers!EventJoins("dashboard")
  <2>1. PICK r : r = [q EXCEPT !.joins = nJoins]
    OBVIOUS
  <2>2. /\ r \in NumRequest /\ r.fences = q.fences /\ r.rows = q.rows
        /\ Numbers!Step("dashboard", "event_rows", r) /\ "event_rows" \in EventPhase
        /\ "event_rows" \in NumLabels /\ "event_rows" \notin FencePhase /\ l = "event_joins"
    BY <1>1, <1>3, <1>5, <2>1 DEF NumRequest, Numbers!EventJoins, Numbers!Read, Numbers!At, EventPhase, FencePhase, NumLabels
  <2>3. nQuiet \/ ~nRaced => StillSo("event_rows", r)
    BY <1>2, <2>2 DEF StillSo
  <2> QED BY <1>1, <2>2, <2>3, DashMoves
<1>6. CASE Numbers!EventRows("dashboard")
  <2>1. PICK r : r = [q EXCEPT !.rows = Numbers!ListAttendanceByEvent]
    OBVIOUS
  <2>2. /\ r \in NumRequest /\ r.fences = q.fences /\ r.rows = Numbers!ListAttendanceByEvent
        /\ Numbers!Step("dashboard", "event_answer", r) /\ "event_answer" \in EventPhase
        /\ "event_answer" \in NumLabels /\ "event_answer" \notin FencePhase /\ l = "event_rows"
    BY <1>1, <1>3, <1>6, <2>1 DEF NumRequest, Numbers!EventRows, Numbers!Read, Numbers!At, EventPhase, FencePhase, NumLabels
  <2>3. nQuiet \/ ~nRaced => StillSo("event_answer", r)
    BY <1>2, <2>2 DEF StillSo
  <2> QED BY <1>1, <1>3, <2>2, <2>3, DashMoves
<1>7. ASSUME nQuiet, l \in FencePhase PROVE nEvent /\ AnswersNow(nReport')
  BY <1>1, <1>2, <1>7 DEF AnswerStands, FencePhase, EventPhase, AnswersNow
<1>8. CASE Numbers!FenceFences("dashboard")
  <2>1. PICK r : r = [q EXCEPT !.fences = nFences]
    OBVIOUS
  <2>2. /\ r \in NumRequest /\ r.fences = nFences /\ r.rows = q.rows /\ r.fence = q.fence
        /\ Numbers!Step("dashboard", "fence_rows", r) /\ l = "fence_fences"
        /\ "fence_rows" \in NumLabels /\ l \in FencePhase
    BY <1>1, <1>3, <1>8, <2>1 DEF NumRequest, Numbers!FenceFences, Numbers!Read, Numbers!At, FencePhase, NumLabels
  <2>3. nQuiet \/ ~nRaced => StillSo("fence_rows", r)
    BY <1>2, <2>2 DEF StillSo
  <2> QED BY <1>1, <1>7, <2>2, <2>3, DashMoves
<1>9. CASE Numbers!FenceRows("dashboard")
  <2>1. PICK r : r = [q EXCEPT !.rows = Numbers!ListAttendanceByEvent]
    OBVIOUS
  <2>2. /\ r \in NumRequest /\ r.fences = q.fences /\ r.fence = q.fence
        /\ r.rows = Numbers!ListAttendanceByEvent
        /\ Numbers!Step("dashboard", "fence_answer", r) /\ l = "fence_rows"
        /\ "fence_answer" \in NumLabels /\ l \in FencePhase
    BY <1>1, <1>3, <1>9, <2>1 DEF NumRequest, Numbers!FenceRows, Numbers!Read, Numbers!At, FencePhase, NumLabels
  <2>3. nQuiet \/ ~nRaced => StillSo("fence_answer", r)
    BY <1>2, <2>2 DEF StillSo
  <2> QED BY <1>1, <1>3, <1>7, <2>2, <2>3, DashMoves
<1> QED BY <1>4, <1>5, <1>6, <1>8, <1>9

LEMMA AnswersKeep ==
  ASSUME NumInv, Numbers!Observe,
         Numbers!EventAnswer("dashboard") \/ Numbers!FenceAnswer("dashboard")
  PROVE  NumInv'
<1> DEFINE q == nReq["dashboard"]
           l == nPc["dashboard"]
<1>1. /\ q \in NumRequest /\ l \in {"event_answer", "fence_answer"}
      /\ ~Numbers!Idle("dashboard") /\ UNCHANGED <<Numbers!tables, nNow>>
      /\ Numbers!Step("dashboard", "idle", Numbers!NoRequest)
  BY DEF NumInv, NumTypes, Numbers!EventAnswer, Numbers!FenceAnswer, Numbers!Read, Numbers!At, Numbers!Idle
<1>2. (nQuiet \/ ~nRaced => StillSo(l, q)) /\ (nQuiet => AnswerStands(l))
  BY DEF NumInv
<1>3. CASE Numbers!EventAnswer("dashboard")
  <2>1. nReport' = <<Numbers!ComputeEventAnalytics(q.fences, q.joins, q.rows)>> /\ l = "event_answer"
    BY <1>3 DEF Numbers!EventAnswer, Numbers!At
  <2>2. q.fences \in Seq(NumFences) /\ q.joins \in SUBSET NumAttendees /\ q.rows \in Seq(NumRow)
    BY <1>1 DEF NumRequest
  <2>3. Answered(nReport')
    BY <2>1, <2>2 DEF Answered
  <2>4. nQuiet => AnswersNow(nReport')
    BY <1>2, <2>1 DEF StillSo, AnswersNow
  <2>5. StillSo("idle", Numbers!NoRequest) /\ NewestFirst(Numbers!NoRequest.rows) /\ "idle" \in NumLabels
        /\ "idle" \notin FencePhase
    BY NoRequestFits DEF StillSo, NewestFirst, NumLabels, FencePhase
  <2> QED BY <1>1, <2>3, <2>4, <2>5, NoRequestFits, DashMoves
<1>4. CASE Numbers!FenceAnswer("dashboard")
  <2>1. l = "fence_answer" /\ UNCHANGED nReport
    BY <1>4 DEF Numbers!FenceAnswer, Numbers!Read, Numbers!At
  <2>2. nQuiet => AnswersNow(nReport)
    BY <1>2, <2>1 DEF AnswerStands, EventPhase, FencePhase
  <2> QED BY <1>1, <2>1, <2>2, DashEnds
<1> QED BY <1>3, <1>4

-----------------------------------------------------------------------------
(* What others do                                                          *)

LEMMA MarkKeeps ==
  ASSUME NumInv, Numbers!AnalyticsAssumption, Numbers!Mark, Numbers!Observe
  PROVE  NumInv'
<1>1. PICK row \in NumRow : nAttendance' = Append(nAttendance, row) /\ row.at = nNow
  <2>1. PICK m \in NumMarks :
          nAttendance' = Append(nAttendance, [user |-> m.user, source |-> m.source, place |-> m.place,
                                              fence |-> m.fence, at |-> nNow])
    BY DEF Numbers!Mark
  <2>2. nNow \in 1..NumTime
    BY DEF NumInv, NumTypes
  <2> QED BY <2>1, <2>2 DEF NumRow
<1>2. /\ Len(nAttendance) < NumRows /\ nAttendance \in Seq(NumRow) /\ NumRows \in Nat
      /\ \A i, j \in DOMAIN nAttendance : i < j => nAttendance[i].at <= nAttendance[j].at
      /\ \A i \in DOMAIN nAttendance : nAttendance[i].at <= nNow
      /\ nNow \in 1..NumTime
  BY NumBounds DEF NumInv, NumTypes, Numbers!Mark
<1>3. PICK n \in Nat : n = Len(nAttendance) /\ DOMAIN nAttendance = 1..n
  BY <1>2, LenProperties
<1>4. /\ nAttendance' \in Seq(NumRow) /\ Len(nAttendance') = n + 1
      /\ \A i \in 1..n : nAttendance'[i] = nAttendance[i]
      /\ nAttendance'[n + 1] = row
  BY <1>1, <1>2, <1>3, AppendProperties
<1>5. DOMAIN nAttendance' = 1..(n + 1)
  BY <1>4, LenProperties
<1>6. \A i \in 1..(n + 1) : i \in 1..n \/ i = n + 1
  OBVIOUS
<1>7. \A i \in 1..n : nAttendance'[i].at <= nNow
  BY <1>2, <1>3, <1>4
<1>8. nAttendance'[n + 1].at = nNow /\ nNow <= nNow
  BY <1>1, <1>2, <1>4
<1>9. \A i \in DOMAIN nAttendance' : nAttendance'[i].at <= nNow
  BY <1>5, <1>6, <1>7, <1>8
<1>10. \A i, j \in DOMAIN nAttendance' : i < j => nAttendance'[i].at <= nAttendance'[j].at
  <2>1. ASSUME NEW i \in 1..(n + 1), NEW j \in 1..(n + 1), i < j
        PROVE  nAttendance'[i].at <= nAttendance'[j].at
    <3>1. i \in 1..n
      BY <2>1
    <3>2. CASE j \in 1..n
      BY <2>1, <3>1, <3>2, <1>2, <1>3, <1>4
    <3>3. CASE j = n + 1
      BY <3>1, <3>3, <1>7, <1>8
    <3> QED BY <3>2, <3>3, <1>6
  <2> QED BY <2>1, <1>5
<1>11. Len(nAttendance') <= NumRows
  BY <1>2, <1>3, <1>4
<1>12. UNCHANGED <<nPc, nReq, nEvent, nMade, nFences, nJoins, nNow>> /\ nReport' = <<>>
  BY DEF Numbers!Mark, Numbers!workers
<1>13. nQuiet' \in BOOLEAN /\ nRaced' \in BOOLEAN
  BY DEF Numbers!Observe, NumInv, NumTypes
<1>14. NumTypes'
  BY <1>4, <1>9, <1>10, <1>11, <1>12, <1>13 DEF NumInv, NumTypes, NewestFirst
<1> QED BY <1>12, <1>14, OthersMove

LEMMA RemoveAtHas ==
  ASSUME NEW S, NEW s \in Seq(S), NEW i \in DOMAIN s
  PROVE  /\ Numbers!RemoveAt(s, i) \in Seq(S)
         /\ \A j \in DOMAIN Numbers!RemoveAt(s, i) :
              Numbers!RemoveAt(s, i)[j] = s[IF j < i THEN j ELSE j + 1]
              /\ (IF j < i THEN j ELSE j + 1) \in DOMAIN s
         /\ DOMAIN Numbers!RemoveAt(s, i) \subseteq Nat
<1>1. PICK n \in Nat : n = Len(s) /\ DOMAIN s = 1..n
  BY LenProperties
<1>2. i \in 1..n
  BY <1>1
<1> DEFINE a == SubSeq(s, 1, i - 1)
           b == SubSeq(s, i + 1, n)
<1>3. /\ a \in Seq(S) /\ Len(a) = i - 1
      /\ \A j \in 1..(i - 1) : a[j] = s[j]
  <2>1. 1 \in Int /\ i - 1 \in Int /\ \A j \in 1..(i - 1) : s[j] \in S
    BY <1>1, <1>2, ElementOfSeq
  <2>2. /\ a \in Seq(S) /\ Len(a) = IF 1 <= i - 1 THEN i - 1 - 1 + 1 ELSE 0
        /\ \A j \in 1..(i - 1 - 1 + 1) : a[j] = s[1 + j - 1]
    BY <2>1, SubSeqProperties
  <2>3. \A j \in 1..(i - 1) : j \in 1..(i - 1 - 1 + 1) /\ 1 + j - 1 = j
    BY <1>2
  <2>4. Len(a) = i - 1
    BY <2>2, <1>2
  <2> QED BY <2>2, <2>3, <2>4
<1>4. /\ b \in Seq(S) /\ Len(b) = n - i
      /\ \A j \in 1..(n - i) : b[j] = s[i + j]
  <2>1. i + 1 \in Int /\ n \in Int /\ \A j \in (i + 1)..n : s[j] \in S
    BY <1>1, <1>2, ElementOfSeq
  <2>2. /\ b \in Seq(S) /\ Len(b) = IF i + 1 <= n THEN n - (i + 1) + 1 ELSE 0
        /\ \A j \in 1..(n - (i + 1) + 1) : b[j] = s[i + 1 + j - 1]
    BY <2>1, SubSeqProperties
  <2>3. \A j \in 1..(n - i) : j \in 1..(n - (i + 1) + 1) /\ i + 1 + j - 1 = i + j
    BY <1>2
  <2>4. Len(b) = n - i
    BY <2>2, <1>2
  <2> QED BY <2>2, <2>3, <2>4
<1>5. Numbers!RemoveAt(s, i) = a \o b
  BY <1>1 DEF Numbers!RemoveAt
<1> HIDE DEF a, b
<1>6. /\ a \o b \in Seq(S) /\ Len(a \o b) = n - 1
      /\ \A j \in 1..(n - 1) : (a \o b)[j] = IF j <= i - 1 THEN a[j] ELSE b[j - (i - 1)]
  <2>1. /\ a \o b \in Seq(S) /\ Len(a \o b) = Len(a) + Len(b)
        /\ \A j \in 1..(Len(a) + Len(b)) : (a \o b)[j] = IF j <= Len(a) THEN a[j] ELSE b[j - Len(a)]
    BY <1>3, <1>4, ConcatProperties
  <2>2. Len(a) + Len(b) = n - 1
    BY <1>2, <1>3, <1>4
  <2> QED BY <2>1, <2>2, <1>3
<1>7. DOMAIN (a \o b) = 1..(n - 1)
  BY <1>6, LenProperties
<1>8. ASSUME NEW j \in 1..(n - 1)
      PROVE  /\ (a \o b)[j] = s[IF j < i THEN j ELSE j + 1]
             /\ (IF j < i THEN j ELSE j + 1) \in 1..n
  <2>1. CASE j < i
    <3>1. j \in 1..(i - 1) /\ j <= i - 1 /\ j \in 1..n
      BY <2>1, <1>2
    <3> QED BY <3>1, <2>1, <1>3, <1>6
  <2>2. CASE ~(j < i)
    <3>1. /\ ~(j <= i - 1) /\ j - (i - 1) \in 1..(n - i) /\ i + (j - (i - 1)) = j + 1
          /\ j + 1 \in 1..n
      BY <2>2, <1>2
    <3>2. b[j - (i - 1)] = s[j + 1]
      BY <3>1, <1>4
    <3> QED BY <3>1, <3>2, <2>2, <1>6
  <2> QED BY <2>1, <2>2
<1> QED BY <1>1, <1>5, <1>6, <1>7, <1>8

\* Without one of the fences each of the others is there once.
LEMMA DeleteFenceKeeps ==
  ASSUME NumInv, Numbers!AnalyticsAssumption, Numbers!DeleteFence, Numbers!Observe
  PROVE  NumInv'
<1>1. PICK i \in DOMAIN nFences : nFences' = Numbers!RemoveAt(nFences, i)
  BY DEF Numbers!DeleteFence
<1>2. /\ nFences \in Seq(NumFences) /\ Numbers!Range(nFences) \subseteq nMade
      /\ Numbers!IsInjective(nFences)
  BY DEF NumInv, NumTypes
<1>3. PICK k : k = [j \in DOMAIN nFences' |-> IF j < i THEN j ELSE j + 1]
  OBVIOUS
<1>4. /\ nFences' \in Seq(NumFences) /\ DOMAIN nFences' \subseteq Nat
      /\ \A j \in DOMAIN nFences' : nFences'[j] = nFences[k[j]] /\ k[j] \in DOMAIN nFences
  BY <1>1, <1>2, <1>3, RemoveAtHas
<1>5. Numbers!Range(nFences') \subseteq nMade
  BY <1>2, <1>4 DEF Numbers!Range
<1>6. Numbers!IsInjective(nFences')
  <2>1. i \in Nat
    BY <1>2, LenProperties
  <2>2. \A j, m \in DOMAIN nFences' : k[j] = k[m] => j = m
    BY <2>1, <1>3, <1>4
  <2>3. \A j, m \in DOMAIN nFences : nFences[j] = nFences[m] => j = m
    BY <1>2 DEF Numbers!IsInjective
  <2> QED BY <2>2, <2>3, <1>4 DEF Numbers!IsInjective
<1>7. UNCHANGED <<nPc, nReq, nEvent, nMade, nJoins, nAttendance, nNow>> /\ nReport' = <<>>
  BY DEF Numbers!DeleteFence, Numbers!workers
<1>8. nQuiet' \in BOOLEAN /\ nRaced' \in BOOLEAN
  BY DEF Numbers!Observe, NumInv, NumTypes
<1>9. NumTypes'
  BY <1>4, <1>5, <1>6, <1>7, <1>8 DEF NumInv, NumTypes, NewestFirst
<1> QED BY <1>7, <1>9, OthersMove

\* A new fence is put before those that are there.
LEMMA AddFenceKeeps ==
  ASSUME NumInv, Numbers!AnalyticsAssumption, Numbers!AddFence, Numbers!Observe
  PROVE  NumInv'
<1>1. PICK f \in NumFences \ nMade : nMade' = nMade \cup {f} /\ nFences' = <<f>> \o nFences
  BY DEF Numbers!AddFence
<1>2. /\ nFences \in Seq(NumFences) /\ Numbers!Range(nFences) \subseteq nMade
      /\ Numbers!IsInjective(nFences) /\ nMade \subseteq NumFences
  BY DEF NumInv, NumTypes
<1>3. PICK n \in Nat : n = Len(nFences) /\ DOMAIN nFences = 1..n
  BY <1>2, LenProperties
<1>4. <<f>> \in Seq(NumFences) /\ Len(<<f>>) = 1 /\ <<f>>[1] = f
  OBVIOUS
<1>5. /\ nFences' \in Seq(NumFences) /\ Len(nFences') = 1 + n
      /\ \A j \in 1..(1 + n) : nFences'[j] = IF j <= 1 THEN <<f>>[j] ELSE nFences[j - 1]
  BY <1>1, <1>2, <1>3, <1>4, ConcatProperties
<1>6. DOMAIN nFences' = 1..(1 + n)
  BY <1>5, LenProperties
<1>7. nFences'[1] = f /\ \A j \in 1..(1 + n) : j # 1 => j - 1 \in 1..n /\ nFences'[j] = nFences[j - 1]
  BY <1>4, <1>5
<1>8. \A j \in 1..n : nFences[j] \in nMade
  BY <1>2, <1>3 DEF Numbers!Range
<1>9. Numbers!Range(nFences') \subseteq nMade'
  BY <1>1, <1>6, <1>7, <1>8 DEF Numbers!Range
<1>10. Numbers!IsInjective(nFences')
  <2>1. ASSUME NEW j \in 1..(1 + n), NEW m \in 1..(1 + n), nFences'[j] = nFences'[m] PROVE j = m
    <3>1. CASE j = 1 /\ m # 1
      BY <2>1, <3>1, <1>1, <1>7, <1>8
    <3>2. CASE m = 1 /\ j # 1
      BY <2>1, <3>2, <1>1, <1>7, <1>8
    <3>3. CASE j # 1 /\ m # 1
      <4>1. j - 1 \in 1..n /\ m - 1 \in 1..n /\ nFences[j - 1] = nFences[m - 1]
        BY <2>1, <3>3, <1>7
      <4>2. j - 1 = m - 1
        BY <4>1, <1>2, <1>3 DEF Numbers!IsInjective
      <4> QED BY <4>2
    <3> QED BY <3>1, <3>2, <3>3
  <2> QED BY <2>1, <1>6 DEF Numbers!IsInjective
<1>11. UNCHANGED <<nPc, nReq, nEvent, nJoins, nAttendance, nNow>> /\ nReport' = <<>>
  BY DEF Numbers!AddFence, Numbers!workers
<1>12. nQuiet' \in BOOLEAN /\ nRaced' \in BOOLEAN
  BY DEF Numbers!Observe, NumInv, NumTypes
<1>13. NumTypes'
  BY <1>1, <1>2, <1>5, <1>9, <1>10, <1>11, <1>12 DEF NumInv, NumTypes, NewestFirst
<1> QED BY <1>11, <1>13, OthersMove

LEMMA OthersKeepNumbers ==
  ASSUME NumInv, Numbers!AnalyticsAssumption, Numbers!Observe,
         Numbers!ChangeJoin \/ Numbers!DeleteEvent \/ Numbers!Tick
  PROVE  NumInv'
<1>1. nQuiet' \in BOOLEAN /\ nRaced' \in BOOLEAN
  BY DEF Numbers!Observe, NumInv, NumTypes
<1>2. CASE Numbers!ChangeJoin
  <2>1. nJoins' \subseteq NumAttendees
    BY <1>2 DEF Numbers!ChangeJoin, NumInv, NumTypes
  <2>2. UNCHANGED <<nPc, nReq, nEvent, nMade, nFences, nAttendance, nNow>> /\ nReport' = <<>>
    BY <1>2 DEF Numbers!ChangeJoin, Numbers!workers
  <2>3. NumTypes'
    BY <1>1, <2>1, <2>2 DEF NumInv, NumTypes, NewestFirst
  <2> QED BY <2>2, <2>3, OthersMove
<1>3. CASE Numbers!DeleteEvent
  <2>1. /\ nEvent' = FALSE /\ nFences' = <<>> /\ nJoins' = {} /\ nAttendance' = <<>>
        /\ UNCHANGED <<nPc, nReq, nMade, nNow>> /\ nReport' = <<>>
    BY <1>3 DEF Numbers!DeleteEvent, Numbers!workers
  <2>2. <<>> \in Seq(NumRow) /\ <<>> \in Seq(NumFences) /\ Len(<<>>) = 0 /\ DOMAIN <<>> = {}
    OBVIOUS
  <2>3. Numbers!Range(<<>>) \subseteq nMade /\ Numbers!IsInjective(<<>>)
    BY <2>2 DEF Numbers!Range, Numbers!IsInjective
  <2>4. Len(nAttendance') <= NumRows
    BY <2>1, <2>2, NumBounds
  <2>5. NumTypes'
    BY <1>1, <2>1, <2>2, <2>3, <2>4 DEF NumInv, NumTypes, NewestFirst
  <2> QED BY <2>1, <2>5, OthersMove
<1>4. CASE Numbers!Tick
  <2>1. nNow' = nNow + 1 /\ nNow < NumTime /\ nNow \in 1..NumTime /\ NumTime \in Nat
    BY <1>4, NumBounds DEF Numbers!Tick, NumInv, NumTypes
  <2>2. /\ UNCHANGED <<nPc, nReq, nEvent, nMade, nFences, nJoins, nAttendance, nReport>>
        /\ UNCHANGED Numbers!tables
    BY <1>4 DEF Numbers!Tick, Numbers!workers, Numbers!tables
  <2>3. \A i \in DOMAIN nAttendance : nAttendance[i].at <= nNow'
    <3>1. nAttendance \in Seq(NumRow) /\ \A i \in DOMAIN nAttendance : nAttendance[i].at <= nNow
      BY DEF NumInv, NumTypes
    <3>2. \A i \in DOMAIN nAttendance : nAttendance[i].at \in Nat
      <4>1. DOMAIN nAttendance = 1..Len(nAttendance)
        BY <3>1, LenProperties
      <4> QED BY <3>1, <4>1, ElementOfSeq, NumBounds
    <3> QED BY <2>1, <3>1, <3>2
  <2>4. NumTypes'
    BY <1>1, <2>1, <2>2, <2>3 DEF NumInv, NumTypes, NewestFirst
  <2> QED BY <2>2, <2>4, OthersMove
<1> QED BY <1>2, <1>3, <1>4

LEMMA NextNumbers ==
  ASSUME NumInv, Numbers!AnalyticsAssumption, Numbers!Next
  PROVE  NumInv'
<1>1. Numbers!Observe
  BY DEF Numbers!Next
<1>2. ASSUME NEW w \in {"dashboard"},
             \/ Numbers!GetEventAnalytics(w) \/ Numbers!EventRead(w) \/ Numbers!EventFences(w)
             \/ Numbers!EventJoins(w) \/ Numbers!EventRows(w) \/ Numbers!EventAnswer(w)
             \/ Numbers!GetFenceAnalytics(w) \/ Numbers!FenceEvent(w) \/ Numbers!FenceFence(w)
             \/ Numbers!FenceFences(w) \/ Numbers!FenceRows(w) \/ Numbers!FenceAnswer(w)
      PROVE  NumInv'
  BY <1>1, <1>2, StartsKeep, ChecksKeep, ReadsKeep, AnswersKeep
<1> QED BY <1>1, <1>2, MarkKeeps, OthersKeepNumbers, AddFenceKeeps, DeleteFenceKeeps DEF Numbers!Next

-----------------------------------------------------------------------------
(* What the answers say                                                    *)

LEMMA ReportsAddUp ==
  ASSUME NumInv
  PROVE  Numbers!NumbersAddUp
<1>1. CASE nReport = <<>>
  BY <1>1 DEF Numbers!NumbersAddUp
<1>2. ASSUME NEW fs \in Seq(NumFences), NEW js \in SUBSET NumAttendees, NEW rows \in Seq(NumRow),
             nReport = <<Numbers!ComputeEventAnalytics(fs, js, rows)>>
      PROVE  Numbers!NumbersAddUp
  <2>1. PICK a : a = Numbers!ComputeEventAnalytics(fs, js, rows)
    OBVIOUS
  <2>2. DOMAIN nReport = {1} /\ nReport[1] = a
    BY <1>2, <2>1
  <2>3. /\ Numbers!Sum(a.source) = a.total
        /\ Numbers!Sum([k \in DOMAIN a.timeline |-> a.timeline[k].count]) = a.total
        /\ Numbers!IsInjective([k \in DOMAIN a.timeline |-> a.timeline[k].label])
        /\ Numbers!Sum([f \in DOMAIN a.fence |-> a.fence[f].total]) <= a.total
    BY <2>1, AnswersAddUp
  <2> QED BY <2>2, <2>3 DEF Numbers!NumbersAddUp
<1> QED BY <1>1, <1>2 DEF NumInv, Answered

LEMMA FencesAgree ==
  ASSUME NumInv
  PROVE  Numbers!FenceAgreesWithEvent
<1> DEFINE q == nReq["dashboard"]
<1> SUFFICES ASSUME nPc["dashboard"] = "fence_answer", nQuiet, nReport # <<>>
             PROVE  [total |-> Numbers!ComputeFenceAnalytics(q.fence, q.fences, q.rows).total,
                     unique |-> Numbers!ComputeFenceAnalytics(q.fence, q.fences, q.rows).unique]
                      = nReport[1].fence[q.fence]
  BY DEF Numbers!FenceAgreesWithEvent, Numbers!At
<1>1. StillSo("fence_answer", q) /\ AnswerStands("fence_answer")
  BY DEF NumInv
<1>2. PICK js : nReport = <<Numbers!ComputeEventAnalytics(nFences, js, Numbers!ListAttendanceByEvent)>>
  BY <1>1 DEF AnswerStands, AnswersNow, EventPhase, FencePhase
<1>3. q.fences = nFences /\ q.rows = Numbers!ListAttendanceByEvent /\ q.fence \in Numbers!Range(nFences)
  BY <1>1 DEF StillSo
<1> HIDE DEF q
<1> QED BY <1>2, <1>3 DEF Numbers!ComputeEventAnalytics, Numbers!ComputeFenceAnalytics

\* Of the fences that a place is in at a time one is the newest.
LEMMA NearbyIsElsewhere ==
  ASSUME Numbers!AnalyticsAssumption, NEW fs \in Seq(NumFences), NEW f \in Numbers!Range(fs), NEW row,
         Numbers!AttributeAttendanceFence(row, fs) = Nil, row.place \in NumArea[f]
  PROVE  ~Numbers!FenceActiveAt(NumWindow[f], row.at)
<1> DEFINE around ==
      {i \in DOMAIN fs : Numbers!FenceActiveAt(NumWindow[fs[i]], row.at) /\ row.place \in NumArea[fs[i]]}
<1>1. row.fence = Nil
  BY DEF Numbers!AttributeAttendanceFence
<1>2. DOMAIN fs \subseteq Nat /\ \A i \in DOMAIN fs : fs[i] # Nil
  <2>1. DOMAIN fs = 1..Len(fs) /\ Len(fs) \in Nat
    BY LenProperties
  <2> QED BY <2>1, ElementOfSeq, NumBounds
<1>3. ASSUME around # {} PROVE FALSE
  <2>1. PICK i \in around : \A j \in around : i <= j
    BY <1>2, <1>3, LeastNatural
  <2>2. (CHOOSE k \in around : \A j \in around : k <= j) \in around
    BY <2>1
  <2>3. fs[CHOOSE k \in around : \A j \in around : k <= j] = Nil
    BY <1>1, <1>3 DEF Numbers!AttributeAttendanceFence
  <2> QED BY <1>2, <2>2, <2>3
<1>4. PICK i \in DOMAIN fs : fs[i] = f
  BY DEF Numbers!Range
<1> QED BY <1>3, <1>4

LEMMA NearbyWasEarlier ==
  ASSUME NumInv, Numbers!AnalyticsAssumption
  PROVE  Numbers!NearbyIsUntimely
<1> DEFINE q == nReq["dashboard"]
<1> SUFFICES ASSUME nPc["dashboard"] = "fence_answer", ~nRaced,
                    NEW i \in Numbers!ComputeFenceAnalytics(q.fence, q.fences, q.rows).nearby
             PROVE  ~Numbers!FenceActiveAt(NumWindow[q.fence], q.rows[i].at)
  BY DEF Numbers!NearbyIsUntimely, Numbers!At
<1>1. StillSo("fence_answer", q) /\ nFences \in Seq(NumFences)
  BY DEF NumInv, NumTypes
<1>2. q.fences = nFences /\ q.fence \in Numbers!Range(nFences)
  BY <1>1 DEF StillSo
<1> HIDE DEF q
<1>3. /\ Numbers!AttributeAttendanceFence(q.rows[i], q.fences) = Nil
      /\ q.rows[i].place \in NumArea[q.fence]
  BY DEF Numbers!ComputeFenceAnalytics
<1> QED BY <1>1, <1>2, <1>3, NearbyIsElsewhere

LEMMA NumbersStart ==
  ASSUME Numbers!Init, Numbers!AnalyticsAssumption
  PROVE  NumInv
<1>1. /\ nEvent = TRUE /\ nMade = {} /\ nFences = <<>> /\ nJoins = {} /\ nAttendance = <<>>
      /\ nNow = 1 /\ nReport = <<>> /\ nQuiet = FALSE /\ nRaced = FALSE
      /\ nPc["dashboard"] = "idle" /\ nReq["dashboard"] = Numbers!NoRequest
      /\ nPc \in [{"dashboard"} -> NumLabels] /\ nReq \in [{"dashboard"} -> NumRequest]
  BY NoRequestFits DEF Numbers!Init, NumLabels
<1>2. <<>> \in Seq(NumRow) /\ <<>> \in Seq(NumFences) /\ Len(<<>>) = 0 /\ DOMAIN <<>> = {}
  OBVIOUS
<1>3. Numbers!Range(<<>>) \subseteq nMade /\ Numbers!IsInjective(<<>>)
      /\ NewestFirst(Numbers!NoRequest.rows)
  BY <1>2, NoRequestFits DEF Numbers!Range, Numbers!IsInjective, NewestFirst
<1>4. nEvent \in BOOLEAN /\ nMade \subseteq NumFences /\ nJoins \subseteq NumAttendees
  BY <1>1
<1>5. /\ nAttendance \in Seq(NumRow) /\ Len(nAttendance) <= NumRows /\ DOMAIN nAttendance = {}
      /\ nNow \in 1..NumTime /\ nQuiet \in BOOLEAN /\ nRaced \in BOOLEAN
  <2>1. NumTime \in Nat /\ NumTime # 0 /\ NumRows \in Nat
    BY NumBounds
  <2>2. 1 \in 1..NumTime /\ 0 <= NumRows
    BY <2>1
  <2> QED BY <1>1, <1>2, <2>2
<1>6. NumTypes
  BY <1>1, <1>2, <1>3, <1>4, <1>5 DEF NumTypes
<1> QED BY <1>1, <1>6 DEF NumInv, Answered, StillSo

LEMMA NumbersAnswer ==
  ASSUME NumInv, Numbers!AnalyticsAssumption, TypeOK
  PROVE  NumbersAgree
<1>1. Numbers!TypeOK
  BY DEF Numbers!TypeOK, NumInv, NumTypes, NewestFirst
<1> QED BY <1>1, ReportsAddUp, FencesAgree, NearbyWasEarlier DEF NumbersAgree

LEMMA NumbersRun == TopicsSpec => []NumInv
<1>1. TopicsInit => NumInv
  BY NumbersStart, TopicsAssumption DEF TopicsInit
<1>2. NumInv /\ [TopicsNext]_<<topic, vars, nVars>> => NumInv'
  <2> SUFFICES ASSUME NumInv, [TopicsNext]_<<topic, vars, nVars>> PROVE NumInv'
    OBVIOUS
  <2>1. CASE UNCHANGED nVars
    BY <2>1 DEF nVars, NumInv, NumTypes, Answered, StillSo, AnswerStands, AnswersNow, NewestFirst,
                Numbers!ListAttendanceByEvent
  <2>2. CASE Numbers!Next
    BY <2>2, NextNumbers, TopicsAssumption
  <2> QED BY <2>1, <2>2 DEF TopicsNext
<1> QED BY <1>1, <1>2, PTL DEF TopicsSpec

\* The requests and the clock move as they do without the numbers.
LEMMA TopicsRun == TopicsSpec => Spec
<1>1. TopicsInit => Init
  BY DEF TopicsInit
<1>2. [TopicsNext]_<<topic, vars, nVars>> => [Next]_vars
  BY DEF TopicsNext
<1> QED BY <1>1, <1>2, PTL DEF TopicsSpec, Spec

\* The sources, buckets and fences of an event's numbers add up whatever was read at which time,
\* a fence has the number that the event's answer gave it while no table changes, and whoever
\* is called nearby was there while the fence was not active.
THEOREM NumbersAreKept == TopicsSpec => []NumbersAgree
<1>1. NumInv /\ TypeOK => NumbersAgree
  BY NumbersAnswer, TopicsAssumption
<1> QED BY <1>1, NumbersRun, TopicsRun, TypeInvariant, PTL
===============================================================================
