# A verification of the FlexFence backend

FlexFence records attendance at events with geofences. Organizers create events
with a schedule, draw fences, ask for consents and may demand a scanned code at
clock-in; attendees join with a QR code, clock in and out, or mark themselves
present. The backend is a Go HTTP server over MySQL (gorm), with two background
jobs in the same process.

This directory holds TLA+ modules for the parts of it whose correctness depends on
the order in which things happen, the TLC configurations that check them on small
instances, and proofs that TLAPS checks for instances of any size. Paths below are
relative to `src/internal`.

## 1. The system

### How the parts interact

* **Requests.** net/http runs each request in a goroutine. A handler issues its SQL
  statements one after another and holds no lock between them; only a few groups of
  statements are transactions. The tables are the only shared state. A client may
  go away, a statement may fail and the process may stop between any two statements.
* **Jobs.** `jobs/event_go_live.go` runs `ProcessPendingEventGoLive` every minute,
  `jobs/activity_history_trim.go` deletes old history every day. Both run
  beside the requests, outside any transaction.
* **Ids and times.** Row ids are made of `time.Now().UnixNano()`. There are no
  foreign keys, and of the rows below only consents (event, user), templates (event),
  tokens, and the keys of accounts (address, Google and Apple subject) have unique
  indexes: elsewhere, what looks like a constraint is a check by a handler.

### Components

| component | state | operations | what makes it correct |
|---|---|---|---|
| Event joins (`store/mysql/store.go`, `analytics_store.go`) | `event_joins` | join by QR, leave | one row per attendee and event |
| Consent (`extra_store.go`, `user_consent_store.go`, `http/consent_handlers.go`) | `consent_templates`, `user_consents` | save template, submit consent | nobody clocks in without the consent the event asks for |
| Activity history (`activity_history_store.go`, `http/me_handlers.go`) | `user_activity_sessions` | clock in, clock out, trim | a session is opened once and closed once; it agrees with attendance |
| Attendance records (`store.go`) | `attendance_records` | mark present, clock in | an attendee is counted once |
| Go-live job (`fence_store.go`, `jobs/event_go_live.go`) | `events.go_live_processed_at`, `geofence_alerts` | close sessions, alert each join, mark | everybody who joined is alerted before the event is marked; every live event is processed |
| Event administration (`event_lifecycle_store.go`, `fence_store.go`, `clock_in_store.go`) | `events`, `fences` | create, reschedule, delete, scan requirement | no row outlives its event; fences lie in the event's window |
| Fence capture (`fence_capture_store.go`, `domain/circle_capture.go`) | `fence_capture_sessions` | open, poll, append a point, apply | accepted points are kept; a closed capture stays closed; an applied one has its fence |
| One-time codes (`otp_store.go`, `user_otp_store.go`, `user_password_reset_store.go`) | three challenge tables | request, resend, verify, confirm reset | one open challenge per account; bounded attempts; a code is good once, in its lifetime |
| Accounts (`identity_store.go`, `http/auth_handlers.go`) | `users`, `business_users`, `organizations` | register, join as a guest, sign in with Google, change the password, delete | one owner per address; a sign-in ends at the account of its subject; an organization has an owner; a deleted account stays deleted |
| Clock-in QR and join codes (`clock_in_store.go`, `store.go`, `http/share*.go`) | token columns of `events` | ensure, replace, validate, disable, join with a code | disabled means no token; a shown code is valid; nobody joins with a code that was replaced before |
| Consent forms (`extra_store.go`, `domain/consent_validate.go`, `user_consent_store.go`) | templates, snapshots, `org_consent_fields` | save a form, count its fields, submit values | a stored consent answers a form the event had; keys are apart and settle; uses are counted |
| Alerts and notifications (`fence_store.go`, `notification_store.go`, `notify/dispatcher.go`) | `user_geofence_alerts`, `user_device_tokens`, preferences | alert a join, poll, dispatch, register a device, sign out, switch preferences | a join is alerted once; an alert gets into an answer, and no answer twice; a person is sent what he wants, on his own devices |
| Requests and routing (`http/router.go`, `http/guards.go`, `auth/jwt.go`) | bearer tokens, with the clients | guards of each route | a handler runs only for who is entitled, and for whoever is |
| Schedules (`domain/schedule.go`) | none | pure functions | windows nest, boundaries count once |
| Geometry and reports (`domain/polygon.go`, `geofence.go`, `circle_capture.go`, `gps_tolerance.go`, `location_report.go`) | none | pure functions | a ring has one inside; who is let in is near; forgiving presets forgive |
| Analytics (`domain/analytics.go`, `analytics_store.go`) | none | numbers of an event, of a fence | they add up although the tables move |
| Listings (`analytics_store.go`, `subscribed_events_store.go`) | none | pages of joined events, subscribed events | pages list everything once |
| In-memory store (`store/memory/store.go`) | maps and lists under one mutex | the same operations | the maps agree with the lists |
| Passwords, Google's answers, mail, legal pages, configuration, seeding | none of their own, or I/O | | |

### What is hard here

Two requests interleave between look-up and insert (joins, marks, fences); rows are
saved from a snapshot (`Save` of a whole session row, points of a capture); stamps
are taken statements before they are written (clock-in, codes); a job races
with requests and restarts in the middle of a run; errors are ignored in places; the
deletion of an event races with everything that refers to it; answers are computed from
tables that are read one after the other; alerts are marked before they arrive; guards
read an account before the handler acts for it. `PROJECT.json` lists
these hazards at their lines, with the properties that cover them. It leaves out a few
that no property here is about:

* Row ids are nanoseconds: two inserts in the same one collide, and one request fails
  (`activity_history_store.go:46`).
* A new capture expires the active ones and ignores the error (`fence_capture_store.go:42`);
  two at the same time leave two active. No statement relies on a single one.
* The error of marking a capture as applied is ignored (`fence_capture_store.go:230`), and two
  requests may apply one capture: it then yields two fences.
* A guest's account is created before the code of the event is compared (`http/router.go:516`).
* Signing out a device ignores the error of the `DELETE` (`http/notification_handlers.go:93`).
* The goroutine that delivers an alert is kept nowhere: a restart loses mail and push
  (`fence_store.go:68`, `DispatchDrop`); the alert stays for the next poll, unless its event is deleted before.
* A manual clock-in may name a fence that its event does not have (`http/me_handlers.go:229`), and one
  that names none stays without when the list of fences cannot be read
  (`activity_history_store.go:82`).

## 2. The modules

| module | models | composed by |
|---|---|---|
| `Requests` | goroutines of requests as workers with a program counter and a record of what they carry | all |
| `EventSchedule` | `domain/schedule.go`: validation, liveness, inheriting and fitting | all |
| `AttendanceTables` | the tables of attendance, request frames, the clock | the next four |
| `Membership` | join, leave, consent, template, deletion of an account | `Attendance` |
| `ClockIn` | the clock-in gate and transaction, clock-out, mark present, trim | `Attendance` |
| `GoLive` | the go-live job | `Attendance` |
| `EventAdmin` | reschedule, delete event and fence, scan requirement | `Attendance` |
| `Attendance` | the system of these, its properties | `MCAttendance` |
| `SessionLedger` | what the activity history promises of a row: the abstract specification | instantiated by `Attendance` |
| `OtpChallenge` | the codes for login, registration and password reset | `MCOtpAndDevices` |
| `FenceSetup` | creating events and fences, rescheduling and deleting them | `FenceCapture` |
| `FenceCapture` | capture sessions | `EventSetup` |
| `EventSetup` | the system of these two, its properties | `MCEventSetup` |
| `ClockInQR` | showing, replacing and switching the code that attendees scan to clock in | `MCCodesFormsAlerts` |
| `JoinTokens` | creating, showing and replacing the code to join with, and joining | `MCCodesFormsAlerts` |
| `ConsentForms` | saving a form and counting its fields, submitting values, their validation and storage | `MCCodesFormsAlerts` |
| `ConsentKeys` | the normalization of fields and their keys | `MCCodesFormsAlerts` |
| `Accounts` | attendees and organizers: registration, guests, Google sign-in, passwords, deletion | `MCAccounts` |
| `RouteGuards` | the route table, and the guards in front of the handlers | `MCAccountsAndGuards` |
| `Alerts` | alerts and what becomes of them: joins and the job that alerts them, polls, deleted events, the dispatcher, preferences, device tokens | `MCPolls`, `MCOtpAndDevices` |
| `MCPolls` | the instance of `Alerts` that two compositions share | `MCGoLiveAlerts`, `MCCodesFormsAlerts` |
| `Geometry` | polygons, circles, the checks of a location report | `MCSetupAndGeometry` |
| `Listings` | the pages of joined events, the subscribed events | `MCAttendanceListings` |
| `Analytics` | the numbers of an event and of a fence | `MCAttendanceAnalytics` |
| `MemoryStore` | the in-memory store | `MCAttendanceStores` |
| `AlertsProofs`, `GeometryProofs` | theorems about one component | instantiated, in place of it, by the compositions |
| `AttendanceProofs`, `OtpProofs`, `AccountsProofs`, `ClockInQRProofs`, `FenceProofs` | theorems about a component and about the compositions that the runs check | |
| `ListingsProofs` | theorems about the listings and the numbers, in their compositions with `Attendance` | |

**Parts.** Five groups of tables share no state: no statement of one group reads what another
group writes, once each group has the columns it needs for itself. `MCAttendanceStores`,
`MCAttendanceListings`, `MCAttendanceAnalytics`, `MCGoLiveAlerts`, `MCOtpAndDevices`,
`MCSetupAndGeometry`, `MCCodesFormsAlerts` and `MCAccountsAndGuards` each put two to five such
specifications side by side. The variable `part` says which of them a behaviour is about; the
others stay as they began, so that their states add up instead of multiplying (the variable is
called `half` in `MCAttendanceListings`, `topic` in `MCAttendanceAnalytics` and `side` in `MCGoLiveAlerts`). The parts are instances with constants of their own, which the cfg gives values
and the theorems leave open. Nothing is lost
by that: a property speaks of one part, and what the others do does not touch it. Where two
components do meet in one table, they are in one specification (`Attendance` of four
modules, `EventSetup` of two, `Alerts` of the joins, the job, the polls and the dispatcher). Each of
these modules checks by an `ASSUME` that its instances satisfy the assumptions of their modules.

Where one component is about another's tables, it keeps a view of them: `Alerts` has a
job that writes an alert for each row of `event_joins` and marks events as `GoLive` does, without the
times (an event is live or not, and `Turn` changes that at any moment), and joins, departures and
deletions in the statements of `Membership` and `EventAdmin`, with the columns that alerts are
about; `Listings` and
`Analytics` have one action per way in which their tables change (`Change`, `Mark`);
`RouteGuards` has accounts that are changed at any moment.

### State and actions

A table is a set of rows (a sequence, for challenges) with the columns that some
property tells apart. **One action is one SQL statement or one transaction.** A
handler is a chain of actions: its first action, named like the handler, picks the
request's parameters; the following ones are named after the statement. `pc[w]` is
the next statement of worker `w`, `req[w]` what it has read. The label `"idle"`
is a goroutine that has answered. Reads that are followed by nothing but a write of
other columns are merged with it, and a clock that is read between two statements is
read with the one before, so that the stamp may be old when it is written.

* `AbortRequest` ends a request after any statement: an SQL error, a lost client, a
  crash. `JobAbort` does the same to the job.
* A transaction is atomic: the code uses them for groups of plain writes under
  InnoDB's row locks.
* `NewId` takes a fresh number. Two inserts in the same nanosecond fail on the
  primary key, which is an aborted request.
* `SaveSession` is gorm's `Save`: it updates the whole row and inserts it when there
  is none. That is how `RecordClockOut` can restore a session deleted meanwhile.
* An error that the code ignores (`_ =`) is a second outcome of the action
  (`CreateCaptureExpire`). `AddFenceFails` is the error of `AddFence` that a
  shadowed variable hides.
* `seen` of a join, `until` of a challenge and `from` of a fence are no columns; they
  record when the row was inserted, the latest expiry it had, and the capture it was
  made from. `granted` counts the answers that granted something. `raced` becomes true
  when a request begins while another one is in flight (`ClockInQR`, `OtpChallenge`,
  `EventSetup`, `Accounts`, `Alerts`, `JoinTokens`, `ConsentForms`; in `Analytics`, when a table
  changes while a request runs): properties of the form `~raced => ...` hold until then, the
  others always. No action reads it, except that an instance may bound with it which
  requests race (`Racing`).

Left out of the attendance model: join and clock-in tokens (in `JoinTokens`
and `ClockInQR`), location reports (in `Geometry`), the values of consents (in `ConsentForms`),
times of single fences (in `FenceSetup`) and the texts of events. A refused request
executes no write. Guests who join are registered first by the code (`GuestJoin` of
`Accounts`); with attendance they are accounts that exist. The attendees of an instance are given:
finding 4 says that the schema as it stands refuses the second one, and the other models
show what holds of the code once it does not.

`Accounts` takes passwords for their hashes, addresses in their normal form (the
code trims and lower-cases them, MySQL compares them without case) and ids that are never
given out twice. `apple_sub` is a column that no statement sets. Accounts are never disabled:
no code changes `status`.
`EventAdmin` and `FenceSetup` model the same handlers twice, in front of different
tables: with attendance they matter for the rows that refer to an event, with
fences for the windows.

Some notes on the other components:

* `Alerts`. `answered` counts the answers an alert was in, `lost` has the ones whose answer did
  not arrive; `wanted` and `held` are what the addressee wanted, and the devices he had, at some
  time since the notification; the `join` of a notification is the row it was written for. None of
  them is a column. `notices` has every notification there was, and `removed` the alerts
  whose rows were deleted with their event. A poll that fails after its UPDATE
  loses its alerts (`PollFails`). Mail and push are external: each may arrive or not.
* `JoinTokens`, `ClockInQR`. A code is a number that was not given out before; `valid` (no column)
  has the codes an event had since a request began.
* `ConsentForms`. A field is its key and whether it is required, checked (e-mail, boolean),
  custom or long; a value is good, bad or blank. A key with blanks around it is `padded`, and
  where two entries meet under one trimmed key either is stored, as in the random order of a Go map.
  `CountInsert` fails for a long key, as MySQL's strict mode does. `written`, `confirmed` are no columns.
* `ConsentKeys` writes keys character by character, over two letters, one letter for each
  preset, and one for the word custom, because the property is about trimming and cutting.
* `RouteGuards`. A path is the words that select a route, an id is `"id"`; a handler removes what
  later guards look for. `seen` (no column) has what was true of the caller's account and
  of the event at each moment since the request came.
* `Geometry` has integer coordinates, squares of distances and no haversine: a unit is five
  meters, the preset bounds are those of the code.
* `Analytics`, `Listings`: one phone or dashboard asks while the tables change. `quiet`, `moved`,
  `grown`, `there` (no columns) say what changed since it began.
* `MemoryStore`: one action per operation, since a mutex is held throughout. `Seen` are the
  events a caller may have looked up before.

## 3. The runs

| run | question | instance |
|---|---|---|
| `attendance_serial` | do the handlers' checks hold together, one request at a time, with failures between statements? `NoOrphanRows`, `GateHonoured`, and `StrictLedger` (refinement of `SessionLedger` without late writes). Do the maps of the in-memory store agree? `MemoryMapsAgree` | 1 attendee, event, fence; all handlers but the jobs and rescheduling. In memory: two events, two joins, two records |
| `attendance_present` | longer sequences of join, leave, clock in and out, mark, delete: `OneJoinRow`, `SessionHasAttendance`, `MarkPresentOnce`. What may a phone rely on when it walks the pages? `ListsAreRight` | four rows. Three events, pages of one and two rows |
| `attendance_sessions` | what remains of the ledger when two requests, the trim and the job interleave: `LateLedger`. A closed row may get another time or come back after its deletion, it is never open again. Do the numbers of a moving event add up? `NumbersAgree` | two workers. Two fences that overlap, two records |
| `attendance_golive` | `EarlyJoinersAlerted` while an attendee joins and events are rescheduled or deleted beside a job that may fail; `GoLiveProcessed` under fairness. `AlertsAreAnswered` under fairness, while two polls race with the job, fail, and the event is deleted | two events, one attendee, one worker beside the job. One event, two alerts, two polls |
| `attendance_overtaken` | **violated**: a clock-in overtaken by the job leaves a session open for ever | |
| `attendance_rescheduled` | **violated**: an event that is moved to a later window keeps the mark of the earlier one, and is not processed again | |
| `otp` | until requests race, `GrantedOnce`, `AttemptsBounded`, `OnlyLatestCode`; always, `AtMostOneOpen`, `GrantTimely`, `ConsumedIsFinal`. `DeliveredAsWanted`: who is sent what, on which device | two workers, an attendee who registers and resets a password. Two attendees who share a device |
| `setup` | until requests race, `FencesInWindow`, `AcceptedPointsStay`; always, `AtMostOneCenter`, `NeverReactivated`. `ShapesAreSound`, `ReportsAreSound`: what is inside, and who is let in | two workers, circles and polygons, fence times omitted or given; polling and points race with everything. A grid of nine points, captures of up to four |
| `setup_unmade` | **violated**: a capture is marked as applied although `AddFence` failed | |
| `clock_in_qr` | `DisabledHasNoCode` and `CodeShownIsAccepted` until two requests race, `ReplacedForGood` always. `JoinCodesHold` for the codes to join with; `ConsentAnswersForm`, `ConfirmedIsCounted` for forms; `KeysSettle` for keys. `AlertsAreHandedOver` while two requests join twice, leave, poll or delete beside a job that may fail | two workers, rotation on and off. Two events, one from before codes; three forms, five submissions; eleven labels, eight sent keys. One attendee, one event, two joins, two alerts |
| `accounts` | until requests race, `OneOwnerPerEmail`, `GoogleAnswersItsAccount`, `PasswordNeedsCurrent`; always, `OrganizationsHaveOwner`, `DeletedForGood`. `HandledIfEntitled` for every route and method | two workers, three accounts; a Google subject that changes its address. One attendee, one organizer of two organizations, one request |
| `accounts_second` | **violated**: the second attendee is refused although the address is free | one worker |

Some properties bundle statements that belong together, each defined and commented in its own module:

| property | says |
|---|---|
| `MemoryMapsAgree` | `OneJoinRow`, `MarkedOnce`, `NothingButLateRows`, `NewEventIsEmpty`, `FencesStayInside` of `MemoryStore` |
| `ListsAreRight` | `WalkListsAll` (what was joined throughout is listed, unless rows moved), `WalkRepeatsNothing` (unless rows came in), `SubscribedAreUpcoming` |
| `NumbersAgree` | `NumbersAddUp`, `FenceAgreesWithEvent` (as long as nothing changes between), `NearbyIsUntimely` |
| `AlertsAreHandedOver` | `MarkedIsAnswered` (no alert is marked that nobody read), `AnsweredOnce` (until polls race), `OneAlertPerGoLive` (unless a run fails, a join is alerted once; an attendee is, until requests race) |
| `DeliveredAsWanted` | that, and `RegisteredIsMine` (a confirmed device is the caller's, until requests race) |
| `AcceptedPointsStay` | `AcceptedPointsKept`, `ClosedFrozen` of `EventSetup` |
| `ShapesAreSound` | `RayFindsInside` (ray casting against the sides of the edges of a triangle), `PartsAddUp` (a ring that is cut has neither gap nor overlap), `ClosingChangesNothing`, `CircleWithinSamples` |
| `ReportsAreSound` | `AcceptedIsNear`, `LaxerAcceptsMore` |
| `JoinCodesHold` | `JoinedWithCode`, `ReplacedForGood`, and `SharedIsAccepted` until requests race |
| `KeysSettle` | `CustomIsApart`, `SettlesAtOnce` |
| `HandledIfEntitled` | that, and `EntitledIsHandled` (who was entitled throughout is not refused) |

`AlertsAreHandedOver`, `DeliveredAsWanted`, `NumbersAgree`, `ShapesAreSound`, `ConfirmedIsCounted` and `HandledIfEntitled`
include the type invariants of their run's parts. Each statement of a bundle has a mutant of its own.

The attendance runs check one specification with one worker (*serial*) and with two
(*interleaved*); the other components ask both questions in one run, with `raced`.
What holds serially and not interleaved is stated as such: duplicate joins
and marks, rows of deleted events, a stale consent gate, lost points, fences outside
their event, two owners with one address and a code granted twice are what the code
does when requests race, because it looks and writes in separate statements. The
properties without `~raced`, and the interleaved runs, state what survives.

In `otp` the login of an organizer is left out: it runs the statements of a
registration, without the assignment to `verified`. The proofs include it.

### Bounds

* `MaxTime` ends the clock, 2 to 4 ticks: before, at and after the start of a window, or the lifetime and expiry of a code or capture.
* `MaxId` bounds inserted rows. Two rows show the session ledger (a join and a session), three a mark after a clock-in, four a second round.
* `MaxAlerts` saturates the count of alerts at one: the property asks whether there is one.
* `MaxTokens` is three codes: one shown, one that replaces it, one issued late. `Rotations` are 0 (never) and one tick.
* `MaxChallenges`, `MaxCodes`: two challenges show superseding, a third code a resend.
* `maxOTPAttempts` is scaled from 5 to 1, `TTL`, `fenceCaptureTTL` and `Retention` from minutes, hours and days to 0 or 1 ticks. They are constants of the modules, so the proofs do not depend on them.
* `MaxPoints` is what applying a capture takes: 2 for a circle, 3 for a polygon.
* `Racing` names the handlers that are called once requests have overlapped in `setup`: open dashboards that poll and phones that send points. Requests that are in flight by then go on, whatever they are.
* `MaxId` of `accounts` is three: two owners, one of them linked to Google, and an attendee, or an attendee who is deleted and registers again beside an owner. `Profiles` are two subjects, one of which changes its address to the other's.
* `MaxEvents`, `MaxRows`, `MaxFences` of `MemoryStore`: a second event after one was deleted, a second row after one was removed.
* `MaxNotices` of `Alerts`: with two, the job fails and alerts a second time, two joins of one attendee are alerted, or an alert comes between a poll's read and its mark. `MaxJoins` is two: requests that race leave two rows, or an attendee leaves and joins again; it is 0 where `Members` have joined at first and nobody joins later. `MaxRows` (`MaxDevices` where it only polls) bounds device tokens ever inserted.
* `MaxTokens` of `JoinTokens`: three codes: one for the new event, one issued on demand, one that replaces either. `MaxSaves` of `ConsentForms` is two: one save overtakes another between reading a counter and writing it.
* `SlugLength` is scaled from 48 to 2 characters, and `Cap` of `Listings` from 100 to 2 rows (`Asked`, what the subscribed events ask for, from 500 to 4). `MaxChanges` bounds what happens to the tables during a walk, and in `RouteGuards` what is changed by hand during a request: one change between any two guards, besides the deletions by other requests.
* `TTL` of `RouteGuards` is one tick and `MaxTokens` one token: it is still good, expires on the way, or has expired.
* `Hour`, `Day`, `TwoDays` of `Analytics` are scaled to 1, 2 and 1 ticks, so that the timeline of one fence is by hours and those of the other and of the event by days. `Year`, after which the labels of hours repeat because they have no year (`domain/analytics.go:155`), is three ticks.
* `MaxCaptured`, the `MaxPoints` of `Geometry`, is four: convex, reflex and crossed quadrilaterals, and triangles, on a grid where edges run along rows, columns, diagonals and between them.
* `Handlers` names the handlers that clients call in an instance; a handler that does not touch the tables of a property is left out there. `Sources` does it for clock-in sources.

`CHECK_DEADLOCK FALSE` stands where an instance may come to rest: when the ids of the
instance are used up, the clock has ended, or the last account or event is deleted.

### Fairness

`FairSpec` assumes weak fairness of `JobWork` and of `Tick`. The job's goroutine is a
loop over a ticker that ends with the process, so an enabled statement of it is
executed; time passes. No request is assumed to be fair: a client may stop. `JobAbort`
has no fairness and is unrestricted, so `GoLiveProcessed` says what follows if failures
end and the event stays live; an event whose window ends first is never processed.
`SidesSpec` of `MCGoLiveAlerts` has the same fairness for the behaviours about the job.

For those about polls it assumes weak fairness of `Polling`: the statements of a poll that has
begun are executed by a goroutine of the server, which goes on although the client may
be gone. That a client polls is not assumed. `AlertsAreAnswered` says what follows if one does,
again and again, and if its polls stop failing: an alert gets into an answer, unless its event is deleted first.
`SidesSpec` asks for each fairness in the behaviours about its side only; the other side rests.

### Findings

1. `RecordClockIn` takes `clock_in_at` before it inserts. The job can close the open
   sessions in between; the session stays open and no later run looks at the event.
2. `UpdateEvent` does not reset `go_live_processed_at`. In the counterexample it reads the event before
   its window and finds that it may be moved; the window begins and the job finds the event; the
   UPDATE moves it, before or after the job marks it. The event goes live a second time without its sessions being closed or
   its attendees alerted. So does one that was processed, has ended and is moved then; no race is needed
   for that, only more steps.
3. `ApplyFenceCaptureSession` shadows `err` in both clauses of its switch; when
   `AddFence` fails the capture is marked as applied and the caller gets 201.
4. `google_sub` and `apple_sub` are plain strings with unique indexes, and gorm inserts
   the empty string into both. The second attendee, and the second owner who has not
   signed in with Google, are refused as duplicates and get an internal error.

### Further disagreements

While the other components were modelled, these places turned out to do something else than
a document or a comment says. The properties above are stated around them.

* `http/router.go:143` lets a request without a token reach join-by-qr, where it becomes a guest's;
  `docs/AUTH_GUARDS.md:34` lists the route with the guard `User`.
* `store/mysql/identity_store.go:404` "permanently removes an attendee and related mobile data" and
  leaves the tokens of the attendee's devices.
* A person joins an event once (`store.go:179-185` returns the join there is), but two requests that race leave two
  rows, because no index forbids it; a run of the job loops over rows (`fence_store.go:51-63`) and alerts
  the attendee twice. `OneAlertPerGoLive` is about joins, and about attendees until requests race.
* An app that goes on polling may still miss an alert: deleting an ended event deletes its alerts, delivered or
  not (`event_lifecycle_store.go:101`). `AlertsAreAnswered` leaves these out. In return the job
  may write alerts of joins that it listed before the event was deleted, and these stay.
* `domain/consent.go:40` calls a consent an immutable snapshot; `user_consent_store.go:67-75`
  overwrites it when the attendee submits again.
* Values are validated under the keys as sent (`user_consent_store.go:54`) and stored under trimmed
  ones (`:57-60`): of `email` and ` email` the one that was not validated may be stored.
  `ConsentAnswersForm` allows for that.
* The id of a field counter has 64 bytes and contains a key of up to 55 besides 24 others
  (`extra_store.go:135`, `org_consent_field_models.go:6`): a form with a long label is saved, and
  answered with an internal error each time.
* `domain/consent_validate.go:101` promises stable keys. A slug that is cut behind an underscore
  (`:109-111`) is trimmed with the next save (`:65-66`) and so changes once; `SettlesAtOnce`
  says that it does not change again.
* Samples at the center are left out of the sum of the distances and not of their number
  (`domain/circle_capture.go:45-53`): the radius shrinks with each of them. `CircleWithinSamples` says the rest.
* Joined events with the same start have no order from one page to the next
  (`analytics_store.go:106`); an event may be on two pages or on none. `WalkListsAll` and
  `WalkRepeatsNothing` leave such events out (`moved`).
* The subscribed events ask for 500 rows (`subscribed_events_store.go:16`) of a list that is cut at 100
  (`analytics_store.go:63-65`), latest start first: beyond that, events that go on now are missing.
* In the in-memory store, leaving removes the join from the list and not from the index
  (`memory/store.go:606-618`); joining again is answered as joined (`:439`) and adds nothing.

## 4. The proofs

What the runs check on small instances, the theorems of this table state for any.

| theorem | says |
|---|---|
| `AttendanceProofs!TypeInvariant` | `Spec => []TypeOK` |
| `AttendanceProofs!EarlyJoinersAreAlerted` | `Spec => []EarlyJoinersAlerted` |
| `AttendanceProofs!HistoryImplementsLedger` | `Spec => LateLedger`: the history refines the ledger with late writes |
| `AttendanceProofs!HistoryImplementsStrictLedger` | with one worker and no job, `Spec => StrictLedger` |
| `AttendanceProofs!JoinedOnce`, `RowsHaveEvents`, `SessionsAreBacked`, `MarkedOnce` | with one worker, `[]OneJoinRow`, `[]NoOrphanRows`, `[]SessionHasAttendance`, `[]MarkPresentOnce` |
| `AttendanceProofs!GateIsHonoured` | with one worker, `Spec => GateHonoured` |
| `AttendanceProofs!MapsAgree` | `MemoryMapsAgree`: all that the run checks of the in-memory store |
| `ListingsProofs!ListsAreKept` | `[]ListsAreRight`: for any events, changes, limits and caps |
| `ListingsProofs!NumbersAreKept` | `[]NumbersAgree`: for any fences, records and schedules |
| `AlertsProofs!MarkedAlertsWereRead`, `AlertsAreAnsweredOnce`, `AlertedOnce`, and `ClockInQRProofs!AlertsAreKept` | the parts of `AlertsAreHandedOver`, and that |
| `AlertsProofs!OnlyWantedIsDelivered`, `ConfirmedDevicesAreMine`, and `OtpProofs!NotificationsAreWanted` | the parts of `DeliveredAsWanted`, and that |
| `OtpProofs!TypeInvariant`, `InductiveInvariant` | `Spec => []TypeOK`, `Spec => []IInv` |
| `OtpProofs!OpenChallengeUnique` | an account never has two open challenges of a purpose |
| `OtpProofs!GrantsAreTimely` | what was granted was consumed in a lifetime of its code |
| `OtpProofs!ConsumptionIsFinal` | no statement opens a consumed challenge |
| `OtpProofs!CodesGrantOnce`, `AttemptsAreBounded` | `Spec => []GrantedOnce`, `Spec => []AttemptsBounded` |
| `OtpProofs!LatestCodeIsGranted` | `Spec => OnlyLatestCode` |
| `AccountsProofs!TypeInvariant` | `Spec => []TypeOK`, which includes that Google subjects come with verified addresses |
| `AccountsProofs!OrganizationsAlwaysHaveOwner` | no organization is ever without an account |
| `AccountsProofs!DeletionIsForGood` | an account that appears is a new one, however late a request writes |
| `AccountsProofs!OwnersHaveOwnEmail`, `GoogleSignsInItsAccount` | `Spec => []OneOwnerPerEmail`, `Spec => []GoogleAnswersItsAccount` |
| `AccountsProofs!PasswordChangeNeedsCurrent` | `Spec => PasswordNeedsCurrent` |
| `AccountsProofs!OnlyEntitledAreHandled`, `EntitledAreHandled`, `CallersAreGuarded` | both halves of `HandledIfEntitled`, and that |
| `ClockInQRProofs!TypeInvariant` | `Spec => []TypeOK`, which includes that a code has an issue time |
| `ClockInQRProofs!ReplacedCodesStayReplaced` | a code that was replaced or switched off is never the event's code again |
| `ClockInQRProofs!SwitchedOffHasNoCode`, `ShownCodesAreAccepted` | `Spec => []DisabledHasNoCode`, `Spec => []CodeShownIsAccepted` |
| `ClockInQRProofs!JoinCodesAreKept` | `JoinCodesHold`: all that the run checks of the codes to join with |
| `ClockInQRProofs!ConsentsAnswerForms` | `ConsentAnswersForm`, for any interleaving |
| `ClockInQRProofs!ConfirmedFormsAreCounted` | `[]ConfirmedIsCounted`, with the types of codes and forms |
| `ClockInQRProofs!KeysAreKept` | `KeysSettle`: for any labels, keys, presets and cut |
| `FenceProofs!TypeInvariant` | `Spec => []TypeOK` |
| `FenceProofs!FencesStayInWindow` | `Spec => []FencesInWindow` |
| `FenceProofs!ClosedCapturesStayClosed` | `Spec => NeverReactivated` |
| `FenceProofs!CapturesHaveOneCenter` | `Spec => []AtMostOneCenter` |
| `FenceProofs!AcceptedPointsAreFinal`, `ClosedCapturesAreFrozen` | `AcceptedPointsStay`, and its second half |
| `GeometryProofs!FencesAreSound`, and `FenceProofs!ShapesHold` | the parts of `ShapesAreSound`, and that: for any polygon, circle and place |
| `GeometryProofs!AcceptedReportsAreNear`, and `FenceProofs!ReportsHold` | the parts of `ReportsAreSound`, and that |

They hold for any number of workers, accounts, events, rows and ticks (*with one worker*: under the
hypothesis `OneWorker`, that any two are the same); the assumptions
are those named in the modules (`AttendanceAssumption`, `MaxAlertsAssumption`, `OtpAssumption`,
`AccountsAssumption`, `ClockInQRAssumption`, `FenceSetupAssumption`, `FenceCaptureAssumption`),
and for components that are instantiated `PartsAssumption`, `PollsAssumption`, `HalvesAssumption` and
`TopicsAssumption` of the compositions, which state `AlertsAssumption`, `RouteGuardsAssumption`,
`JoinTokensAssumption`, `ConsentFormsAssumption`, `ConsentKeysAssumption`, `GeometryAssumption`,
`ListingsAssumption` and `AnalyticsAssumption` of the instances. TLC evaluates them in every run.
Of the constants of the listings they ask that there are finitely many events, and that the
subscribed events ask for no fewer rows than a page has at most, as 500
(`subscribed_events_store.go:16`) and 100 (`me_handlers.go:124-127`) do.
The proofs of `MemoryStore` need none. A theorem about a composition follows from those about its parts, since a
behaviour of it is one of each part (`PartsRun` and the like).

**One request at a time.** The properties that begin with `~raced` are about handlers that look,
decide and write in statements of their own. None is inductive, and all are proved along the same
argument. `Alone` says that until requests have overlapped at most one worker is not idle: a
request that begins beside another one sets `raced`, and `raced` is never reset. `NothingStale`
says of each worker what its request `Knows`: which of the things it has looked up its next statement
relies on, and that they are still true. A statement of the only request in flight keeps what
that request knows, because nobody else wrote in between; an idle worker knows nothing. So one
lemma (`MoveStaysFresh`) covers the others, and each action has to show only what its own
request knows at its next label. The number of workers is arbitrary: these are theorems
about any behaviour up to the first overlap, not about instances with one worker.

**One worker.** The checks of the attendance handlers are proved with `OneWorker` in place of `raced`:
the jobs and the clock still interleave with the one request. `SInv` has the promises and what the
request `Knows` at each label: who is about to join has no row, who is about to clock in
has passed the gate. Of these tables, the trim and the job touch the sessions only, and delete or close them, which
breaks no promise, because an attendance row outlives its session.

**The ledger.** `RecordClockOut` saves a whole row that it read a statement earlier, after the row may
have been closed, trimmed or deleted. So `LInv` speaks of `Copies`: the rows of the table and
those that clock-outs carry. Each has an id that was given out (`CopiesAreUsed`), and two copies
of one id agree on the clock-in (`CopiesAgree`), also when the row itself is gone. A late save
therefore changes the clock-out of one entry of the ledger and nothing else, and nothing
that is saved is open. `StrictLedger` needs that no save is late: `NoneIsLate` has that what the one clock-out read is
the open row as it stands, and that its time is not before the clock-in. This is
the reason for the hypothesis `NoJobs` beside `OneWorker`: the job stamps `clock_out_at` with the time its run
began, which may be before a clock-in.

**Alerts before going live.** `EarlyJoinersAlerted` is not inductive: the mark is the job's last statement, and
what makes it right happened before. `AInv` adds `RunsArePast` (a run's time, and every mark,
is not in the future, so a join inserted later is no early one) and
`ListedOrAlerted` (while the job works on an event, whoever joined before the run has
an alert or is on its list). `TInv` strengthens `TypeOK` by what a request
holds at each label, because the next statement uses it. `JoinInsert` keeps the
invariant because its row is seen now, `DeleteEventRows` because it resets
the mark, `JobStamp` because the list is empty.

**Alerts and devices.** Five invariants carry what was read and is still to be written. A marked alert was read by
the poll that marked it, which holds it until it answers or loses it (`MarkedIsAnswered` is
inductive over the types of requests). `AInv`: until polls race, what a poll holds was in no answer before, because
it is marked, or its row is gone, before another poll reads (`MarkedFirst`). `OInv`: unless a run
failed, an event whose joins were alerted is not found again, for it is processed, deleted, or about to be marked
(`Told`), and the rows that the run at it has left were not alerted (`ToldOnce`). `JoinedOnce` makes of this
a statement about attendees: until requests race there is one row of each, in the table and in what the job has listed. `DInv`:
until requests race, a registration that found the token, or found none, still does. `WInv`:
`wanted` and `held` contain what is true now (`Current`), so whatever the dispatcher
has read is in them (`DispatchesKnow`), however late it acts.

**Listings.** A page is a piece of a sorted list that may be another one at the time of the next page. Without
events that start at the same time the place of an event is the number of those that start later
(`PlaceIs`, a bijection of the list with its places), and a page has the rows behind those of the earlier pages (`PageHas`). So a
walk need not remember lists. `Walks`: until rows move, what was joined throughout
is listed, or that many others come before it that it is on a later page. Rows that come in only push it further
back. `Advances`: until rows come in, what is listed has too few
before it to be on a later page. `Answers`: a subscribed event that is not over is
in the answer, or a row that is still to be looked at; there, nothing is cut as long as the joins fit the cap.

**Numbers.** An answer is made of fences, joins and records that were read one after the other. That its numbers
agree is a fact about whatever was read (`AnswersAddUp`): sources, buckets and fences split the
records into parts without overlap, and the sizes of such parts add up (`PartsAddUp`). No induction
over the records is needed, because a sum is the number of pairs of a part and a number up to its size. A
bucket is labelled by its first record, which exists by `LeastNatural`; a place in several fences is in the newest of them
for the same reason. That a fence's number is that of the event's answer is about time: `StillSo` says that what was
read is as it was read, and `AnswerStands` that the last answer was made from the tables as they are, both until a table changes.

**Guards.** A guard asks about the account, a later one about the event, and the handler acts: `Learned` says for
each guard that was passed that its answer is in `seen`, which only grows. That a route of the dashboard
writes exactly where its guard or the method asks for the right to write is a fact about the route table
(`RoutesFit`), proved by going through its entries.

**Codes.** A verification writes `consumed_at` with a stamp it took in an earlier
statement, so `GrantTimely` needs to know where that stamp lies while other requests
move the row's expiry: `StampsValid` carries it, `LifetimesBounded` relates an expiry
to the latest one there was, `ConsumptionRecorded` carries it over the read of the account.
`AtMostOneOpen` follows from the transaction that supersedes, for any interleaving.

Serially, a verification knows at `verify_consume` that the challenge is open and counted as it
read it, and at `verify_account` that nothing was granted for it yet: `OpenIsUngranted`, because
a grant is backed by a consumption (`GrantTimely`). That the open challenge is also the newest
is `OlderClosed`, which holds for any interleaving.

**Accounts.** Rows are built from what a request carries, so `TInv` adds `RequestsFit`, what it
carries at each statement: an address at every insert, no subject at those of a registration
or a guest (the reason why only verified rows have one), a password at the owner's.
`OrganizationsHaveOwner` is inductive over it, because one step inserts both rows (`OwnerInserted`)
and the only other write of organizers keeps their organization (`OwnerLinked`). `DeletedForGood` follows from
what each write does to the set of ids: an update maps rows to rows of the same id, an
insert uses an id above `lastId`.

Serially, `OneOwnerPerEmail` rests on what `owner_insert` knows (no owner has the address), because no
index forbids the second owner. A Google sign-in reads its account again by the address after
it wrote the subject; that it is the same account is `Unique`, the unique index of addresses,
which holds for any interleaving. An account found by its subject is verified because a
subject is never the empty string.

**The clock-in code.** `TInv` adds `RequestsFit` to the types: a request that is about to issue
a code carries a time that is past and not zero, so the code and its issue time are
set and cleared together. `ReplacedForGood` then holds because only `Issue` and `SettingsWrite`
write the code, one with a code never used, the other by clearing it; a request that
saved the row it had read would break it (`SettingsWriteRow`). Serially, a request that is about
to issue knows that the event still asks for codes, and one that answers knows the code, its
issue time and the rotation as they are stored.

**Codes to join with.** `CodesKnown`: the code that a request has read, and after the comparison the
one that was scanned, is in `valid`, the codes that its event had since it began. The
rest is that a code is issued once (`CodesAreNew`). Until requests race, a code that is about
to be shown cannot be replaced.

**Consent forms.** A submission validates under a template that it read: `FormsKnown` has that this template is
among those `since` it began, and that the values as sent were valid under it. Counters lose increments when two requests save the same
one. That they never exceed the forms written (`NeverTooMany`) needs the requests under way: a counter, as it is stored or as a request has read it, plus the number of requests that
have still to count the field is at most the number of forms written with it; and finitely many requests are
under way. Until requests race, one request counts at a time and leaves
no field out (`CountedOneByOne`).

**Keys of fields.** A key that was normalized has to survive being normalized again. What `Trim` returns begins and ends
with no character of the set (`TrimResult`), and such a sequence is trimmed already (`TrimSettled`);
the sanitizer returns plain characters (`SanitizePlain`) and leaves those alone (`SanitizeSettled`). Only a cut
can leave an underscore at the end, which goes when the form is sent back for the first time
(`StoredKeySettles`); no later time cuts, because the key is then not made from the label.
`KeysInv` says of each stored field what makes it so.

**Fences.** A fence is checked against its event two statements before it is inserted, and an event
against its fences two statements before it is rescheduled. `Tables` has what holds of the rows
for any interleaving: ids are given out once, rows belong to events that were created, whose schedules are
complete. `Requesting` has what each request `Knows`: always, that it works on such an event; until
requests race, that the times it is about to insert or write fit, and that the capture it is
about to append to is active. `NeverReactivated` needs only the first part: every write to an
existing capture keeps its status or sets a final one, and a new capture has a new id.
A point is appended to the list that was read a statement before, and so may drop the point of
another request. `PointsKnown` has that what is carried has one center at most, and, until
requests race, that it is the list as stored: then nothing is dropped.

**Geometry.** All of it is about places in the plane with integer coordinates, any number of them. How far an edge is
comes down to the identity of Lagrange (`Lagrange`): the squared distance is split along
and across the edge. For a triangle, the signed areas of a point with its three edges add up to that of the triangle
(`Balance`), and which edges a ray meets follows from their signs (`TriangleEdges`).
Cutting a polygon is an argument about parity (`Cut`): the edges the ray meets are those of one part and of the other, and the diagonal
is in both. Closing a ring adds an edge of no length, which no ray meets. The radius of a circle is an average, hence not
more than its largest term (`AverageReached`).

**Induction over data.** The induction theorems of the library take an operator as a parameter, which no backend can
instantiate. What they say can be stated of a set instead: `AllNaturals` of `GeometryProofs` says
that a set which has 0 and with each number its successor has all naturals, and follows from the
well-foundedness of the inclusion of finite sets. `TotalIs` uses it to show that the recursive function that sums
distances exists, and `AverageReached` for what it sums.

**The in-memory store.** A list and its index have different rules: leaving takes a join from
the list and not from the index, a clock-in enters the list of attendance and not the
index of marks. So `JoinInv` and `MarkInv` carry one direction (`JoinsIndexed`: who
is in the list is in the index), and one row each follows, because an operation looks
at the index before it adds to the list. `NothingButLateRows` is inductive by itself. `NewEventIsEmpty`
needs `Counting`: the number of a new event is above all that rows can have.
`FencesStayInside` follows from the one action that changes a schedule.

**Only model-checked:** liveness (`GoLiveProcessed`, `AlertsAreAnswered`): what is about fairness and `ENABLED`
is out of this prover's reach. Every other property of a passing run is a theorem.

## 5. Not modelled, and the plan

Not modelled: the haversine distance and floating-point rounding, the JSON of rings, the
single comparison that checks a circle; cryptography (signatures, hashes), password rules and
Google's answers; mail and push transports; legal pages, configuration, start-up, seeding; CORS
and the decoding of requests; searching and filtering lists by text and status; the recommendation of consent fields,
which is one sorted read. Of the in-memory store, codes, captures, listings and counters.

What is left to do:

1. Of the in-memory store the groups of operations named above: codes, captures, listings and counters, with
   what its mutex makes atomic and the database does not.
2. Password rules and the recommendation of consent fields, as pure functions against a reference definition.
