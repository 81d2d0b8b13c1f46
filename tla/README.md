# A TLA+ verification of the booking backend

The repository is a booking service: tenants publish events, customers book
slots of them, and a background worker mails confirmations and reminders. It is
an axum server over PostgreSQL (or SQLite); all state is in the database, every
handler is an async function that issues one statement after the other, and
only two operations (creating a booking, cancelling one) use a transaction of
more than one statement. Several processes may run against one database, each
with its own worker. What makes it hard is therefore what may happen between
two awaits: other requests, other workers, a failure, the end of the process.

## The system and its parts

| Part | State | Operations | Modelled in |
| --- | --- | --- | --- |
| slot calculation (`domain/services/availability.rs`) | none; pure | `calculate_slots` | `Availability`, `SlotLoop`; its MANUAL branch in `Sessions` |
| public listings (`get_slots`, `get_available_dates` of `event.rs`) | none; reads | the slots of a date, the dates of a range | `DateListing` |
| booking handlers (`booking.rs`, `booking_management.rs`) | `bookings`, `invitees`, `jobs` | create, update, delete, cancel, reschedule | `Booking` |
| invitees (`invitee.rs`) | `invitees.status` | create, update, delete | `Booking` |
| event configuration (`event.rs`, `event_override.rs`) | `events`, `event_overrides` | create, update and delete an event, set and remove an override | `Booking` (constant: `schedule_type`), `Templates` (create, delete) |
| manual sessions (`session.rs`) | `event_sessions` | create, update, delete | `Sessions` |
| worker (`background.rs`, job repositories) | `jobs`, `mail_logs` | poll, process a job, record, finish | `JobWorker`, promise in `JobQueue` |
| templates and rules (`communication.rs`, `create_event`, `delete_event`) | `email_templates`, `email_template_versions`, `notification_rules` | create, update, restore, delete, seed | `Templates` |
| login and refresh tokens (`auth.rs`, `auth_service.rs`, extractor `AuthUser`) | `refresh_tokens`; access tokens outside the database | login, refresh, logout, expiry | `Logins`, promise in `LoginSessions` |
| tenants and members (`tenant.rs`, `member.rs`) | `tenants`, `users` | create a tenant, create and delete a member | `Logins` |
| labels, edits of a tenant | `booking_labels`, `tenants` | create, update, delete | only the labels of `create_tenant` (`Logins`) |
| Gemini client, mail proxy client, calendar files, router, start-up | none | | no: no state of their own |

How they interact. Handlers and worker share the tables and nothing else.
Booking handlers read the configuration of the event, the override of the date
or the sessions, run `calculate_slots`, and write bookings, invitees and jobs.
The worker claims jobs, reads bookings, rules and templates, calls the mail
proxy, and writes the ledger (`mail_logs`) and the status of the job. Admin
handlers change configuration, sessions, templates and rules underneath both.
Every admin request is let in by an access token, which is signed and not looked
up, so members and their tokens may be gone while it works.

What makes each part correct:

* slots: what is offered has room for the whole duration of the booking;
* bookings: capacity holds, a token pays for one live booking and is not lost,
  a cancelled booking stays cancelled and gets no reminders, reminders fit the
  start time;
* sessions: they do not overlap, are not overfull, and every booking is in one;
* worker: a job is handled by one worker, mailed at most once, not after it was
  withdrawn, reported truthfully, and taken in the end;
* templates: no text is lost and every rule has its event and its template;
* listings: the calendar shows the dates on which the day view shows a slot;
* logins: a session that has neither a token nor an exchange under way never comes
  back, its generations follow one another, a deleted member is soon shut out, and
  tokens do not multiply unless exchanges of one token overlap.

`PROJECT.json` lists, under `hazards`, where in the code each of these is at
risk, and which properties watch it.

## The modules

All times are minutes. `Handlers` is the number of requests in flight; a request
takes one step per database statement or transaction, and keeps what it has read
in `req` (and `seen`, `rule`, `todo`) in between. Consecutive reads of a handler that
decide nothing between them are one step. A row that does not exist yet has
status `NONE`, a removed one `DELETED`, and ids are not used twice, as UUIDs.

**Availability** is `calculate_slots` for one date in closed form: which minutes of
the date are full, which cursors of a window are offered. A zone is a clock that
jumps once (`[shift, at]`), so that wall-clock and elapsed minutes can differ. An
event's `access` is OPEN, RESTRICTED, CLOSED or OTHER: update_event validates no mode, and
with an unknown one nobody can book. **SlotLoop** is the same function as the code
runs it: fill `minute_counts` booking by booking, then walk each window with a
cursor. The counter width is `CountMax` (255 in the code). **DateListing** puts the
two public listings on top: `GetSlots` asks `list_by_range` for one date,
`GetAvailableDates` asks it once for a range and sorts the bookings into dates
itself (`DayBookings`), with times counted from midnight of date 0.

**Booking** has the tables `bookings`, `invitees`, `jobs`, `event`, `override`
and the clock. A request goes through

    idle -> list -> check -> write -> dequeue -> notify -> remind -> idle

* `CreateRead`, `CancelRead`, `RescheduleRead`, `UpdateRead`, `EditRead`: the
  reads and early returns at the start of each handler;
* `List`, `Check`: `list_by_range`; then override, `calculate_slots` and rules;
* `CreateWithToken`: the transaction that burns the token, inserts the booking
  and its jobs; `Cancel`: the one that cancels and reactivates the token;
  `Update`: the UPDATE of a booking's times, which leaves the status alone;
* `Dequeue`: `cancel_jobs_for_booking`; `Notify`, `Remind`: one new job each;
* `Abort`: the request ends at an await (`Failures`): an error of the database,
  a dropped connection, the end of the process;
* `DeleteBooking`, `CreateInvitee`, `UpdateInvitee`, `DeleteInvitee`,
  `UpdateEvent`, `SetOverride`: handlers of a single write. They hold nothing across
  an await and need no free handler, so they fall between any two statements of the
  requests in flight, also when `Handlers` has one element; `req[h].config` and
  `rule[h]` are the event and the override as the request read them.

Jobs of this module are PENDING or CANCELLED; what the worker does to them is
the subject of JobWorker. Rules are constant while requests run.

**Sessions** is the MANUAL counterpart: the admin's requests on sessions and the
customers' requests that book them; `rewrite` is update_booking without a date, which
writes back the times it read. Cancellations and deletions of bookings fall between any
two awaits. Access modes, jobs and tokens are as in
Booking and are left out; the requested times are taken to be in the future and
in the active range of the event.

**JobWorker** has the tables `jobs`, the start times of the rows jobs are about,
the ledger, the mails handed to the proxy, and per worker what it holds across
awaits. A worker goes through

    idle -> next -> (reload | ledger) -> send -> record -> finish -> next

and handlers appear as `Enqueue`, `CancelJobsForBooking`, `MoveBooking` and
`DeleteRow`, as long as some process is up. A process that is killed, or whose
worker panics at the second read of a campaign's booking (the release profile sets
`panic = "abort"`, so worker and handlers end together), is `down`; `Restart` begins
anew with nothing in memory. `Faults` says which calls may fail: `read`, `send`
(with or without the mail having left), `record`, `status`, and `crash`. A template
or tenant that is gone is a failed read. The ledger key is recipient, template and
start time: nothing else in the hashed context changes. **JobQueue** is what the
jobs table promises: jobs keep what they are about and move along PENDING ->
PROCESSING -> COMPLETED or FAILED, or PENDING -> CANCELLED.

**Templates** has templates, versions, rules and one event; `Faults` are the
kinds of request whose statements may fail. `create_event` seeds `Seeds`
(five in the code) and gives a rule to `TriggerSeeds` (all but the invitation);
`delete_event` (`DeleteEvent`, `RemoveEvent`) takes the rules of the event with it
and leaves the templates. `MayRefer` and `MayDelete` are the foreign keys of the
rules: `create_event_rule` and `delete_template` look at nothing themselves. The
versions are a set: restore_version reads a version by its id and copies its text,
so two versions of a template with the same text are not told apart.

**Logins** has the tables `tenants`, `labels`, `users` and `tokens`, and the clock.
A user's `access` is the time until which some access token of that user is
accepted; `left` is when the row was deleted. Requests:

    login:    idle -> issue -> idle
    refresh:  idle -> rotate -> issue -> idle, or idle -> expire -> idle
    tenant:   idle -> user -> label ... label -> idle
    member:   idle -> user -> idle        removal:  idle -> delete -> idle

* `Login`, `RefreshRead`: the reads; `Rotate`: delete of the old token, whatever
  it removed; `IssueTokenPair`: insert of the new one, which the foreign key to
  `users` refuses if the user is gone, and only then the answer with both tokens;
* `Expire`, `Logout`: one delete each; `TokensWithout`: the cascade of a deletion;
* `CreateTenant`, `InsertUser`, `InsertLabel`, `CreateMember`, `DeleteMember`,
  `RemoveUser`: statement by statement; the errors of labels are ignored;
* `Fail`: the request ends at an await, and what it has written stays.

The tokens of a session share a family, named here after its first token.
**LoginSessions** is the promise: a session is opened once, renewed by the
generation after one that was handed out, closed, and not opened again. The
refinement mapping (`Promise`) takes as open the sessions with a token in the
table and those one of whose tokens was found by a refresh that is still under way, for
a user who exists; generations are those of all tokens ever issued in the family. A
logout therefore ends a session only if no refresh of it is under way: one that has
found the token before the logout deletes it issues the next token all the same, since
refresh does not look at how many rows its own delete removed.

Operators marked `mutant` are deliberate bugs: each replaces the definition
below it in a run that must then fail (`mutants` in `PROJECT.json`). They take
no part in the specifications.

## What TLC checks

`tlc -config X.cfg M`, with the pairs of `PROJECT.json`.

| Run | Instance | Shows |
| --- | --- | --- |
| slots | date of 6 minutes, three clocks, up to 3 bookings, overlapping windows, overrides, durations and intervals 0..2, counter up to 2 | the loops end and return the closed form (`LoopComputesCalculateSlots`, `LoopReturns`); on dates without a clock change an offered slot has room in every minute it covers but the last of the date (`OfferedHasRoom`); over three dates with bookings across midnight and an event that begins or ends within them, `CalendarMatchesSlots` |
| booking_serial | one booking request at a time (create, cancel, reschedule), 2 bookings, 1 invitee, a reminder rule and a rule each for cancellation and reschedule, an admin who deletes bookings and edits capacity, duration, access, override and invitee between any two statements | `CancelledQuiet`, `RemindersMatchStart`, `PlacedAsOffered` |
| booking_concurrent | 2 requests aborted anywhere, 3 bookings, 1 invitee, create, cancel, update and edit | `UsedTokenHasLiveBooking`, `CancelledIsFinal`; `OverbookedByRacesOnly`: races overbook a slot, but by one booking per further request in flight at most; `TokenSharedByRacesOnly`: requests that race for a token never share it, and a cancelled booking gives it away once more per further request at most |
| worker_faults | 2 workers, 3 jobs, polls of 2, every fault | `ClaimedByOne`, `OneMailPerJob`, `CompletedMeansHandled`, `CancelledJobNotMailed`, `ImplementsJobQueue` |
| worker_liveness | 1 worker with fairness, 3 reminders or campaign jobs and polls of 2, moving and deleted bookings (which may abort the process), failing reads | `DueJobsAreTaken`, `ClaimedJobsEnd`, `NoDuplicateMail` |
| sessions | one request at a time, 2 sessions, 3 bookings, every endpoint, withdrawals of bookings between any two statements | `SessionsDisjoint`, `SessionNotOverfull`, `BookingInSession` |
| templates | 2 requests, each failing anywhere, 2 default templates and one more, 2 texts, an event that is created and deleted; equal versions count once, so the state space is complete | `RulesResolve`, `TextStaysVersioned` |
| logins | 2 requests, each failing anywhere, 1 tenant, 2 users, 3 refresh tokens, 4 points in time | `ImplementsLoginSessions`, `FormerMemberShutOut`, `OneTokenUnlessRaced`, `TokensHaveUsers` |

The type invariant of each module is checked in one of its runs as well.

Runs that TLC refutes: each states what a message, comment or test of the
repository says, and the code does something else in an order no test tries.
The `findings` of `PROJECT.json` quote the lines.

| Run | What happens |
| --- | --- |
| slots_dst | after a clock change, counts and look-ups use different minute indices, and a full slot is offered |
| booking_overbook | two requests take the last place |
| booking_doublecancel | two cancellations free a token twice |
| worker_race | two workers with equal notifications both find the ledger empty and both send |

What the models show but no run records: with two requests at a time the three
properties of the sessions run fail (each session handler checks and writes in
separate statements), two reschedules break `RemindersMatchStart`, a cancellation
during a reschedule breaks `CancelledQuiet`, a booking deleted between the two reads
of a campaign job aborts the process, whose claimed jobs stay PROCESSING for good, a
failed `create_tenant` leaves a tenant nobody can log in to, a cancellation makes a
revoked token ACTIVE, a refresh that found its token before a logout continues the
session after it, and the last minute of a date is never counted. The hazards of
`PROJECT.json` name each of them; change `Handlers` or `Workers` in the
configuration to see the trace.

### Bounds

Where a run has one handler, races of two requests are out of its reach: it shows
what a request does between the steps of admins and of withdrawals. Two handlers are
enough for every race of a check in one request and a write in another; a third
would only repeat one of the roles. Three bookings reach beyond a capacity of one by
more than one race, and past the double cancellation. Three jobs and polls of two
make a worker poll again while jobs are due. Three refresh tokens are a login and
two exchanges: two that race, two in a row, or one beside a second session; an
access token of life 2 in 4 points of time outlives the deletion of its user, and a
refresh token of life 1 expires before it is exchanged. The dates have 6 or 8
minutes, enough for bookings before, across and after midnight, for overlapping and
disjoint slots, and for a clock change in either direction. `MaxJobs`, `LastMinute`
and `LastTime` cap what would grow without end; no request that would go beyond them
starts. Where a behaviour ends because ids or bounds are used up, the configuration
turns the deadlock check off; otherwise it is on.

### Fairness

`JobWorker!FairSpec`: time passes, every worker polls again and again (the loop
sleeps five seconds and has no exit) while its process is up, and every call of
process_job returns; crashes, restarts and requests owe nothing, so the two liveness
properties make an exception for a process that is down. `SlotLoop!FairSpec`: a
function that runs on one thread goes on until it returns. The other runs check
safety only.

## What TLAPS proves

Every invariant and action property of the passing runs is a theorem, for every
value of the constants: any number of handlers, bookings, sessions, invitees,
rules, workers, jobs, tenants, users, tokens, templates and texts, any length of the
date, any configuration of the event, failures and crashes anywhere. The
assumptions on the constants are named in the modules that declare them:
`DayAssumption`, `CountMaxAssumption`, `NoCapAssumption`, `InputsAssumption`,
`BookingAssumption`, `SessionsAssumption`, `WorkerAssumption`, `LoginsAssumption` and
`TemplatesAssumption`; they say what is a number, what is finite and that markers
(`None`, `NoCap`, `NoKey`) are no values.

A theorem that needs more says so. Some properties do not hold when certain
requests overlap, because handlers check and write in separate statements. There
the theorem has a hypothesis about what does not overlap (`Spec /\ []Apart => []P`),
where possible weaker than one request at a time: it tells which pairs of requests
must be kept apart to get the property, and that all the others are harmless.

| Hypothesis | Excludes | What happens otherwise |
| --- | --- | --- |
| `CreatesOneAtATime` | two `create_session` at once | both find no overlap, both insert |
| `DeletesAlone` | `delete_session` beside create_booking, reschedule_booking or update_booking, with or without a date | the booking is placed in a session that is gone, or given back the times of one |
| `OneAtATime` | two requests of Sessions at once | two bookings take the last place, or one a place that a resize removes |
| `CancelsApart` | `cancel_booking` beside `reschedule_booking` of the same booking | the reschedule queues reminders after the cancellation withdrew them |
| `MovesApart` | `reschedule_booking` beside another move of the same booking | reminders of both starts are queued |
| `MailsApart` | two workers busy with equal mails | both find the ledger without it |
| `~Failures`, `Faults` without send, record and crash | a request or worker that ends between two writes | jobs of a cancelled booking stay PENDING; a mail that left is in no ledger |
| `"update" \notin Kinds` | moves by `update_booking` | it leaves the reminders of the old start |
| `PlainEvent` | overrides, window capacities, a changing capacity, clock changes, slots up to the last minute of the date | an edit lowers the capacity below what is booked, or the minute is not counted |
| `"ACTIVE" \notin InviteeEdits` | an admin who sets the status ACTIVE | the token of a live booking pays again |
| `SerialServer` | two booking requests at once, clock changes, capacities beyond the counter | run booking_overbook, run slots_dst, saturated counters |

The instances of booking_serial and booking_concurrent satisfy `SerialServer` and
`PlainEvent` respectively, one worker satisfies `MailsApart`, and one handler every
hypothesis about pairs of requests.

`AvailabilityProofs` has the facts about the closed form the others cite: a slot
comes from a cursor of a window and lies in the date, a counter below a capacity is
exact, and an offered cursor has room. `SlotLoopProofs`:

* `LoopIsCorrect`: `LoopComputesCalculateSlots`. No induction over data is needed,
  because the loops are the steps of a state machine: `CountsOK` says that
  `minute_counts` is the closed form's count over the bookings done so far,
  `EarliestOK` that `earliest_booking_start` decides as their minimum would, and
  `SlotsOK` that `valid_slots` has the slots of the windows walked and of the present
  window below the cursor. `Inv` puts them together by phase (`PhaseOK`).
* `OfferedSlotsHaveRoom`: `OfferedHasRoom`, from the loop's result: every minute but
  the last was counted, and a count below the capacity is exact if capacities fit.
* `CalendarAgrees`: the two listings agree for any range of dates, any event that is
  not CLOSED, any overrides and bookings. Sorting the bookings of the range into
  dates gives what the query for one date gives, and a date whose slots are not
  empty meets the active range. `CalendarCorrect` is `CalendarMatchesSlots`, the
  instance of it that TLC checks.

`BookingProofs`:

* `TypeCorrect`: `TypeOK`. Inductive is `TypeInv`, which adds that a handler at
  work has a request about a booking (`RequestOK`).
* `CancelledNeverRevived`: `CancelledIsFinal`. No statement writes CONFIRMED over
  an existing row; for the INSERT of create_with_token this needs to know that
  its id is still unused, which is part of `RequestKnows`: the row a request
  works on exists and has the invitee the request read, or the id is fresh and
  no other request has drawn it. `Inv` is `TypeInv /\ RequestKnows`.
* `TokensNotLost`: `UsedTokenHasLiveBooking`, if no admin deletes bookings or
  sets USED by hand. `Inv` is needed for Cancel: the invitee it reactivates is
  that of the booking it cancels.
* `TokensBurnOnce`: `TokenSingleUse`, if nothing gives tokens back (no
  cancellations, no status edit to ACTIVE): the run booking_doublecancel shows
  that cancellations break it. `LiveMeansUsed` strengthens it: the token of a
  live booking is not ACTIVE, so the conditional UPDATE refuses it.
* `TokensSharedByRacesOnly`: `TokenSharedByRacesOnly`, if no admin sets ACTIVE by hand.
  `TokensShared` counts the live bookings of a token together with the cancellations
  about to free it a second time (`Again`) and the ACTIVE token itself (`Claimed`): a
  booking turns an ACTIVE token into a live booking, the first cancellation of a
  booking a live booking into an ACTIVE token and at most every other handler into
  `Again`, and only those reads are ever repeated.
* `CancelledStayQuiet`: `CancelledQuiet`, under `~Failures` and `CancelsApart`.
  `RemindersLive` says that no reschedule in flight is about a cancelled booking,
  `CancelledWithdrawn` that a cancelled booking has no reminder waiting unless a
  cancellation still has to withdraw it.
* `RemindersStayRight`: `RemindersMatchStart`, under `~Failures`, `MovesApart` and
  without `update_booking` moving bookings. `NothingWaitsYet`: a booking that is not
  there has no reminders; `MoversKnow`: a reschedule past its write has the start that
  is in the table, and reminders queued plus rules left are never more than the rules;
  `RemindersRight`: what waits are reminders of the start, one for each rule at
  most, or a reschedule is about to withdraw them. This invariant was model-checked with
  two handlers before it was proved.

`BookingCapacityProofs`:

* `OverbookingBounded`: `OverbookedByRacesOnly`, under `PlainEvent`, with failures and
  any number of handlers. The bookings in a minute are counted together with those
  that requests may still place there without another listing (`Potential`): those
  about to write, and those whose listing has a free place. `RacesBounded` says that
  they never exceed the capacity by more than one for each further handler: a listing
  with a free place is added while the live bookings are below the capacity, and each
  of the other handlers has one booking in the count at most.
* `SerialNeverOverbooked`: `NeverOverbooked`, which the run booking_overbook refutes
  for two handlers, holds for one.
* `SerialPlacement`: `PlacedAsOffered`, under `SerialServer`, while an admin deletes
  bookings and changes event and override between any two statements of the request.
  `StaleByDeletions` says that the listing is wrong only by bookings that have gone
  since, so a slot found free is still free (`Fits`) when the booking is written.

`SessionsProofs`:

* `SessionsTypeCorrect`: `TypeOK`; inductive with what a request has read
  (`TypeInv`). `Inv` adds `RequestKnows` (the id of a new session or booking is
  fresh, a count has the times of its session) and `SessionsProper` (a session ends
  after it starts).
* `SessionsKeptApart`: `SessionsDisjoint`, under `CreatesOneAtATime`. `CreatesApart`:
  what find_overlap said is still true at the insert, as no other request adds or
  moves a session.
* `BookingsKeptInSessions`: `BookingInSession`, under `DeletesAlone`.
  `ClaimsInSession`: a request about to write the times of a live booking has those of
  an open session; `DeleteClear`: no live booking is in a session about to be deleted.
  For update_booking without a date this needs that a booking that is live when it
  writes was live when it read, since no withdrawn booking comes back.
* `SessionsNeverOverfull`: `SessionNotOverfull`, under `OneAtATime` and for
  `max_participants` of at least 0, which the handlers do not check. `FullInv` needs the
  two theorems above (a booking lies in one session, and counts in no other),
  `SeenAll` (the listing is complete) and `WritesFit` (a request about to write leaves
  the session within its capacity, or writes the times that are in the row).

`JobWorkerProofs`, without any restriction but for the last:

* `WorkerTypeCorrect`, `JobsClaimedByOne`: `QueueInv` is `TypeOK`, what a worker
  holds at each await (`WorkerOK`) and `ClaimedByOne` itself. A claim takes
  PENDING jobs, held jobs are PROCESSING, so nobody takes a held job.
* `WorkerImplementsJobQueue`: every step is a step of `JobQueue` or changes no
  job. `Grow` says so of each action, and that mails and ledger only grow.
* `JobsMailedOnce`, `WithdrawnNotMailed`: `MailInv` says that a mailed job is
  past PENDING for good, waits in no batch, and that the worker still holding it
  is past its send.
* `CompletedIsTrue`: `CompletedMeansHandled`. `HandledInv` adds what the worker
  knows at each await: at the ledger that its key is one the job may resolve to,
  after the send that the mail is out, before COMPLETED a reason for it.
* `LedgerPreventsDuplicates`: `NoDuplicateMail`, under `MailsApart` and if sends,
  ledger entries and processes do not fail; reads and status updates may.
  `LedgerInv`: a notification that was sent is in the ledger or its worker is about to
  enter it, and one about to be sent is neither.

`LoginsProofs`, without any restriction:

* `LoginsTypeCorrect`, `TokensKeepTheirUsers`, `DeletedMemberShutOut`: `TypeInv`
  adds to `TypeOK` and `TokensHaveUsers` what a request knows at each await
  (`RequestOK`), that issued tokens have an owner and a family, and that no access
  token reaches further than `AccessLife` beyond now, or beyond the deletion of its
  user (`AccessOK`): a pair is handed out only after its row was stored, which is
  before the deletion.
* `LoginsImplementLoginSessions`: every step is `Quiet` (tokens leave the table at
  most, an exchange begins with a token in the table, nobody gets a user back) and
  closes sessions at most, or hands out one token and opens or renews a session.
  `SessionInv` says that the first token of every family in use has been issued,
  so a login finds its family unused, and that an exchange continues from a
  generation that was issued.
* `OneTokenUnlessExchangesRace`: `NewestInv`. Generations are issued without gap
  (`ChainOK`), and as long as no two tokens of a session have the same one, the
  token in the table is the newest and no exchange under way is ahead of it
  (`Newest`). So an exchange that issues beside a token in the table repeats a
  generation.

`TemplatesProofs`, without any restriction:

* `TemplatesTypeCorrect`, `RulesAlwaysResolve`: `Inv` adds to `TypeOK` and
  `RulesResolve` what a request knows at each await (`RequestOK`) and that the id it
  is about to insert is unused but for rules about to name it (`InsertOK`).
* `TextsStayVersioned`: `TextStaysVersioned`. `WriteOK` says that what a request is
  about to write into a row that still exists is in the history of the row; it
  stays there because only the deletion of the row removes versions and a deleted
  id does not come back (`InsertOK` again). `TablesStep` and `RequestStep` say what
  one statement may do to the tables and to its own request; every action is shown
  to be such a step, and `StepKeeps` that such steps keep `Inv`.

Out of the prover's reach and left to TLC: the liveness properties `LoopReturns`,
`DueJobsAreTaken` and `ClaimedJobsEnd`. Window times are clock minutes of the date in
all proofs (`WindowType`), as the code parses them from "HH:MM". Durations and
intervals are at least 0 (`EventType`); the code accepts negative ones, and the proofs
say nothing of them.

## What is not modelled

The label endpoints and `update_tenant` (edits of columns nothing else reads); a
change of `schedule_type` and the deletion of an event that has bookings, which
the foreign keys refuse; `get_available_dates` for MANUAL events and on clock
changes; the content of mails; the other listing endpoints; the Gemini client.
Passwords, signatures and the CSRF header decide whether a request is let in and
keep no state: the models take every request that passes them. Negative durations
and intervals, which nothing validates, are outside the instances. A Postgres
statement is atomic and sees committed data (READ COMMITTED); the SQLite queries
are the same but for the order of claims, which the model leaves open.

## Plan

1. Done: slots and listings, bookings, worker, sessions, templates with the life of
   their event, logins with tenants and members; proofs of every invariant and action
   property of their runs.
2. Campaigns as requests around `Enqueue`, with failure and retry; a composition of
   Booking and JobWorker over one jobs table: mails a customer gets against the
   life of the booking. An abstract reservation book that serial bookings implement.
