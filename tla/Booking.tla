------------------------------- MODULE Booking -------------------------------
(***************************************************************************)
(* The booking endpoints (api/handlers/booking.rs, booking_management.rs,  *)
(* invitee.rs, event_override.rs) over the tables they share, for one      *)
(* RECURRING event and one calendar date.                                  *)
(*                                                                         *)
(* Every request is an axum task: it runs between two awaits without       *)
(* interruption and each await is one database statement or transaction.   *)
(* A request in flight keeps what it has read in req[h]; consecutive reads *)
(* that decide nothing between them are one step.  A free element of       *)
(* Handlers takes the next request, so Cardinality(Handlers) is the number *)
(* of booking requests the server works on at once.  Requests of a single  *)
(* statement (Admin) hold nothing across an await and take no handler:     *)
(* they fall between any two awaits of the others.                         *)
(***************************************************************************)
EXTENDS Availability, Sequences, SequencesExt

CONSTANTS
    Handlers,        \* request tasks
    BookingIds,      \* the UUIDs Booking::new may draw; bounds the bookings made
    Invitees,        \* invitee rows that may be created, each with its token
    None,            \* an absent id: no invitee, no token, no booking
    Rules,           \* notification rules of the event
    Trigger,         \* trigger_type of each rule
    Lead,            \* minutes before the start at which a reminder rule fires
    EventConfigs,    \* what an admin may save as the event
    OverrideConfigs, \* what an admin may save as the date's override
    InviteeEdits,    \* what an admin may write to invitees.status
    Starts,          \* start times that customers and admins ask for
    Zone,            \* the clock of the date
    Kinds,           \* the endpoints that receive traffic
    Failures,        \* TRUE: a request may end at any of its awaits
    FirstMinute,     \* Utc::now() at the start and
    LastMinute,      \* at the end of the behaviours considered
    MaxJobs          \* no request that queues jobs starts beyond this many

AllKinds == {"create", "cancel", "reschedule", "update", "edit", "delete"}
ReminderTriggers == {"REMINDER_24H", "REMINDER_1H", "REMINDER_M"}
Triggers == ReminderTriggers \cup {"ON_BOOKING", "ON_CANCEL", "ON_RESCHEDULE"}

ASSUME BookingAssumption ==
    /\ IsFiniteSet(BookingIds) /\ IsFiniteSet(Rules)
    /\ None \notin Invitees
    /\ Trigger \in [Rules -> Triggers]
    /\ Lead \in [Rules -> Nat]
    /\ EventConfigs # {} /\ EventConfigs \subseteq EventType
    /\ OverrideConfigs \subseteq OverrideType
    /\ InviteeEdits \subseteq {"ACTIVE", "USED", "REVOKED"}
    /\ Starts \subseteq Int
    /\ Zone \in ZoneType
    /\ Kinds \subseteq AllKinds
    /\ Failures \in BOOLEAN
    /\ FirstMinute \in Int /\ LastMinute \in Int
    /\ MaxJobs \in Nat

VARIABLES
    bookings,   \* table bookings; status "NONE": no row yet, "DELETED": row removed
    invitees,   \* invitees.status; "NONE" and "DELETED" as above
    jobs,       \* table jobs, in the order of creation
    event,      \* the event row
    override,   \* the event_overrides row of the date
    now,        \* Utc::now()
    pc,         \* what each handler does next
    req,        \* the request it works on and what it has read for it
    seen,       \* what list_by_range returned to it
    rule,       \* override_rule: the date's override as it read it
    todo        \* rules it has still to queue jobs for

tables == <<bookings, invitees, jobs, event, override>>
locals == <<pc, req, seen, rule, todo>>
vars == <<tables, now, locals>>

-----------------------------------------------------------------------------
BookingStatus == {"NONE", "CONFIRMED", "CANCELLED", "DELETED"}
InviteeStatus == {"NONE", "ACTIVE", "USED", "REVOKED", "DELETED"}
JobTypes == {"CONFIRMATION", "REMINDER", "CANCELLATION", "RESCHEDULE"} \cup ReminderTriggers
JobStatus == {"PENDING", "CANCELLED"}

Snapshot == [id : BookingIds, start : Int, end : Int]
BookingType == [status : BookingStatus, start : Int, end : Int, invitee : Invitees \cup {None}]
JobType == [booking : BookingIds, type : JobTypes, at : Int, status : JobStatus]

Pcs == {"idle", "list", "check", "write", "dequeue", "notify", "remind"}

RequestType ==
    [kind : AllKinds \cup {"none"},
     id : BookingIds \cup {None},          \* the booking it is about
     start : Int, end : Int,               \* the times it will write
     invitee : Invitees \cup {None},       \* invitee_id read or given
     config : EventConfigs]                \* the event as it read it

\* The type of the tables and of the values requests keep across awaits.
TypeOK ==
    /\ bookings \in [BookingIds -> BookingType]
    /\ invitees \in [Invitees -> InviteeStatus]
    /\ jobs \in Seq(JobType)
    /\ event \in EventConfigs
    /\ override \in OverrideConfigs \cup {NoOverride}
    /\ now \in Int
    /\ pc \in [Handlers -> Pcs]
    /\ req \in [Handlers -> RequestType]
    /\ seen \in [Handlers -> SUBSET Snapshot]
    /\ rule \in [Handlers -> OverrideConfigs \cup {NoOverride}]
    /\ todo \in [Handlers -> SUBSET Rules]

Request(kind, b, start, end, invitee, config) ==
    [kind |-> kind, id |-> b, start |-> start, end |-> end, invitee |-> invitee,
     config |-> config]

NoRequest == Request("none", None, 0, 0, None, CHOOSE c \in EventConfigs : TRUE)

Row(status, start, end, invitee) ==
    [status |-> status, start |-> start, end |-> end, invitee |-> invitee]

Init ==
    /\ bookings = [b \in BookingIds |-> Row("NONE", 0, 0, None)]
    /\ invitees = [i \in Invitees |-> "NONE"]
    /\ jobs = <<>>
    /\ event \in EventConfigs
    /\ override = NoOverride
    /\ now = FirstMinute
    /\ pc = [h \in Handlers |-> "idle"]
    /\ req = [h \in Handlers |-> NoRequest]
    /\ seen = [h \in Handlers |-> {}]
    /\ rule = [h \in Handlers |-> NoOverride]
    /\ todo = [h \in Handlers |-> {}]

-----------------------------------------------------------------------------
Idle(h) == pc[h] = "idle"

Exists(b) == bookings[b].status \in {"CONFIRMED", "CANCELLED"}
Fresh(b) == bookings[b].status = "NONE" /\ \A h \in Handlers : req[h].id # b

\* Job::new: every job is created PENDING.
Job(b, type, at) == [booking |-> b, type |-> type, at |-> at, status |-> "PENDING"]

IsReminder(r) == Trigger[r] \in ReminderTriggers
RulesFor(trigger) == {r \in Rules : Trigger[r] = trigger}

\* A free handler takes a request, whose first await is at.
Accept(h, at, request) ==
    /\ Idle(h)
    /\ pc' = [pc EXCEPT ![h] = at]
    /\ req' = [req EXCEPT ![h] = request]
    /\ UNCHANGED <<tables, now, seen, rule, todo>>

Goto(h, at, rules) ==
    /\ pc' = [pc EXCEPT ![h] = at]
    /\ todo' = [todo EXCEPT ![h] = rules]
    /\ seen' = [seen EXCEPT ![h] = {}]
    /\ rule' = [rule EXCEPT ![h] = NoOverride]
    /\ UNCHANGED req

\* The request of h returns to its client, with a result or an error.
Return(h) ==
    /\ pc' = [pc EXCEPT ![h] = "idle"]
    /\ req' = [req EXCEPT ![h] = NoRequest]
    /\ seen' = [seen EXCEPT ![h] = {}]
    /\ rule' = [rule EXCEPT ![h] = NoOverride]
    /\ todo' = [todo EXCEPT ![h] = {}]

-----------------------------------------------------------------------------
\* First reads of a request, up to the await after which it writes or lists.
\* A request whose guard is false has returned an error and changed nothing.

\* create_booking: event, access mode, token, past and active range.
CreateRead(h, b, s, token) ==
    /\ "create" \in Kinds /\ Fresh(b) /\ Len(jobs) < MaxJobs
    /\ \/ event.access = "OPEN" /\ token = None
       \/ /\ event.access = "RESTRICTED"
          /\ token \in Invitees
          /\ invitees[token] = "ACTIVE"
    /\ s >= now
    /\ s >= event.activeStart
    /\ s + event.duration <= event.activeEnd
    /\ Accept(h, "list", Request("create", b, s, s + event.duration, token, event))

\* cancel_booking: an already cancelled booking is returned as it is.
CancelRead(h, b) ==
    /\ "cancel" \in Kinds /\ Len(jobs) < MaxJobs
    /\ bookings[b].status = "CONFIRMED"
    /\ event.allowCancel
    /\ Accept(h, "write", Request("cancel", b, 0, 0, bookings[b].invitee, event))

\* reschedule_booking
RescheduleRead(h, b, s) ==
    /\ "reschedule" \in Kinds /\ Len(jobs) < MaxJobs
    /\ bookings[b].status = "CONFIRMED"
    /\ event.allowReschedule
    /\ Accept(h, "list", Request("reschedule", b, s, s + event.duration, bookings[b].invitee, event))

\* update_booking with a date and a time; the status of the row is not looked at.
UpdateRead(h, b, s) ==
    /\ "update" \in Kinds /\ Exists(b)
    /\ Accept(h, "list", Request("update", b, s, s + event.duration, bookings[b].invitee, event))

\* update_booking without a date: the times it read are written back.
EditRead(h, b) ==
    /\ "edit" \in Kinds /\ Exists(b)
    /\ Accept(h, "write", Request("edit", b, bookings[b].start, bookings[b].end,
                                  bookings[b].invitee, NoRequest.config))

-----------------------------------------------------------------------------
\* Availability of the requested slot.

\* Bookings that take a place: list_by_range leaves out CANCELLED rows.
Live(b) == bookings[b].status = "CONFIRMED"

Taken == {[id |-> b, start |-> bookings[b].start, end |-> bookings[b].end] :
             b \in {c \in BookingIds : Live(c)}}

\* booking_repo.list_by_range over the day
List(h) ==
    /\ pc[h] = "list"
    /\ pc' = [pc EXCEPT ![h] = "check"]
    /\ seen' = [seen EXCEPT ![h] = {t \in Taken : InDay(t, Zone)}]
    /\ UNCHANGED <<tables, now, req, rule, todo>>

\* The jobs create_booking prepares: reminders only if they are still due.
DueRules(start) ==
    {r \in Rules : \/ Trigger[r] = "ON_BOOKING"
                   \/ IsReminder(r) /\ start - Lead[r] > now}

\* mutant: the slots are those of the event as it is by now, the times those of the
\* event that was read
SlotOfferedAnew(h) ==
    req[h].start \in CalculateSlots(event, override, seen[h], Zone, now)

\* mutant: the bookings that were listed are not counted
SlotOfferedUncounted(h) ==
    req[h].start \in CalculateSlots(req[h].config, override, {}, Zone, now)

SlotOffered(h) ==
    req[h].start \in CalculateSlots(req[h].config, override, seen[h], Zone, now)

\* event_override_repo.find_by_date, calculate_slots, get_rules_by_event
Check(h) ==
    /\ pc[h] = "check"
    /\ \/ /\ SlotOffered(h)
          /\ pc' = [pc EXCEPT ![h] = "write"]
          /\ seen' = [seen EXCEPT ![h] = {}]
          /\ rule' = [rule EXCEPT ![h] = override]
          /\ todo' = [todo EXCEPT ![h] = IF req[h].kind = "create"
                                        THEN DueRules(req[h].start) ELSE {}]
          /\ UNCHANGED req
       \/ ~SlotOffered(h) /\ Return(h)
    /\ UNCHANGED <<tables, now>>

-----------------------------------------------------------------------------
\* Writes.

\* "REMINDER" whatever the rule's lead, unlike the jobs of a reschedule
CreatedJob(b, start, r) ==
    IF IsReminder(r) THEN Job(b, "REMINDER", start - Lead[r]) ELSE Job(b, "CONFIRMATION", now)

CreatedJobs(b, start, rs) ==
    LET order == SetToSeq(rs)
    IN  [i \in DOMAIN order |-> CreatedJob(b, start, order[i])]

\* mutant: the UPDATE burns the token whatever its status
NeverRefused(i) == FALSE

\* The UPDATE .. WHERE status = 'ACTIVE' of the transaction touches no row.
TokenRefused(i) == i # None /\ invitees[i] # "ACTIVE"

Burnt(i) == IF i = None THEN invitees ELSE [invitees EXCEPT ![i] = "USED"]

\* create_with_token: one transaction that burns the token, inserts the booking
\* and its jobs, and does nothing when the token is no longer ACTIVE.
CreateWithToken(h) ==
    LET r == req[h]
    IN  /\ pc[h] = "write" /\ r.kind = "create"
        /\ IF TokenRefused(r.invitee)
           THEN UNCHANGED <<bookings, invitees, jobs>>
           ELSE /\ invitees' = Burnt(r.invitee)
                /\ bookings' = [bookings EXCEPT ![r.id] =
                                    Row("CONFIRMED", r.start, r.end, r.invitee)]
                /\ jobs' = jobs \o CreatedJobs(r.id, r.start, todo[h])
        /\ Return(h)
        /\ UNCHANGED <<event, override, now>>

WithStatus(b, status) ==
    [bookings EXCEPT ![b] = Row(status, bookings[b].start, bookings[b].end, bookings[b].invitee)]

\* mutant: the invitee is not given its token back
NotReactivated(i) == invitees

Reactivated(i) == IF i = None THEN invitees ELSE [invitees EXCEPT ![i] = "ACTIVE"]

\* booking_repo.cancel: one transaction; an error if the row is gone.
Cancel(h) ==
    LET r == req[h]
    IN  /\ pc[h] = "write" /\ r.kind = "cancel"
        /\ IF Exists(r.id)
           THEN /\ bookings' = WithStatus(r.id, "CANCELLED")
                /\ invitees' = Reactivated(r.invitee)
                /\ Goto(h, "dequeue", {})
           ELSE Return(h) /\ UNCHANGED <<bookings, invitees>>
        /\ UNCHANGED <<jobs, event, override, now>>

\* mutant: the status a request read is written back with the times
MovedAndConfirmed(b, start, end) ==
    [bookings EXCEPT ![b] = Row("CONFIRMED", start, end, bookings[b].invitee)]

Moved(b, start, end) ==
    [bookings EXCEPT ![b] = Row(bookings[b].status, start, end, bookings[b].invitee)]

\* booking_repo.update writes the times and leaves status and invitee_id alone.
Update(h) ==
    LET r == req[h]
    IN  /\ pc[h] = "write" /\ r.kind \in {"reschedule", "update", "edit"}
        /\ bookings' = IF Exists(r.id) THEN Moved(r.id, r.start, r.end) ELSE bookings
        /\ IF Exists(r.id) /\ r.kind = "reschedule" THEN Goto(h, "dequeue", {}) ELSE Return(h)
        /\ UNCHANGED <<invitees, jobs, event, override, now>>

-----------------------------------------------------------------------------
\* What cancel_booking and reschedule_booking do after the write.

\* mutant: a misspelt status
Misspelt(j) == [booking |-> j.booking, type |-> j.type, at |-> j.at, status |-> "CANCELED"]

Withdrawn(j) == [booking |-> j.booking, type |-> j.type, at |-> j.at, status |-> "CANCELLED"]

\* mutants: only one of the two handlers withdraws jobs
OnlyCancelWithdraws(h, j) ==
    req[h].kind = "cancel" /\ j.booking = req[h].id /\ j.status = "PENDING"
OnlyRescheduleWithdraws(h, j) ==
    req[h].kind = "reschedule" /\ j.booking = req[h].id /\ j.status = "PENDING"

\* The rows cancel_jobs_for_booking updates for the request of h.
Withdraws(h, j) == j.booking = req[h].id /\ j.status = "PENDING"

\* cancel_jobs_for_booking, then get_rules_by_trigger
Dequeue(h) ==
    /\ pc[h] = "dequeue"
    /\ jobs' = [i \in DOMAIN jobs |->
            IF Withdraws(h, jobs[i]) THEN Withdrawn(jobs[i]) ELSE jobs[i]]
    /\ Goto(h, "notify", RulesFor(IF req[h].kind = "cancel" THEN "ON_CANCEL" ELSE "ON_RESCHEDULE"))
    /\ UNCHANGED <<bookings, invitees, event, override, now>>

\* One job per rule, each with an insert of its own.
Notify(h, r) ==
    /\ pc[h] = "notify" /\ r \in todo[h]
    /\ jobs' = Append(jobs, Job(req[h].id, IF req[h].kind = "cancel" THEN "CANCELLATION"
                                           ELSE "RESCHEDULE", now))
    /\ todo' = [todo EXCEPT ![h] = todo[h] \ {r}]
    /\ UNCHANGED <<bookings, invitees, event, override, now, pc, req, seen, rule>>

\* A cancellation is finished; a reschedule reads the event's rules.
Notified(h) ==
    /\ pc[h] = "notify" /\ todo[h] = {}
    /\ IF req[h].kind = "cancel" THEN Return(h)
       ELSE Goto(h, "remind", {r \in Rules : IsReminder(r)})
    /\ UNCHANGED <<tables, now>>

\* The new reminder of one rule, if it is still due, under the rule's trigger.
Remind(h, r) ==
    LET at == req[h].start - Lead[r]
    IN  /\ pc[h] = "remind" /\ r \in todo[h]
        /\ jobs' = IF at > now THEN Append(jobs, Job(req[h].id, Trigger[r], at)) ELSE jobs
        /\ todo' = [todo EXCEPT ![h] = todo[h] \ {r}]
        /\ UNCHANGED <<bookings, invitees, event, override, now, pc, req, seen, rule>>

Reminded(h) ==
    /\ pc[h] = "remind" /\ todo[h] = {}
    /\ Return(h)
    /\ UNCHANGED <<tables, now>>

\* A database error, a client that disconnects or a crash ends the request at
\* the await it has reached; what it has written stays.
Abort(h) ==
    /\ Failures /\ ~Idle(h)
    /\ Return(h)
    /\ UNCHANGED <<tables, now>>

-----------------------------------------------------------------------------
\* Requests of one statement.

\* delete_booking: the row only; its jobs and its invitee stay as they are.
DeleteBooking(b) ==
    /\ "delete" \in Kinds /\ Exists(b)
    /\ bookings' = WithStatus(b, "DELETED")
    /\ UNCHANGED <<invitees, jobs, event, override, now, locals>>

CreateInvitee(i) ==
    /\ invitees[i] = "NONE"
    /\ invitees' = [invitees EXCEPT ![i] = "ACTIVE"]
    /\ UNCHANGED <<bookings, jobs, event, override, now, locals>>

\* update_invitee writes the status it is given over whatever is stored.
UpdateInvitee(i, status) ==
    /\ status \in InviteeEdits /\ invitees[i] \notin {"NONE", "DELETED"}
    /\ invitees' = [invitees EXCEPT ![i] = status]
    /\ UNCHANGED <<bookings, jobs, event, override, now, locals>>

\* The foreign key of bookings.invitee_id refuses the delete while a row refers to it.
DeleteInvitee(i) ==
    /\ "delete" \in Kinds /\ invitees[i] \notin {"NONE", "DELETED"}
    /\ \A b \in BookingIds : Exists(b) => bookings[b].invitee # i
    /\ invitees' = [invitees EXCEPT ![i] = "DELETED"]
    /\ UNCHANGED <<bookings, jobs, event, override, now, locals>>

UpdateEvent(c) ==
    /\ c \in EventConfigs
    /\ event' = c
    /\ UNCHANGED <<bookings, invitees, jobs, override, now, locals>>

\* upsert_override and delete_override
SetOverride(o) ==
    /\ o \in OverrideConfigs \cup {NoOverride}
    /\ override' = o
    /\ UNCHANGED <<bookings, invitees, jobs, event, now, locals>>

Tick ==
    /\ now < LastMinute
    /\ now' = now + 1
    /\ UNCHANGED <<bookings, invitees, jobs, event, override, locals>>

-----------------------------------------------------------------------------
Begin(h) ==
    \/ \E b \in BookingIds, s \in Starts, t \in Invitees \cup {None} : CreateRead(h, b, s, t)
    \/ \E b \in BookingIds : CancelRead(h, b)
    \/ \E b \in BookingIds, s \in Starts : RescheduleRead(h, b, s)
    \/ \E b \in BookingIds, s \in Starts : UpdateRead(h, b, s)
    \/ \E b \in BookingIds : EditRead(h, b)

\* The next step of a request that is in flight.
Continue(h) ==
    \/ List(h) \/ Check(h)
    \/ CreateWithToken(h) \/ Cancel(h) \/ Update(h)
    \/ Dequeue(h) \/ Notified(h) \/ Reminded(h)
    \/ \E r \in Rules : Notify(h, r)
    \/ \E r \in Rules : Remind(h, r)

Admin ==
    \/ \E b \in BookingIds : DeleteBooking(b)
    \/ \E i \in Invitees : CreateInvitee(i)
    \/ \E i \in Invitees, st \in InviteeEdits : UpdateInvitee(i, st)
    \/ \E i \in Invitees : DeleteInvitee(i)
    \/ \E c \in EventConfigs : UpdateEvent(c)
    \/ \E o \in OverrideConfigs \cup {NoOverride} : SetOverride(o)

Next ==
    \/ \E h \in Handlers : Begin(h) \/ Continue(h) \/ Abort(h)
    \/ Admin
    \/ Tick

Spec == Init /\ [][Next]_vars

-----------------------------------------------------------------------------
\* Properties

\* Live bookings that occupy minute m.
LiveAt(m) == {b \in BookingIds : Live(b) /\ bookings[b].start <= m /\ m < bookings[b].end}

\* Some window of event e and override o has a slot at s and lets n participants
\* in.
Offers(e, o, s, n) ==
    \E w \in Windows(e, o) :
        /\ \E c \in Cursors(e, w) : Elapsed(Zone, c) = s
        /\ n <= WindowCapacity(e, o, w)

Minutes(b) == bookings[b].start..(bookings[b].end - 1)

\* A booking takes its place in a step that inserts it or moves it.
Placed(b) ==
    /\ bookings'[b].status = "CONFIRMED"
    /\ \/ ~Live(b)
       \/ bookings'[b].start # bookings[b].start
       \/ bookings'[b].end # bookings[b].end

\* Requests that place a booking where calculate_slots offered a slot.
SlotKinds == {"create", "reschedule", "update"}

\* The placement keeps to the offer: when create_booking, reschedule_booking or
\* update_booking places a booking, every minute of it (but the last of the date,
\* which calculate_slots does not count) holds at most as many live bookings as the
\* event and the override that the request read allow, although an admin may have
\* deleted bookings and changed event, override and token between its listing, its
\* check and its write.  Requests that place bookings follow each other here (the
\* theorem SerialPlacement has all three; the run leaves update_booking out, whose
\* moves would break RemindersMatchStart).
PlacedAsOffered ==
    [][\A h \in Handlers, b \in BookingIds :
          pc[h] = "write" /\ pc'[h] # "write" /\ req[h].kind \in SlotKinds
             /\ req[h].id = b /\ Placed(b)
          => \A m \in Minutes(b)' \ {DayElapsed(Zone) - 1} :
                Offers(req[h].config, rule[h], req[h].start, Cardinality(LiveAt(m)'))]_vars

\* test_double_booking_conflict and test_capacity_enforcement: no minute holds
\* more live bookings than the event's max_participants (for an event without
\* overrides and window capacities, whose capacity nobody changes).
NeverOverbooked ==
    \A b \in BookingIds : Live(b) =>
        \A m \in Minutes(b) : Cardinality(LiveAt(m)) <= event.cap

\* What overbooking is limited to: a request places its booking on a reading
\* that may be stale, but only one placement of each other request can come in
\* between unnoticed, so no minute holds more than the capacity and one booking
\* for each further request in flight (same restriction as above).
OverbookedByRacesOnly ==
    \A b \in BookingIds : Live(b) =>
        \A m \in Minutes(b) :
            Cardinality(LiveAt(m)) <= event.cap + Cardinality(Handlers) - 1

\* "Token already used": an invitation token pays for one live booking at a time
\* (the transaction of create_with_token burns it), as long as nobody but
\* cancel_booking makes it ACTIVE again.
TokenSingleUse ==
    \A a, b \in BookingIds :
        Live(a) /\ Live(b) /\ bookings[a].invitee = bookings[b].invitee
            /\ bookings[a].invitee # None
        => a = b

\* Live bookings of invitee i, and bookings of i that were cancelled or deleted.
Users(i) == {b \in BookingIds : Live(b) /\ bookings[b].invitee = i}
Freed(i) == {b \in BookingIds : bookings[b].status \in {"CANCELLED", "DELETED"}
                                /\ bookings[b].invitee = i}

\* What the sharing of a token is limited to: requests that race with a token read
\* as ACTIVE never share it (the UPDATE of create_with_token lets one of them
\* through), and a cancelled booking gives it away once more for each other request
\* that had read the booking as CONFIRMED (cancel reactivates the token whatever
\* its status), and not again later.
TokenSharedByRacesOnly ==
    \A i \in Invitees :
        Cardinality(Users(i)) <= 1 + (Cardinality(Handlers) - 1) * Cardinality(Freed(i))

\* No token is lost: a USED token belongs to a live booking, so its holder has
\* either a place or a token that works (create_with_token and cancel change
\* both rows in one transaction).
UsedTokenHasLiveBooking ==
    \A i \in Invitees : invitees[i] = "USED" =>
        \E b \in BookingIds : Live(b) /\ bookings[b].invitee = i

\* A cancelled booking never comes back, even if a request that read it before
\* the cancellation (update_booking, reschedule_booking) writes it afterwards.
CancelledIsFinal ==
    [][\A b \in BookingIds : bookings[b].status = "CANCELLED" =>
          bookings'[b].status \in {"CANCELLED", "DELETED"}]_vars

InFlight(b) == \E h \in Handlers : req[h].id = b

IsReminderJob(j) == j.type \in {"REMINDER"} \cup ReminderTriggers

PendingReminder(j, b) == j.booking = b /\ j.status = "PENDING" /\ IsReminderJob(j)

\* Once the requests about a cancelled booking have returned, none of its
\* reminders is waiting to be mailed (process_job does not look at the status
\* of the booking).
CancelledQuiet ==
    \A b \in BookingIds : bookings[b].status = "CANCELLED" /\ ~InFlight(b) =>
        \A i \in DOMAIN jobs : ~PendingReminder(jobs[i], b)

\* Once the requests about a live booking have returned, its waiting reminders
\* are those of its present start time: no reminder of an earlier time is left
\* ("Cancel old reminders") and none is there twice.
RemindersMatchStart ==
    \A b \in BookingIds : Live(b) /\ ~InFlight(b) =>
        /\ \A i \in DOMAIN jobs : PendingReminder(jobs[i], b) =>
              \E r \in Rules : IsReminder(r) /\ jobs[i].at = bookings[b].start - Lead[r]
        /\ Cardinality({i \in DOMAIN jobs : PendingReminder(jobs[i], b)})
              <= Cardinality({r \in Rules : IsReminder(r)})
=============================================================================
