------------------------------ MODULE Sessions ------------------------------
(***************************************************************************)
(* Events with schedule_type MANUAL: the sessions an admin sets up         *)
(* (api/handlers/session.rs) and the bookings customers make in them       *)
(* (create_booking, reschedule_booking and update_booking with the MANUAL  *)
(* branch of calculate_slots, or without a date), for one event and date.  *)
(*                                                                         *)
(* As in Booking, a request runs without interruption between two awaits;  *)
(* a free element of Handlers takes the next request, and cancellations    *)
(* and deletions of bookings fall between any two awaits.  Times are       *)
(* minutes.                                                                *)
(***************************************************************************)
EXTENDS Integers, FiniteSets

CONSTANTS
    Handlers,      \* request tasks
    SessionIds,    \* the UUIDs EventSession::new may draw
    BookingIds,    \* the UUIDs Booking::new may draw
    None,          \* no session, no booking
    Times,         \* start and end times that are asked for
    Caps,          \* values of max_participants that are asked for
    Kinds          \* the endpoints that receive traffic

AllKinds == {"create_session", "resize", "edit", "delete_session",
             "book", "reschedule", "update", "rewrite", "cancel"}

ASSUME SessionsAssumption ==
    /\ IsFiniteSet(BookingIds)
    /\ None \notin SessionIds /\ None \notin BookingIds
    /\ Times \subseteq Int
    /\ Caps \subseteq Int
    /\ Kinds \subseteq AllKinds

VARIABLES
    sessions,   \* table event_sessions; "NONE": no row yet, "DELETED": removed
    bookings,   \* table bookings, likewise
    pc,         \* what each handler does next
    req,        \* the request it works on and what it has read for it
    seen        \* what booking_repo.list_by_range returned to it

tables == <<sessions, bookings>>
vars == <<tables, pc, req, seen>>

SessionType == [state : {"NONE", "OPEN", "DELETED"}, start : Int, end : Int, cap : Int]
BookingType == [status : {"NONE", "CONFIRMED", "CANCELLED", "DELETED"}, start : Int, end : Int]

RequestType ==
    [kind : AllKinds \cup {"none"}, session : SessionIds \cup {None},
     booking : BookingIds \cup {None}, start : Int, end : Int, cap : Int]

\* The type of the tables and of what requests keep across awaits.
TypeOK ==
    /\ sessions \in [SessionIds -> SessionType]
    /\ bookings \in [BookingIds -> BookingType]
    /\ pc \in [Handlers -> {"idle", "count", "list", "check", "write"}]
    /\ req \in [Handlers -> RequestType]
    /\ seen \in [Handlers -> SUBSET [start : Int, end : Int, id : BookingIds]]

Session(state, start, end, cap) == [state |-> state, start |-> start, end |-> end, cap |-> cap]
Row(status, start, end) == [status |-> status, start |-> start, end |-> end]

Request(kind, s, b, start, end, cap) ==
    [kind |-> kind, session |-> s, booking |-> b, start |-> start, end |-> end, cap |-> cap]

NoRequest == Request("none", None, None, 0, 0, 0)

Init ==
    /\ sessions = [s \in SessionIds |-> Session("NONE", 0, 0, 0)]
    /\ bookings = [b \in BookingIds |-> Row("NONE", 0, 0)]
    /\ pc = [h \in Handlers |-> "idle"]
    /\ req = [h \in Handlers |-> NoRequest]
    /\ seen = [h \in Handlers |-> {}]

-----------------------------------------------------------------------------
Idle(h) == pc[h] = "idle"
Open(s) == sessions[s].state = "OPEN"
Live(b) == bookings[b].status = "CONFIRMED"
Overlap(x, y) == x.start < y.end /\ x.end > y.start

Accept(h, at, request) ==
    /\ Idle(h)
    /\ pc' = [pc EXCEPT ![h] = at]
    /\ req' = [req EXCEPT ![h] = request]
    /\ UNCHANGED <<tables, seen>>

Return(h) ==
    /\ pc' = [pc EXCEPT ![h] = "idle"]
    /\ req' = [req EXCEPT ![h] = NoRequest]
    /\ seen' = [seen EXCEPT ![h] = {}]

-----------------------------------------------------------------------------
\* The admin's requests.

FreshSession(s) == sessions[s].state = "NONE" /\ \A h \in Handlers : req[h].session # s

\* mutant: only a session with the same start counts as an overlap
FindSameStart(start, end) == {s \in SessionIds : Open(s) /\ sessions[s].start = start}

FindOverlap(start, end) ==
    {s \in SessionIds : Open(s) /\ Overlap(sessions[s], [start |-> start, end |-> end])}

\* create_session, up to its insert
CreateSessionRead(h, s, start, end, cap) ==
    /\ "create_session" \in Kinds /\ FreshSession(s)
    /\ start < end
    /\ FindOverlap(start, end) = {}
    /\ Accept(h, "write", Request("create_session", s, None, start, end, cap))

\* update_session with a new capacity, up to count_overlap
ResizeRead(h, s, cap) ==
    /\ "resize" \in Kinds /\ Open(s)
    /\ Accept(h, "count", Request("resize", s, None, sessions[s].start, sessions[s].end, cap))

\* update_session without a capacity: the one it read is written back.
EditRead(h, s) ==
    /\ "edit" \in Kinds /\ Open(s)
    /\ Accept(h, "write", Request("edit", s, None, sessions[s].start, sessions[s].end,
                                  sessions[s].cap))

DeleteSessionRead(h, s) ==
    /\ "delete_session" \in Kinds /\ Open(s)
    /\ Accept(h, "count", Request("delete_session", s, None, sessions[s].start,
                                  sessions[s].end, 0))

CountOverlap(start, end) ==
    Cardinality({b \in BookingIds : Live(b) /\ Overlap(bookings[b], [start |-> start, end |-> end])})

\* mutant: the new capacity is not compared with the bookings
AlwaysAllowed(r) == TRUE

\* bookings_count > cap, or any booking at all for delete_session
CountAllows(r) == CountOverlap(r.start, r.end) <= r.cap

Count(h) ==
    /\ pc[h] = "count"
    /\ IF CountAllows(req[h])
       THEN pc' = [pc EXCEPT ![h] = "write"] /\ UNCHANGED <<req, seen>>
       ELSE Return(h)
    /\ UNCHANGED tables

InsertSession(h) ==
    LET r == req[h]
    IN  /\ pc[h] = "write" /\ r.kind = "create_session"
        /\ sessions' = [sessions EXCEPT ![r.session] = Session("OPEN", r.start, r.end, r.cap)]
        /\ Return(h)
        /\ UNCHANGED bookings

\* session_repo.update writes the capacity; an error if the row is gone.
UpdateSession(h) ==
    LET r == req[h]
        old == sessions[r.session]
    IN  /\ pc[h] = "write" /\ r.kind \in {"resize", "edit"}
        /\ sessions' = IF Open(r.session)
                       THEN [sessions EXCEPT ![r.session] =
                                Session("OPEN", old.start, old.end, r.cap)]
                       ELSE sessions
        /\ Return(h)
        /\ UNCHANGED bookings

DeleteSession(h) ==
    LET r == req[h]
        old == sessions[r.session]
    IN  /\ pc[h] = "write" /\ r.kind = "delete_session"
        /\ sessions' = IF Open(r.session)
                       THEN [sessions EXCEPT ![r.session] =
                                Session("DELETED", old.start, old.end, old.cap)]
                       ELSE sessions
        /\ Return(h)
        /\ UNCHANGED bookings

-----------------------------------------------------------------------------
\* The customers' requests.

FreshBooking(b) == bookings[b].status = "NONE" /\ \A h \in Handlers : req[h].booking # b

BookRead(h, b, start) ==
    /\ "book" \in Kinds /\ FreshBooking(b)
    /\ Accept(h, "list", Request("book", None, b, start, start, 0))

RescheduleRead(h, b, start) ==
    /\ "reschedule" \in Kinds /\ Live(b)
    /\ Accept(h, "list", Request("reschedule", None, b, start, start, 0))

\* update_booking does not look at the status.
UpdateRead(h, b, start) ==
    /\ "update" \in Kinds /\ bookings[b].status \in {"CONFIRMED", "CANCELLED"}
    /\ Accept(h, "list", Request("update", None, b, start, start, 0))

\* update_booking without a date: the times it read are written back.
RewriteRead(h, b) ==
    /\ "rewrite" \in Kinds /\ bookings[b].status \in {"CONFIRMED", "CANCELLED"}
    /\ Accept(h, "write", Request("rewrite", None, b, bookings[b].start, bookings[b].end, 0))

\* booking_repo.list_by_range
List(h) ==
    /\ pc[h] = "list"
    /\ pc' = [pc EXCEPT ![h] = "check"]
    /\ seen' = [seen EXCEPT ![h] =
            {[start |-> bookings[b].start, end |-> bookings[b].end, id |-> b] :
                b \in {c \in BookingIds : Live(c)}}]
    /\ UNCHANGED <<tables, req>>

\* mutant: a full session is offered once more
OfferedOnceMore(existing, s) ==
    Cardinality({b \in existing : Overlap(b, sessions[s])}) <= sessions[s].cap

\* The MANUAL branch of calculate_slots for one session.
Offered(existing, s) ==
    Cardinality({b \in existing : Overlap(b, sessions[s])}) < sessions[s].cap

At(start) == {s \in SessionIds : Open(s) /\ sessions[s].start = start}

\* session_repo.list_by_range, calculate_slots.  The booking ends with the
\* first session found at the requested time; without one, or when none of
\* them has room, the request is refused.
Check(h) ==
    LET r == req[h]
    IN  /\ pc[h] = "check"
        /\ \/ /\ \E s \in At(r.start) : Offered(seen[h], s)
              /\ \E t \in At(r.start) :
                    req' = [req EXCEPT ![h] = Request(r.kind, t, r.booking, r.start,
                                                      sessions[t].end, 0)]
              /\ pc' = [pc EXCEPT ![h] = "write"]
              /\ seen' = [seen EXCEPT ![h] = {}]
           \/ /\ \A s \in At(r.start) : ~Offered(seen[h], s)
              /\ Return(h)
        /\ UNCHANGED tables

\* create_with_token
InsertBooking(h) ==
    LET r == req[h]
    IN  /\ pc[h] = "write" /\ r.kind = "book"
        /\ bookings' = [bookings EXCEPT ![r.booking] = Row("CONFIRMED", r.start, r.end)]
        /\ Return(h)
        /\ UNCHANGED sessions

\* mutant: a moved booking awaits confirmation
MovedPending(r) == Row("PENDING", r.start, r.end)

\* booking_repo.update leaves the status alone.
Moved(r) == Row(bookings[r.booking].status, r.start, r.end)

MoveBooking(h) ==
    LET r == req[h]
    IN  /\ pc[h] = "write" /\ r.kind \in {"reschedule", "update", "rewrite"}
        /\ bookings' = IF bookings[r.booking].status \in {"CONFIRMED", "CANCELLED"}
                       THEN [bookings EXCEPT ![r.booking] = Moved(r)] ELSE bookings
        /\ Return(h)
        /\ UNCHANGED sessions

\* cancel_booking (status CANCELLED) and delete_booking (DELETED)
Withdraw(b, status) ==
    /\ "cancel" \in Kinds
    /\ bookings[b].status \in {"CONFIRMED", "CANCELLED"}
    /\ bookings' = [bookings EXCEPT ![b] = Row(status, bookings[b].start, bookings[b].end)]
    /\ UNCHANGED <<sessions, pc, req, seen>>

-----------------------------------------------------------------------------
Begin(h) ==
    \/ \E s \in SessionIds, t, u \in Times, c \in Caps : CreateSessionRead(h, s, t, u, c)
    \/ \E s \in SessionIds, c \in Caps : ResizeRead(h, s, c)
    \/ \E s \in SessionIds : EditRead(h, s)
    \/ \E s \in SessionIds : DeleteSessionRead(h, s)
    \/ \E b \in BookingIds, t \in Times : BookRead(h, b, t)
    \/ \E b \in BookingIds, t \in Times : RescheduleRead(h, b, t)
    \/ \E b \in BookingIds, t \in Times : UpdateRead(h, b, t)
    \/ \E b \in BookingIds : RewriteRead(h, b)

Continue(h) ==
    \/ Count(h) \/ InsertSession(h) \/ UpdateSession(h) \/ DeleteSession(h)
    \/ List(h) \/ Check(h) \/ InsertBooking(h) \/ MoveBooking(h)

Next ==
    \/ \E h \in Handlers : Begin(h) \/ Continue(h)
    \/ \E b \in BookingIds, status \in {"CANCELLED", "DELETED"} : Withdraw(b, status)

Spec == Init /\ [][Next]_vars

-----------------------------------------------------------------------------
\* Properties

\* "Session overlaps with an existing session": create_session keeps the
\* sessions of an event apart.
SessionsDisjoint ==
    \A s, t \in SessionIds : Open(s) /\ Open(t) /\ s # t => ~Overlap(sessions[s], sessions[t])

\* "Cannot reduce capacity ... bookings already exist": a session never holds
\* more live bookings than its max_participants, whether bookings are added or
\* moved or the capacity is changed.
SessionNotOverfull ==
    \A s \in SessionIds : Open(s) =>
        CountOverlap(sessions[s].start, sessions[s].end) <= sessions[s].cap

\* "Cannot delete session with existing bookings": a live booking of a MANUAL
\* event lies in a session, with the session's start and end.
BookingInSession ==
    \A b \in BookingIds : Live(b) =>
        \E s \in SessionIds : /\ Open(s)
                              /\ sessions[s].start = bookings[b].start
                              /\ sessions[s].end = bookings[b].end
=============================================================================
