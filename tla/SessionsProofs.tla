--------------------------- MODULE SessionsProofs ---------------------------
(***************************************************************************)
(* Theorems about Sessions, for any number of handlers, sessions and       *)
(* bookings.  The handlers check and write in separate statements, so each *)
(* theorem names the requests that must not run side by side for its       *)
(* property to hold; every other concurrency is allowed.                   *)
(***************************************************************************)
EXTENDS Sessions, FiniteSetTheorems, TLAPS

SessionKinds == {"create_session", "resize", "edit", "delete_session"}
SlotKinds == {"book", "reschedule", "update"}
BookingKinds == SlotKinds \cup {"rewrite"}

-----------------------------------------------------------------------------
\* Type correctness.

\* A request is at an await of its kind, about a session or about a booking.
RequestOK ==
    \A h \in Handlers :
        /\ pc[h] = "idle" <=> req[h].kind = "none"
        /\ pc[h] = "count" => req[h].kind \in {"resize", "delete_session"}
        /\ pc[h] \in {"list", "check"} => req[h].kind \in SlotKinds
        /\ req[h].kind \in SessionKinds => req[h].session \in SessionIds
        /\ req[h].kind \in BookingKinds => req[h].booking \in BookingIds

TypeInv == TypeOK /\ RequestOK

\* The record of an idle handler is a request record of no kind.
LEMMA NoRequestType == NoRequest \in RequestType /\ NoRequest.kind = "none"
BY DEF NoRequest, Request, RequestType

\* The fields of the rows and records the actions write.
LEMMA Fields ==
    /\ \A state, start, end, cap :
          /\ Session(state, start, end, cap).state = state
          /\ Session(state, start, end, cap).start = start
          /\ Session(state, start, end, cap).end = end
          /\ Session(state, start, end, cap).cap = cap
    /\ \A status, start, end :
          /\ Row(status, start, end).status = status
          /\ Row(status, start, end).start = start
          /\ Row(status, start, end).end = end
    /\ \A kind, s, b, start, end, cap :
          /\ Request(kind, s, b, start, end, cap).kind = kind
          /\ Request(kind, s, b, start, end, cap).session = s
          /\ Request(kind, s, b, start, end, cap).booking = b
          /\ Request(kind, s, b, start, end, cap).start = start
          /\ Request(kind, s, b, start, end, cap).end = end
          /\ Request(kind, s, b, start, end, cap).cap = cap
BY DEF Session, Row, Request

\* The initial state is well typed.
LEMMA InitType == Init => TypeInv
BY NoRequestType
   DEF Init, TypeInv, TypeOK, RequestOK, Session, SessionType, Row, BookingType,
       SessionKinds, BookingKinds, SlotKinds

\* A free handler may accept a request of a kind that begins at the given await.
LEMMA AcceptType ==
    ASSUME TypeInv, NEW h \in Handlers, NEW at \in {"count", "list", "write"},
           NEW r \in RequestType, Accept(h, at, r), r.kind \in AllKinds,
           at = "count" => r.kind \in {"resize", "delete_session"},
           at = "list" => r.kind \in SlotKinds,
           r.kind \in SessionKinds => r.session \in SessionIds,
           r.kind \in BookingKinds => r.booking \in BookingIds
    PROVE  TypeInv'
BY DEF TypeInv, TypeOK, RequestOK, Accept, tables, AllKinds

\* What a request that returns leaves behind.
LEMMA ReturnType ==
    ASSUME TypeInv, NEW h \in Handlers, Return(h)
    PROVE  /\ pc' \in [Handlers -> {"idle", "count", "list", "check", "write"}]
           /\ req' \in [Handlers -> RequestType]
           /\ seen' \in [Handlers -> SUBSET [start : Int, end : Int, id : BookingIds]]
           /\ RequestOK'
BY NoRequestType DEF TypeInv, TypeOK, RequestOK, Return, SessionKinds, BookingKinds, SlotKinds

\* The reads that begin a request: what is accepted, and at which await.
LEMMA BeginAccepts ==
    ASSUME TypeInv, NEW h \in Handlers, Begin(h)
    PROVE  \E at \in {"count", "list", "write"}, r \in RequestType :
              /\ Accept(h, at, r)
              /\ \/ /\ at = "write" /\ r.kind = "create_session" /\ r.session \in SessionIds
                    /\ FreshSession(r.session) /\ r.start < r.end
                    /\ FindOverlap(r.start, r.end) = {} /\ r.cap \in Caps /\ r.booking = None
                 \/ /\ at = "count" /\ r.kind = "resize" /\ r.session \in SessionIds
                    /\ Open(r.session) /\ r.start = sessions[r.session].start
                    /\ r.end = sessions[r.session].end /\ r.booking = None
                 \/ /\ at = "write" /\ r.kind = "edit" /\ r.session \in SessionIds
                    /\ Open(r.session) /\ r.cap = sessions[r.session].cap /\ r.booking = None
                 \/ /\ at = "count" /\ r.kind = "delete_session" /\ r.session \in SessionIds
                    /\ Open(r.session) /\ r.start = sessions[r.session].start
                    /\ r.end = sessions[r.session].end /\ r.cap = 0 /\ r.booking = None
                 \/ /\ at = "list" /\ r.kind \in SlotKinds /\ r.booking \in BookingIds
                    /\ r.session = None
                    /\ IF r.kind = "book" THEN FreshBooking(r.booking)
                       ELSE bookings[r.booking].status # "NONE"
                 \/ /\ at = "write" /\ r.kind = "rewrite" /\ r.booking \in BookingIds
                    /\ r.session = None /\ bookings[r.booking].status # "NONE"
                    /\ r.start = bookings[r.booking].start /\ r.end = bookings[r.booking].end
<1> USE SessionsAssumption
<1>0. \A s \in SessionIds : sessions[s] \in SessionType
  BY DEF TypeInv, TypeOK
<1>1. ASSUME NEW s \in SessionIds, NEW t \in Times, NEW u \in Times, NEW c \in Caps,
             CreateSessionRead(h, s, t, u, c)
      PROVE  Request("create_session", s, None, t, u, c) \in RequestType
  BY DEF Request, RequestType, AllKinds
<1>2. ASSUME NEW s \in SessionIds, NEW c \in Caps
      PROVE  Request("resize", s, None, sessions[s].start, sessions[s].end, c) \in RequestType
  BY <1>0 DEF Request, RequestType, AllKinds, SessionType
<1>3. ASSUME NEW s \in SessionIds
      PROVE  /\ Request("edit", s, None, sessions[s].start, sessions[s].end, sessions[s].cap)
                    \in RequestType
             /\ Request("delete_session", s, None, sessions[s].start, sessions[s].end, 0)
                    \in RequestType
  BY <1>0 DEF Request, RequestType, AllKinds, SessionType
<1>4. ASSUME NEW b \in BookingIds, NEW t \in Times, NEW kind \in SlotKinds
      PROVE  Request(kind, None, b, t, t, 0) \in RequestType
  BY DEF Request, RequestType, AllKinds, SlotKinds
<1>5. CASE \E s \in SessionIds, t, u \in Times, c \in Caps : CreateSessionRead(h, s, t, u, c)
  <2>1. PICK s \in SessionIds, t \in Times, u \in Times, c \in Caps :
             CreateSessionRead(h, s, t, u, c)
    BY <1>5
  <2> DEFINE r == Request("create_session", s, None, t, u, c)
  <2>2. /\ r \in RequestType /\ r.kind = "create_session" /\ r.session = s
        /\ r.start = t /\ r.end = u /\ r.cap = c /\ r.booking = None
    BY <1>1, <2>1 DEF Request
  <2>3. Accept(h, "write", r) /\ FreshSession(s) /\ t < u /\ FindOverlap(t, u) = {}
    BY <2>1 DEF CreateSessionRead
  <2> HIDE DEF r
  <2> QED
    BY <2>2, <2>3
<1>6. CASE \E s \in SessionIds, c \in Caps : ResizeRead(h, s, c)
  <2>1. PICK s \in SessionIds, c \in Caps : ResizeRead(h, s, c)
    BY <1>6
  <2> DEFINE r == Request("resize", s, None, sessions[s].start, sessions[s].end, c)
  <2>2. /\ r \in RequestType /\ r.kind = "resize" /\ r.session = s
        /\ r.start = sessions[s].start /\ r.end = sessions[s].end /\ r.booking = None
    BY <1>2 DEF Request
  <2>3. Accept(h, "count", r) /\ Open(s)
    BY <2>1 DEF ResizeRead
  <2> HIDE DEF r
  <2> QED
    BY <2>2, <2>3
<1>7. CASE \E s \in SessionIds : EditRead(h, s)
  <2>1. PICK s \in SessionIds : EditRead(h, s)
    BY <1>7
  <2> DEFINE r == Request("edit", s, None, sessions[s].start, sessions[s].end, sessions[s].cap)
  <2>2. /\ r \in RequestType /\ r.kind = "edit" /\ r.session = s
        /\ r.cap = sessions[s].cap /\ r.booking = None
    BY <1>3 DEF Request
  <2>3. Accept(h, "write", r) /\ Open(s)
    BY <2>1 DEF EditRead
  <2> HIDE DEF r
  <2> QED
    BY <2>2, <2>3
<1>8. CASE \E s \in SessionIds : DeleteSessionRead(h, s)
  <2>1. PICK s \in SessionIds : DeleteSessionRead(h, s)
    BY <1>8
  <2> DEFINE r == Request("delete_session", s, None, sessions[s].start, sessions[s].end, 0)
  <2>2. /\ r \in RequestType /\ r.kind = "delete_session" /\ r.session = s
        /\ r.start = sessions[s].start /\ r.end = sessions[s].end /\ r.cap = 0
        /\ r.booking = None
    BY <1>3 DEF Request
  <2>3. Accept(h, "count", r) /\ Open(s)
    BY <2>1 DEF DeleteSessionRead
  <2> HIDE DEF r
  <2> QED
    BY <2>2, <2>3
<1>9. CASE \E b \in BookingIds, t \in Times :
             BookRead(h, b, t) \/ RescheduleRead(h, b, t) \/ UpdateRead(h, b, t)
  <2>1. PICK b \in BookingIds, t \in Times, kind \in SlotKinds :
             /\ Accept(h, "list", Request(kind, None, b, t, t, 0))
             /\ IF kind = "book" THEN FreshBooking(b) ELSE bookings[b].status # "NONE"
    BY <1>9 DEF BookRead, RescheduleRead, UpdateRead, SlotKinds, Live
  <2> DEFINE r == Request(kind, None, b, t, t, 0)
  <2>2. r \in RequestType /\ r.kind = kind /\ r.booking = b /\ r.session = None
    BY <1>4 DEF Request
  <2> HIDE DEF r
  <2>3. Accept(h, "list", r)
    BY <2>1 DEF r
  <2> QED
    BY <2>1, <2>2, <2>3
<1>10. CASE \E b \in BookingIds : RewriteRead(h, b)
  <2>1. PICK b \in BookingIds : RewriteRead(h, b)
    BY <1>10
  <2> DEFINE r == Request("rewrite", None, b, bookings[b].start, bookings[b].end, 0)
  <2>2. /\ r \in RequestType /\ r.kind = "rewrite" /\ r.booking = b /\ r.session = None
        /\ r.start = bookings[b].start /\ r.end = bookings[b].end
    BY DEF Request, RequestType, AllKinds, TypeInv, TypeOK, BookingType
  <2> HIDE DEF r
  <2>3. Accept(h, "write", r) /\ bookings[b].status # "NONE"
    BY <2>1 DEF RewriteRead, r
  <2> QED
    BY <2>2, <2>3
<1> QED
  BY <1>5, <1>6, <1>7, <1>8, <1>9, <1>10 DEF Begin

\* The reads that begin a request keep the types.
LEMMA BeginType ==
    ASSUME TypeInv, NEW h \in Handlers, Begin(h)
    PROVE  TypeInv'
<1>1. PICK at \in {"count", "list", "write"}, r \in RequestType :
         /\ Accept(h, at, r) /\ r.kind \in AllKinds
         /\ at = "count" => r.kind \in {"resize", "delete_session"}
         /\ at = "list" => r.kind \in SlotKinds
         /\ r.kind \in SessionKinds => r.session \in SessionIds
         /\ r.kind \in BookingKinds => r.booking \in BookingIds
  BY BeginAccepts DEF AllKinds, SessionKinds, BookingKinds, SlotKinds
<1> QED
  BY <1>1, AcceptType

\* The later steps of a request keep the types.
LEMMA ContinueType ==
    ASSUME TypeInv, NEW h \in Handlers, Continue(h)
    PROVE  TypeInv'
<1> USE DEF TypeInv
<1>0. /\ req[h] \in RequestType
      /\ req[h].kind \in SessionKinds => sessions[req[h].session] \in SessionType
      /\ req[h].kind \in BookingKinds => bookings[req[h].booking] \in BookingType
  BY DEF TypeOK, RequestOK
<1>r. Return(h) =>
        /\ pc' \in [Handlers -> {"idle", "count", "list", "check", "write"}]
        /\ req' \in [Handlers -> RequestType]
        /\ seen' \in [Handlers -> SUBSET [start : Int, end : Int, id : BookingIds]]
        /\ RequestOK'
  BY ReturnType
<1>1. CASE Count(h)
  <2>1. CASE Return(h)
    BY <1>1, <1>r, <2>1 DEF Count, TypeOK, tables
  <2>2. CASE pc' = [pc EXCEPT ![h] = "write"] /\ UNCHANGED <<req, seen>>
    BY <1>1, <2>2 DEF Count, TypeOK, RequestOK, tables
  <2> QED
    BY <1>1, <2>1, <2>2 DEF Count
<1>2. CASE InsertSession(h)
  <2>1. Session("OPEN", req[h].start, req[h].end, req[h].cap) \in SessionType
    BY <1>0 DEF Session, SessionType, RequestType
  <2> QED
    BY <1>2, <1>r, <2>1 DEF InsertSession, TypeOK
<1>3. CASE UpdateSession(h)
  <2>1. Session("OPEN", sessions[req[h].session].start, sessions[req[h].session].end, req[h].cap)
          \in SessionType
    BY <1>0, <1>3 DEF Session, SessionType, RequestType, UpdateSession, SessionKinds
  <2> QED
    BY <1>3, <1>r, <2>1 DEF UpdateSession, TypeOK
<1>4. CASE DeleteSession(h)
  <2>1. Session("DELETED", sessions[req[h].session].start, sessions[req[h].session].end,
                sessions[req[h].session].cap) \in SessionType
    BY <1>0, <1>4 DEF Session, SessionType, DeleteSession, SessionKinds
  <2> QED
    BY <1>4, <1>r, <2>1 DEF DeleteSession, TypeOK
<1>5. CASE List(h)
  <2>1. {[start |-> bookings[b].start, end |-> bookings[b].end, id |-> b] :
             b \in {c \in BookingIds : Live(c)}}
          \in SUBSET [start : Int, end : Int, id : BookingIds]
    BY DEF TypeOK, BookingType
  <2> QED
    BY <1>5, <2>1 DEF List, TypeOK, RequestOK, tables
<1>6. CASE Check(h)
  <2>1. CASE Return(h)
    BY <1>6, <1>r, <2>1 DEF Check, TypeOK, tables
  <2>2. CASE /\ \E t \in At(req[h].start) :
                  req' = [req EXCEPT ![h] = Request(req[h].kind, t, req[h].booking, req[h].start,
                                                    sessions[t].end, 0)]
             /\ pc' = [pc EXCEPT ![h] = "write"]
             /\ seen' = [seen EXCEPT ![h] = {}]
    <3>1. PICK t \in SessionIds :
             req' = [req EXCEPT ![h] = Request(req[h].kind, t, req[h].booking, req[h].start,
                                               sessions[t].end, 0)]
      BY <2>2 DEF At
    <3> DEFINE r == Request(req[h].kind, t, req[h].booking, req[h].start, sessions[t].end, 0)
    <3>2. r \in RequestType /\ r.kind = req[h].kind /\ r.booking = req[h].booking
      BY <1>0 DEF Request, RequestType, TypeOK, SessionType
    <3>3. req' = [req EXCEPT ![h] = r]
      BY <3>1
    <3> HIDE DEF r
    <3> QED
      BY <1>6, <2>2, <3>2, <3>3
         DEF Check, TypeOK, RequestOK, tables, BookingKinds, SlotKinds, SessionKinds
  <2> QED
    BY <1>6, <2>1, <2>2 DEF Check
<1>7. CASE InsertBooking(h)
  <2>1. Row("CONFIRMED", req[h].start, req[h].end) \in BookingType
    BY <1>0 DEF Row, BookingType, RequestType
  <2> QED
    BY <1>7, <1>r, <2>1 DEF InsertBooking, TypeOK
<1>8. CASE MoveBooking(h)
  <2>1. Row(bookings[req[h].booking].status, req[h].start, req[h].end) \in BookingType
    BY <1>0, <1>8 DEF Row, BookingType, RequestType, MoveBooking, BookingKinds, SlotKinds
  <2> QED
    BY <1>8, <1>r, <2>1 DEF MoveBooking, Moved, TypeOK
<1> QED
  BY <1>1, <1>2, <1>3, <1>4, <1>5, <1>6, <1>7, <1>8 DEF Continue

\* Every step keeps the types.
LEMMA NextType == TypeInv /\ [Next]_vars => TypeInv'
<1> SUFFICES ASSUME TypeInv, [Next]_vars PROVE TypeInv'
  OBVIOUS
<1>1. ASSUME NEW h \in Handlers, Begin(h) PROVE TypeInv'
  BY <1>1, BeginType
<1>2. ASSUME NEW h \in Handlers, Continue(h) PROVE TypeInv'
  BY <1>2, ContinueType
<1>3. ASSUME NEW b \in BookingIds, NEW status \in {"CANCELLED", "DELETED"}, Withdraw(b, status)
      PROVE  TypeInv'
  <2>1. Row(status, bookings[b].start, bookings[b].end) \in BookingType
    BY DEF TypeInv, TypeOK, Row, BookingType
  <2> QED
    BY <1>3, <2>1 DEF Withdraw, TypeInv, TypeOK, RequestOK
<1>4. CASE UNCHANGED vars
  BY <1>4 DEF vars, tables, TypeInv, TypeOK, RequestOK
<1> QED
  BY <1>1, <1>2, <1>3, <1>4 DEF Next

\* The tables and the values that requests keep across their awaits stay well
\* typed, with any number of concurrent requests: no status outside the four of
\* the code is ever written, by an insert, a move or a withdrawal.
THEOREM SessionsTypeCorrect == Spec => []TypeOK
<1>1. Init => TypeInv
  BY InitType
<1>2. TypeInv /\ [Next]_vars => TypeInv'
  BY NextType
<1>3. TypeInv => TypeOK
  BY DEF TypeInv
<1> QED
  BY <1>1, <1>2, <1>3, PTL DEF Spec

-----------------------------------------------------------------------------
\* What requests know about the session they are about.

\* A create_session holds an id that nothing else refers to and a proper interval,
\* and a create_booking an id that nothing else refers to; a request with a count
\* has the times of its session, and delete_session accepts a count of 0 only.
RequestKnows ==
    \A h \in Handlers :
        /\ req[h].kind = "create_session" =>
              /\ req[h].start < req[h].end /\ req[h].cap \in Caps
              /\ sessions[req[h].session].state = "NONE"
              /\ \A g \in Handlers \ {h} : req[g].session # req[h].session
        /\ req[h].kind \in {"resize", "delete_session"} =>
              /\ sessions[req[h].session].state # "NONE"
              /\ req[h].start = sessions[req[h].session].start
              /\ req[h].end = sessions[req[h].session].end
        /\ req[h].kind = "delete_session" => req[h].cap = 0
        /\ req[h].kind = "book" =>
              /\ bookings[req[h].booking].status = "NONE"
              /\ \A g \in Handlers \ {h} : req[g].booking # req[h].booking

\* "End time must be after start time"
SessionsProper == \A s \in SessionIds : Open(s) => sessions[s].start < sessions[s].end

Inv == TypeInv /\ RequestKnows /\ SessionsProper

\* Nothing is open and nobody is at work initially.
LEMMA InitInv == Init => Inv
BY InitType, NoRequestType DEF Init, Inv, RequestKnows, SessionsProper, Open, Session

\* A step changes what one handler does at most.
LEMMA OtherHandlers ==
    ASSUME TypeInv, NEW h \in Handlers, Begin(h) \/ Continue(h), NEW g \in Handlers, g # h
    PROVE  pc'[g] = pc[g] /\ req'[g] = req[g] /\ seen'[g] = seen[g]
<1>1. CASE Begin(h)
  <2>1. PICK at, r : Accept(h, at, r)
    BY <1>1, BeginAccepts
  <2> QED
    BY <2>1 DEF Accept, TypeInv, TypeOK
<1>2. CASE Continue(h)
  BY <1>2 DEF Continue, Count, InsertSession, UpdateSession, DeleteSession, List, Check,
              InsertBooking, MoveBooking, Return, TypeInv, TypeOK
<1> QED
  BY <1>1, <1>2

\* The request of h after a step of h.
LEMMA OwnRequest ==
    ASSUME TypeInv, NEW h \in Handlers, Continue(h)
    PROVE  \/ req'[h] = NoRequest /\ pc'[h] = "idle"
           \/ req'[h] = req[h] /\ (Count(h) \/ List(h))
           \/ \E t \in At(req[h].start) :
                 /\ Check(h) /\ pc'[h] = "write"
                 /\ req'[h] = Request(req[h].kind, t, req[h].booking, req[h].start,
                                      sessions[t].end, 0)
                 /\ \E s \in At(req[h].start) : Offered(seen[h], s)
<1>1. CASE Check(h)
  BY <1>1 DEF Check, Return, TypeInv, TypeOK
<1>2. CASE Count(h) \/ List(h)
  BY <1>2 DEF Count, List, Return, TypeInv, TypeOK
<1>3. CASE InsertSession(h) \/ UpdateSession(h) \/ DeleteSession(h) \/ InsertBooking(h) \/ MoveBooking(h)
  BY <1>3 DEF InsertSession, UpdateSession, DeleteSession, InsertBooking, MoveBooking, Return,
              TypeInv, TypeOK
<1> QED
  BY <1>1, <1>2, <1>3 DEF Continue

\* What a step does to a session: it inserts it, or it leaves its times alone and
\* does not open it.
LEMMA SessionStep ==
    ASSUME Inv, [Next]_vars, NEW s \in SessionIds
    PROVE  \/ /\ sessions'[s].start = sessions[s].start
              /\ sessions'[s].end = sessions[s].end
              /\ sessions'[s].state = "OPEN" => Open(s)
              /\ sessions'[s].state = "NONE" <=> sessions[s].state = "NONE"
           \/ \E h \in Handlers :
              /\ InsertSession(h) /\ req[h].session = s /\ sessions[s].state = "NONE"
              /\ sessions' = [sessions EXCEPT ![s] = Session("OPEN", req[h].start, req[h].end, req[h].cap)]
              /\ req'[h] = NoRequest
<1> USE DEF Inv, TypeInv, TypeOK
<1>1. ASSUME NEW h \in Handlers, Begin(h)
      PROVE  sessions' = sessions
  BY <1>1, BeginAccepts DEF Accept, tables
<1>2. ASSUME NEW h \in Handlers, InsertSession(h)
      PROVE  \/ req[h].session # s /\ sessions'[s] = sessions[s]
             \/ /\ req[h].session = s /\ sessions[s].state = "NONE"
                /\ sessions' = [sessions EXCEPT ![s] = Session("OPEN", req[h].start, req[h].end, req[h].cap)]
                /\ req'[h] = NoRequest
  BY <1>2 DEF InsertSession, RequestKnows, Return
<1>3. ASSUME NEW h \in Handlers, UpdateSession(h) \/ DeleteSession(h)
      PROVE  /\ sessions'[s].start = sessions[s].start
             /\ sessions'[s].end = sessions[s].end
             /\ sessions'[s].state = "OPEN" => Open(s)
             /\ sessions'[s].state = "NONE" <=> sessions[s].state = "NONE"
  BY <1>3 DEF UpdateSession, DeleteSession, Open, Session
<1>4. ASSUME NEW h \in Handlers, Count(h) \/ List(h) \/ Check(h) \/ InsertBooking(h) \/ MoveBooking(h)
      PROVE  sessions' = sessions
  BY <1>4 DEF Count, List, Check, InsertBooking, MoveBooking, tables
<1>5. ASSUME NEW b \in BookingIds, NEW status \in {"CANCELLED", "DELETED"}, Withdraw(b, status)
      PROVE  sessions' = sessions
  BY <1>5 DEF Withdraw
<1>6. CASE UNCHANGED vars
  BY <1>6 DEF vars, tables, Open
<1> QED
  BY <1>1, <1>2, <1>3, <1>4, <1>5, <1>6 DEF Next, Continue, Open

\* What a handler's request is after a step: gone, the same, a new one, or a
\* booking request that has found its session.
LEMMA RequestStep ==
    ASSUME TypeInv, [Next]_vars, NEW h \in Handlers
    PROVE  \/ req'[h] = NoRequest
           \/ req'[h] = req[h]
           \/ \E at, r : Accept(h, at, r) /\ Begin(h) /\ req'[h] = r
           \/ \E t \in At(req[h].start) :
                 /\ Check(h)
                 /\ req'[h] = Request(req[h].kind, t, req[h].booking, req[h].start,
                                      sessions[t].end, 0)
<1>1. ASSUME NEW g \in Handlers, Begin(g) \/ Continue(g), g # h
      PROVE  req'[h] = req[h]
  BY <1>1, OtherHandlers
<1>2. CASE Begin(h)
  <2>1. PICK at, r : Accept(h, at, r)
    BY <1>2, BeginAccepts
  <2>2. req'[h] = r
    BY <2>1 DEF Accept, TypeInv, TypeOK
  <2> QED
    BY <1>2, <2>1, <2>2
<1>3. CASE Continue(h)
  BY <1>3, OwnRequest
<1>4. CASE \/ \E b \in BookingIds, status \in {"CANCELLED", "DELETED"} : Withdraw(b, status)
           \/ UNCHANGED vars
  BY <1>4 DEF Withdraw, vars
<1> QED
  BY <1>1, <1>2, <1>3, <1>4 DEF Next

\* Only create_booking writes a row under an id that has none.
LEMMA StatusStep ==
    ASSUME TypeInv, [Next]_vars, NEW b \in BookingIds, bookings[b].status = "NONE"
    PROVE  \/ bookings'[b].status = "NONE"
           \/ \E h \in Handlers : /\ InsertBooking(h) /\ req[h].booking = b
                                  /\ req'[h] = NoRequest
<1> USE DEF TypeInv, TypeOK
<1>1. ASSUME NEW h \in Handlers, Begin(h)
      PROVE  bookings' = bookings
  BY <1>1, BeginAccepts DEF Accept, tables
<1>2. ASSUME NEW h \in Handlers, InsertBooking(h)
      PROVE  bookings'[b] = bookings[b] \/ (req[h].booking = b /\ req'[h] = NoRequest)
  BY <1>2 DEF InsertBooking, Return
<1>3. ASSUME NEW h \in Handlers, MoveBooking(h)
      PROVE  bookings'[b] = bookings[b]
  BY <1>3 DEF MoveBooking
<1>4. ASSUME NEW h \in Handlers, \/ Count(h) \/ List(h) \/ Check(h) \/ InsertSession(h)
                                 \/ UpdateSession(h) \/ DeleteSession(h)
      PROVE  bookings' = bookings
  BY <1>4 DEF Count, List, Check, InsertSession, UpdateSession, DeleteSession, tables
<1>5. ASSUME NEW c \in BookingIds, NEW status \in {"CANCELLED", "DELETED"}, Withdraw(c, status)
      PROVE  bookings'[b] = bookings[b]
  BY <1>5 DEF Withdraw
<1>6. CASE UNCHANGED vars
  BY <1>6 DEF vars, tables
<1> QED
  BY <1>1, <1>2, <1>3, <1>4, <1>5, <1>6 DEF Next, Continue

\* Every step keeps what requests know and the order of the sessions' times.
LEMMA NextInv == Inv /\ [Next]_vars => Inv'
<1> SUFFICES ASSUME Inv, [Next]_vars PROVE RequestKnows' /\ SessionsProper'
  BY NextType DEF Inv
<1>0. TypeInv /\ TypeInv'
  BY NextType DEF Inv
<1>1. SessionsProper'
  <2> SUFFICES ASSUME NEW s \in SessionIds, sessions'[s].state = "OPEN"
               PROVE  sessions'[s].start < sessions'[s].end
    BY DEF SessionsProper, Open
  <2>1. CASE /\ sessions'[s].start = sessions[s].start
             /\ sessions'[s].end = sessions[s].end
             /\ Open(s)
    BY <2>1 DEF Inv, SessionsProper
  <2>2. ASSUME NEW h \in Handlers, InsertSession(h),
               sessions' = [sessions EXCEPT ![s] = Session("OPEN", req[h].start, req[h].end, req[h].cap)]
        PROVE  sessions'[s].start < sessions'[s].end
    <3>1. req[h].start < req[h].end
      BY <2>2 DEF InsertSession, Inv, RequestKnows
    <3> QED
      BY <2>2, <3>1, Fields, <1>0 DEF TypeInv, TypeOK
  <2> QED
    BY <2>1, <2>2, SessionStep
<1>2. ASSUME NEW h \in Handlers, req'[h].kind = "create_session"
      PROVE  /\ req'[h].start < req'[h].end /\ req'[h].cap \in Caps
             /\ sessions'[req'[h].session].state = "NONE"
             /\ \A g \in Handlers \ {h} : req'[g].session # req'[h].session
  <2>1. CASE req'[h] = req[h]
    <3> DEFINE s == req[h].session
    <3>1. /\ req[h].kind = "create_session" /\ s \in SessionIds
          /\ req[h].start < req[h].end /\ req[h].cap \in Caps /\ sessions[s].state = "NONE"
          /\ \A g \in Handlers \ {h} : req[g].session # s
      BY <1>0, <1>2, <2>1 DEF Inv, RequestKnows, TypeInv, RequestOK, SessionKinds
    <3>2. sessions'[s].state = "NONE"
      BY <1>2, <2>1, <3>1, SessionStep, NoRequestType
    <3>3. ASSUME NEW g \in Handlers, g # h
          PROVE  req'[g].session # s
      <4>1. CASE req'[g] = NoRequest
        BY <4>1, <3>1, SessionsAssumption DEF NoRequest, Request
      <4>2. CASE req'[g] = req[g]
        BY <3>1, <3>3, <4>2
      <4>3. ASSUME NEW at, NEW r, Accept(g, at, r), Begin(g), req'[g] = r
            PROVE  req'[g].session # s
        <5>1. \/ FreshSession(req'[g].session)
              \/ Open(req'[g].session)
              \/ req'[g].session = None
          <6>1. \A at2, r2 : Accept(g, at2, r2) => req'[g] = r2
            BY <1>0 DEF Accept, TypeInv, TypeOK
          <6> QED
            BY <1>0, <4>3, <6>1, BeginAccepts
        <5> QED
          BY <3>1, <5>1, SessionsAssumption DEF FreshSession, Open
      <4>4. ASSUME NEW t \in At(req[g].start),
                   req'[g] = Request(req[g].kind, t, req[g].booking, req[g].start,
                                     sessions[t].end, 0)
            PROVE  req'[g].session # s
        BY <3>1, <4>4 DEF Request, At, Open
      <4> QED
        BY <1>0, <4>1, <4>2, <4>3, <4>4, RequestStep
    <3> QED
      BY <2>1, <3>1, <3>2, <3>3
  <2>2. CASE Begin(h)
    <3>1. PICK at, r : /\ Accept(h, at, r) /\ r.kind = "create_session" /\ r.session \in SessionIds
                       /\ FreshSession(r.session) /\ r.start < r.end /\ r.cap \in Caps
      <4>1. \A at, r : Accept(h, at, r) => req'[h] = r
        BY <1>0 DEF Accept, TypeInv, TypeOK
      <4> QED
        BY <1>0, <1>2, <2>2, <4>1, BeginAccepts DEF BookingKinds, SlotKinds
    <3>2. req'[h] = r /\ sessions' = sessions /\ \A g \in Handlers \ {h} : req'[g] = req[g]
      BY <3>1, <1>0 DEF Accept, tables, TypeInv, TypeOK
    <3> QED
      BY <3>1, <3>2 DEF FreshSession
  <2>3. CASE req'[h] = NoRequest
    BY <1>2, <2>3, NoRequestType
  <2>4. CASE Check(h) /\ req'[h].kind = req[h].kind
    BY <1>0, <1>2, <2>4 DEF Check, TypeInv, RequestOK, BookingKinds, SlotKinds
  <2> QED
    BY <1>0, <2>1, <2>2, <2>3, <2>4, RequestStep, Fields
<1>3. ASSUME NEW h \in Handlers, req'[h].kind \in {"resize", "delete_session"}
      PROVE  /\ sessions'[req'[h].session].state # "NONE"
             /\ req'[h].start = sessions'[req'[h].session].start
             /\ req'[h].end = sessions'[req'[h].session].end
             /\ req'[h].kind = "delete_session" => req'[h].cap = 0
  <2>1. CASE req'[h] = req[h]
    BY <1>0, <1>3, <2>1, SessionStep DEF Inv, RequestKnows, TypeInv, RequestOK, SessionKinds
  <2>2. CASE Begin(h)
    <3>1. PICK at, r : /\ Accept(h, at, r) /\ r.session \in SessionIds /\ Open(r.session)
                       /\ r.start = sessions[r.session].start /\ r.end = sessions[r.session].end
                       /\ r.kind = "delete_session" => r.cap = 0
      <4>1. \A at, r : Accept(h, at, r) => req'[h] = r
        BY <1>0 DEF Accept, TypeInv, TypeOK
      <4> QED
        BY <1>0, <1>3, <2>2, <4>1, BeginAccepts DEF BookingKinds, SlotKinds
    <3>2. req'[h] = r /\ sessions' = sessions
      BY <3>1, <1>0 DEF Accept, tables, TypeInv, TypeOK
    <3> QED
      BY <3>1, <3>2 DEF Open
  <2>3. CASE req'[h] = NoRequest
    BY <1>3, <2>3, NoRequestType
  <2>4. CASE Check(h) /\ req'[h].kind = req[h].kind
    BY <1>0, <1>3, <2>4 DEF Check, TypeInv, RequestOK, BookingKinds, SlotKinds
  <2> QED
    BY <1>0, <2>1, <2>2, <2>3, <2>4, RequestStep, Fields
<1>4. ASSUME NEW h \in Handlers, req'[h].kind = "book"
      PROVE  /\ bookings'[req'[h].booking].status = "NONE"
             /\ \A g \in Handlers \ {h} : req'[g].booking # req'[h].booking
  <2>1. CASE req'[h].kind = req[h].kind /\ req'[h].booking = req[h].booking
    <3> DEFINE b == req[h].booking
    <3>1. /\ req[h].kind = "book" /\ b \in BookingIds /\ bookings[b].status = "NONE"
          /\ \A g \in Handlers \ {h} : req[g].booking # b
      BY <1>0, <1>4, <2>1 DEF Inv, RequestKnows, TypeInv, RequestOK, BookingKinds, SlotKinds
    <3>2. bookings'[b].status = "NONE"
      <4>1. ASSUME NEW g \in Handlers, req[g].booking = b, req'[g] = NoRequest
            PROVE  FALSE
        BY <1>4, <3>1, <4>1, NoRequestType
      <4> QED
        BY <1>0, <3>1, <4>1, StatusStep
    <3>3. ASSUME NEW g \in Handlers, g # h
          PROVE  req'[g].booking # b
      <4>1. CASE req'[g] = NoRequest
        BY <4>1, <3>1, SessionsAssumption DEF NoRequest, Request
      <4>2. CASE req'[g] = req[g]
        BY <3>1, <3>3, <4>2
      <4>3. ASSUME NEW at, NEW r, Accept(g, at, r), Begin(g), req'[g] = r
            PROVE  req'[g].booking # b
        <5>1. \A at2, r2 : Accept(g, at2, r2) => req'[g] = r2
          BY <1>0 DEF Accept, TypeInv, TypeOK
        <5>2. \/ FreshBooking(req'[g].booking)
              \/ bookings[req'[g].booking].status # "NONE"
              \/ req'[g].booking = None
          BY <1>0, <4>3, <5>1, BeginAccepts
        <5> QED
          BY <3>1, <5>2, SessionsAssumption DEF FreshBooking
      <4>4. ASSUME NEW t,
                   req'[g] = Request(req[g].kind, t, req[g].booking, req[g].start,
                                     sessions[t].end, 0)
            PROVE  req'[g].booking # b
        BY <3>1, <3>3, <4>4, Fields
      <4> QED
        BY <1>0, <4>1, <4>2, <4>3, <4>4, RequestStep
    <3> QED
      BY <2>1, <3>1, <3>2, <3>3
  <2>2. CASE Begin(h)
    <3>1. PICK at, r : Accept(h, at, r) /\ FreshBooking(r.booking)
      <4>1. \A at, r : Accept(h, at, r) => req'[h] = r
        BY <1>0 DEF Accept, TypeInv, TypeOK
      <4> QED
        BY <1>0, <1>4, <2>2, <4>1, BeginAccepts
    <3>2. req'[h] = r /\ bookings' = bookings /\ \A g \in Handlers \ {h} : req'[g] = req[g]
      BY <3>1, <1>0 DEF Accept, tables, TypeInv, TypeOK
    <3> QED
      BY <3>1, <3>2 DEF FreshBooking
  <2>3. CASE req'[h] = NoRequest
    BY <1>4, <2>3, NoRequestType
  <2> QED
    BY <1>0, <2>1, <2>2, <2>3, RequestStep, Fields
<1> QED
  BY <1>1, <1>2, <1>3, <1>4 DEF RequestKnows

-----------------------------------------------------------------------------
\* Sessions do not overlap.

\* At most one create_session at a time.
CreatesOneAtATime ==
    \A g, h \in Handlers :
        req[g].kind = "create_session" /\ req[h].kind = "create_session" => g = h

\* What find_overlap told a create_session is still true when it inserts.
CreatesApart ==
    \A h \in Handlers : req[h].kind = "create_session" =>
        \A s \in SessionIds : Open(s) => ~Overlap(sessions[s], req[h])

\* A create_session in flight was there before the step, or has just looked for
\* overlapping sessions.
LEMMA CreateStep ==
    ASSUME Inv, [Next]_vars, NEW h \in Handlers, req'[h].kind = "create_session"
    PROVE  \/ req'[h] = req[h]
           \/ sessions' = sessions /\ FindOverlap(req'[h].start, req'[h].end) = {}
<1>0. TypeInv
  BY DEF Inv
<1>1. CASE Begin(h)
  <2>1. \A at, r : Accept(h, at, r) => req'[h] = r /\ sessions' = sessions
    BY <1>0 DEF Accept, tables, TypeInv, TypeOK
  <2> QED
    BY <1>0, <1>1, <2>1, BeginAccepts DEF BookingKinds, SlotKinds
<1>2. CASE req'[h] = NoRequest
  BY <1>2, NoRequestType
<1>3. CASE Check(h) /\ req'[h].kind = req[h].kind
  BY <1>0, <1>3 DEF Check, TypeInv, RequestOK, BookingKinds, SlotKinds
<1> QED
  BY <1>0, <1>1, <1>2, <1>3, RequestStep, Fields

\* With one create_session at a time, every step keeps the sessions apart.
LEMMA DisjointStep ==
    ASSUME Inv, SessionsDisjoint, CreatesApart, CreatesOneAtATime, [Next]_vars
    PROVE  SessionsDisjoint' /\ CreatesApart'
<1> DEFINE Kept(s) == /\ sessions'[s].start = sessions[s].start
                      /\ sessions'[s].end = sessions[s].end
                      /\ Open(s)
           Inserted(s) == \E h \in Handlers :
                /\ InsertSession(h) /\ req[h].session = s /\ sessions[s].state = "NONE"
                /\ sessions'[s].start = req[h].start /\ sessions'[s].end = req[h].end
                /\ req'[h] = NoRequest
                /\ \A t \in SessionIds \ {s} : sessions'[t] = sessions[t]
<1>0. TypeInv /\ TypeInv'
  BY NextType DEF Inv
<1>1. \A s \in SessionIds : sessions'[s].state = "OPEN" => Kept(s) \/ Inserted(s)
  <2> TAKE s \in SessionIds
  <2> HAVE sessions'[s].state = "OPEN"
  <2>1. ASSUME NEW h \in Handlers,
               InsertSession(h), req[h].session = s, sessions[s].state = "NONE",
               sessions' = [sessions EXCEPT ![s] = Session("OPEN", req[h].start, req[h].end, req[h].cap)],
               req'[h] = NoRequest
        PROVE  Inserted(s)
    <3>1. sessions'[s].start = req[h].start /\ sessions'[s].end = req[h].end
      BY <2>1, <1>0, Fields DEF TypeInv, TypeOK
    <3>2. \A t \in SessionIds \ {s} : sessions'[t] = sessions[t]
      BY <2>1, <1>0 DEF TypeInv, TypeOK
    <3> QED
      BY <2>1, <3>1, <3>2
  <2> QED
    BY <2>1, SessionStep
<1>2. \A s \in SessionIds : Inserted(s) =>
         \E h \in Handlers : /\ req[h].kind = "create_session" /\ req'[h] = NoRequest
                             /\ sessions'[s].start = req[h].start /\ sessions'[s].end = req[h].end
                             /\ sessions[s].state = "NONE"
                             /\ \A t \in SessionIds \ {s} : sessions'[t] = sessions[t]
  BY DEF InsertSession
<1>t. /\ \A s \in SessionIds : /\ sessions[s].start \in Int /\ sessions[s].end \in Int
                               /\ sessions'[s].start \in Int /\ sessions'[s].end \in Int
      /\ \A h \in Handlers : req[h].start \in Int /\ req[h].end \in Int
  BY <1>0 DEF TypeInv, TypeOK, SessionType, RequestType
<1> HIDE DEF Kept, Inserted
<1>3. SessionsDisjoint'
  <2> SUFFICES ASSUME NEW s \in SessionIds, NEW t \in SessionIds, s # t,
                      sessions'[s].state = "OPEN", sessions'[t].state = "OPEN"
               PROVE  ~Overlap(sessions'[s], sessions'[t])
    BY DEF SessionsDisjoint, Open
  <2>1. CASE Kept(s) /\ Kept(t)
    BY <2>1 DEF Kept, SessionsDisjoint, Overlap
  <2>2. ASSUME NEW x \in SessionIds, NEW y \in SessionIds, x # y, Inserted(x),
               sessions'[y].state = "OPEN"
        PROVE  ~Overlap(sessions'[x], sessions'[y]) /\ ~Overlap(sessions'[y], sessions'[x])
    <3>1. PICK h \in Handlers :
             /\ req[h].kind = "create_session" /\ sessions'[x].start = req[h].start
             /\ sessions'[x].end = req[h].end /\ sessions'[y] = sessions[y]
      BY <1>2, <2>2
    <3>2. Open(y) /\ ~Overlap(sessions[y], req[h])
      BY <2>2, <3>1 DEF CreatesApart, Open
    <3> QED
      BY <1>t, <3>1, <3>2 DEF Overlap
  <2> QED
    BY <1>1, <2>1, <2>2
<1>4. CreatesApart'
  <2> SUFFICES ASSUME NEW h \in Handlers, req'[h].kind = "create_session",
                      NEW s \in SessionIds, sessions'[s].state = "OPEN"
               PROVE  ~Overlap(sessions'[s], req'[h])
    BY DEF CreatesApart, Open
  <2>1. CASE req'[h] = req[h] /\ Kept(s)
    BY <2>1 DEF CreatesApart, Kept, Overlap
  <2>2. CASE req'[h] = req[h] /\ Inserted(s)
    BY <1>2, <2>2, NoRequestType DEF CreatesOneAtATime
  <2>3. CASE sessions' = sessions /\ FindOverlap(req'[h].start, req'[h].end) = {}
    BY <2>3 DEF FindOverlap, Overlap, Open
  <2> QED
    BY <1>1, <2>1, <2>2, <2>3, CreateStep
<1> QED
  BY <1>3, <1>4

\* "Session overlaps with an existing session": if no two create_session requests
\* are in flight at once, no two sessions of the event overlap, whatever else
\* happens meanwhile.
THEOREM SessionsKeptApart == Spec /\ []CreatesOneAtATime => []SessionsDisjoint
<1>1. Init => Inv /\ SessionsDisjoint /\ CreatesApart
  BY InitInv, NoRequestType DEF Init, SessionsDisjoint, CreatesApart, Open, Session
<1>2. /\ Inv /\ SessionsDisjoint /\ CreatesApart /\ CreatesOneAtATime /\ [Next]_vars
      => (Inv /\ SessionsDisjoint /\ CreatesApart)'
  BY NextInv, DisjointStep
<1> QED
  BY <1>1, <1>2, PTL DEF Spec

-----------------------------------------------------------------------------
\* Every live booking lies in a session.

\* How a request gets to its write: it was there, it has just begun, its count
\* allows it, or the slot it asked for is offered.
LEMMA WriteStep ==
    ASSUME TypeInv, [Next]_vars, NEW h \in Handlers, pc'[h] = "write"
    PROVE  \/ pc[h] = "write" /\ req'[h] = req[h]
           \/ /\ req'[h].kind = "create_session" /\ tables' = tables
           \/ /\ req'[h].kind = "edit" /\ tables' = tables /\ Open(req'[h].session)
              /\ req'[h].cap = sessions[req'[h].session].cap
           \/ /\ req'[h].kind = "rewrite" /\ tables' = tables /\ req'[h].booking \in BookingIds
              /\ req'[h].start = bookings[req'[h].booking].start
              /\ req'[h].end = bookings[req'[h].booking].end
           \/ /\ pc[h] = "count" /\ req'[h] = req[h] /\ CountAllows(req[h]) /\ tables' = tables
           \/ /\ tables' = tables /\ pc[h] = "check"
              /\ \E t \in At(req[h].start) :
                    req'[h] = Request(req[h].kind, t, req[h].booking, req[h].start,
                                      sessions[t].end, 0)
              /\ \E s \in At(req[h].start) : Offered(seen[h], s)
<1>1. ASSUME NEW g \in Handlers, Begin(g) \/ Continue(g), g # h
      PROVE  pc[h] = "write" /\ req'[h] = req[h]
  BY <1>1, OtherHandlers
<1>2. CASE Begin(h)
  <2>1. \A at, r : Accept(h, at, r) => req'[h] = r /\ pc'[h] = at /\ tables' = tables
    BY DEF Accept, TypeInv, TypeOK
  <2> QED
    BY <1>2, <2>1, BeginAccepts
<1>3. CASE Check(h)
  BY <1>3 DEF Check, Return, TypeInv, TypeOK
<1>4. CASE Count(h)
  BY <1>4 DEF Count, Return, TypeInv, TypeOK
<1>5. CASE \/ List(h) \/ InsertSession(h) \/ UpdateSession(h) \/ DeleteSession(h) \/ InsertBooking(h)
           \/ MoveBooking(h)
  BY <1>5 DEF List, InsertSession, UpdateSession, DeleteSession, InsertBooking, MoveBooking,
              Return, TypeInv, TypeOK
<1>6. CASE \/ \E b \in BookingIds, status \in {"CANCELLED", "DELETED"} : Withdraw(b, status)
           \/ UNCHANGED vars
  BY <1>6 DEF Withdraw, vars
<1> QED
  BY <1>1, <1>2, <1>3, <1>4, <1>5, <1>6 DEF Next, Continue

\* An open session stays open with its times, unless a delete_session removes it.
LEMMA StaysOpen ==
    ASSUME Inv, [Next]_vars, NEW s \in SessionIds, Open(s)
    PROVE  \/ /\ sessions'[s].state = "OPEN" /\ sessions'[s].start = sessions[s].start
              /\ sessions'[s].end = sessions[s].end
           \/ \E h \in Handlers : DeleteSession(h) /\ req[h].session = s
<1> USE DEF Inv, TypeInv, TypeOK, Open
<1>1. ASSUME NEW h \in Handlers, Begin(h)
      PROVE  sessions' = sessions
  BY <1>1, BeginAccepts DEF Accept, tables
<1>2. ASSUME NEW h \in Handlers, InsertSession(h)
      PROVE  sessions'[s] = sessions[s]
  BY <1>2 DEF InsertSession, RequestKnows
<1>3. ASSUME NEW h \in Handlers, UpdateSession(h)
      PROVE  /\ sessions'[s].state = "OPEN" /\ sessions'[s].start = sessions[s].start
             /\ sessions'[s].end = sessions[s].end
  BY <1>3 DEF UpdateSession, Session
<1>4. ASSUME NEW h \in Handlers, DeleteSession(h), req[h].session # s
      PROVE  sessions'[s] = sessions[s]
  BY <1>4 DEF DeleteSession
<1>5. ASSUME NEW h \in Handlers, Count(h) \/ List(h) \/ Check(h) \/ InsertBooking(h) \/ MoveBooking(h)
      PROVE  sessions' = sessions
  BY <1>5 DEF Count, List, Check, InsertBooking, MoveBooking, tables
<1>6. CASE \/ \E b \in BookingIds, status \in {"CANCELLED", "DELETED"} : Withdraw(b, status)
           \/ UNCHANGED vars
  BY <1>6 DEF Withdraw, vars, tables
<1> QED
  BY <1>1, <1>2, <1>3, <1>4, <1>5, <1>6 DEF Next, Continue

\* A booking that is live after a step was live before, with the same times, or has
\* just been written by a request.
LEMMA BookingStep ==
    ASSUME TypeInv, [Next]_vars, NEW b \in BookingIds, bookings'[b].status = "CONFIRMED"
    PROVE  \/ /\ Live(b) /\ bookings'[b].start = bookings[b].start
              /\ bookings'[b].end = bookings[b].end
           \/ \E h \in Handlers :
              /\ InsertBooking(h) \/ MoveBooking(h)
              /\ pc[h] = "write" /\ req[h].kind \in BookingKinds /\ req[h].booking = b
              /\ req[h].kind # "book" => Live(b)
              /\ bookings'[b].start = req[h].start /\ bookings'[b].end = req[h].end
              /\ \A c \in BookingIds \ {b} : bookings'[c] = bookings[c]
<1> USE DEF TypeInv, TypeOK, Live
<1>1. ASSUME NEW h \in Handlers, Begin(h)
      PROVE  bookings' = bookings
  BY <1>1, BeginAccepts DEF Accept, tables
<1>2. ASSUME NEW h \in Handlers, InsertBooking(h) \/ MoveBooking(h)
      PROVE  \/ bookings'[b] = bookings[b]
             \/ /\ pc[h] = "write" /\ req[h].kind \in BookingKinds /\ req[h].booking = b
                /\ req[h].kind # "book" => Live(b)
                /\ bookings'[b].start = req[h].start /\ bookings'[b].end = req[h].end
                /\ \A c \in BookingIds \ {b} : bookings'[c] = bookings[c]
  BY <1>2 DEF InsertBooking, MoveBooking, Moved, Row, BookingKinds, SlotKinds
<1>3. ASSUME NEW h \in Handlers, \/ Count(h) \/ List(h) \/ Check(h) \/ InsertSession(h)
                                 \/ UpdateSession(h) \/ DeleteSession(h)
      PROVE  bookings' = bookings
  BY <1>3 DEF Count, List, Check, InsertSession, UpdateSession, DeleteSession, tables
<1>4. ASSUME NEW c \in BookingIds, NEW status \in {"CANCELLED", "DELETED"}, Withdraw(c, status)
      PROVE  bookings'[b] = bookings[b]
  BY <1>4 DEF Withdraw, Row
<1>5. CASE UNCHANGED vars
  BY <1>5 DEF vars, tables
<1> QED
  BY <1>1, <1>2, <1>3, <1>4, <1>5 DEF Next, Continue

\* No delete_session is in flight together with a request that writes the times of
\* a booking: create_booking, reschedule_booking, or update_booking with or without
\* a date.
DeletesAlone ==
    \A g, h \in Handlers : req[g].kind = "delete_session" => req[h].kind \notin BookingKinds

\* A request about to write the times of a live booking; update_booking without a date
\* writes back those of a withdrawn one as well.
WritesLive(h) ==
    /\ pc[h] = "write" /\ req[h].kind \in BookingKinds
    /\ req[h].kind = "rewrite" => Live(req[h].booking)

\* The times about to be written to a live booking are those of an open session.
ClaimsInSession ==
    \A h \in Handlers : WritesLive(h) =>
        \E s \in SessionIds : /\ Open(s) /\ sessions[s].start = req[h].start
                              /\ sessions[s].end = req[h].end

\* What count_overlap told a delete_session is still true when it deletes.
DeleteClear ==
    \A h \in Handlers : pc[h] = "write" /\ req[h].kind = "delete_session" =>
        \A b \in BookingIds : Live(b) => ~Overlap(bookings[b], req[h])

\* While nothing writes a booking's times next to a delete_session, every step keeps
\* the live bookings in sessions.
LEMMA InSessionStep ==
    ASSUME Inv, BookingInSession, ClaimsInSession, DeleteClear, DeletesAlone, [Next]_vars
    PROVE  BookingInSession' /\ ClaimsInSession' /\ DeleteClear'
<1>0. TypeInv /\ TypeInv'
  BY NextType DEF Inv
<1>t. /\ \A s \in SessionIds : sessions[s].start \in Int /\ sessions[s].end \in Int
      /\ \A b \in BookingIds : bookings[b].start \in Int /\ bookings[b].end \in Int
      /\ \A h \in Handlers : req[h].start \in Int /\ req[h].end \in Int
  BY <1>0 DEF TypeInv, TypeOK, SessionType, BookingType, RequestType
<1>1. BookingInSession'
  <2> SUFFICES ASSUME NEW b \in BookingIds, bookings'[b].status = "CONFIRMED"
               PROVE  \E s \in SessionIds : /\ sessions'[s].state = "OPEN"
                                            /\ sessions'[s].start = bookings'[b].start
                                            /\ sessions'[s].end = bookings'[b].end
    BY DEF BookingInSession, Live, Open
  <2>1. CASE Live(b) /\ bookings'[b].start = bookings[b].start /\ bookings'[b].end = bookings[b].end
    <3>1. PICK s \in SessionIds : /\ Open(s) /\ sessions[s].start = bookings[b].start
                                  /\ sessions[s].end = bookings[b].end
      BY <2>1 DEF BookingInSession
    <3>2. ASSUME NEW h \in Handlers, DeleteSession(h), req[h].session = s
          PROVE  FALSE
      <4>1. ~Overlap(bookings[b], req[h])
        BY <2>1, <3>2 DEF DeleteClear, DeleteSession
      <4>2. req[h].start = sessions[s].start /\ req[h].end = sessions[s].end
        BY <3>2 DEF DeleteSession, Inv, RequestKnows
      <4>3. sessions[s].start < sessions[s].end
        BY <3>1 DEF Inv, SessionsProper
      <4> QED
        BY <1>t, <3>1, <4>1, <4>2, <4>3 DEF Overlap
    <3> QED
      BY <2>1, <3>1, <3>2, StaysOpen
  <2>2. ASSUME NEW h \in Handlers, pc[h] = "write", req[h].kind \in BookingKinds,
               req[h].booking = b, req[h].kind # "book" => Live(b),
               bookings'[b].start = req[h].start, bookings'[b].end = req[h].end
        PROVE  \E s \in SessionIds : /\ sessions'[s].state = "OPEN"
                                     /\ sessions'[s].start = bookings'[b].start
                                     /\ sessions'[s].end = bookings'[b].end
    <3>1. PICK s \in SessionIds : /\ Open(s) /\ sessions[s].start = req[h].start
                                  /\ sessions[s].end = req[h].end
      BY <2>2 DEF ClaimsInSession, WritesLive
    <3>2. ~\E g \in Handlers : DeleteSession(g) /\ req[g].session = s
      BY <2>2 DEF DeletesAlone, DeleteSession
    <3> QED
      BY <2>2, <3>1, <3>2, StaysOpen
  <2> QED
    BY <1>0, <2>1, <2>2, BookingStep
<1>2. ClaimsInSession'
  <2> SUFFICES ASSUME NEW h \in Handlers, pc'[h] = "write", req'[h].kind \in BookingKinds,
                      req'[h].kind = "rewrite" => bookings'[req'[h].booking].status = "CONFIRMED"
               PROVE  \E s \in SessionIds : /\ sessions'[s].state = "OPEN"
                                            /\ sessions'[s].start = req'[h].start
                                            /\ sessions'[s].end = req'[h].end
    BY DEF ClaimsInSession, WritesLive, Open, Live
  <2>1. CASE pc[h] = "write" /\ req'[h] = req[h]
    <3>0. ASSUME req[h].kind = "rewrite"
          PROVE  Live(req[h].booking)
      <4>1. req[h].booking \in BookingIds
        BY <1>0, <3>0 DEF TypeInv, RequestOK, BookingKinds
      <4>2. ASSUME NEW g \in Handlers, req[g].kind = "book"
            PROVE  req[g].booking # req[h].booking
        BY <3>0, <4>2 DEF Inv, RequestKnows
      <4> QED
        BY <1>0, <2>1, <3>0, <4>1, <4>2, BookingStep
    <3>1. PICK s \in SessionIds : /\ Open(s) /\ sessions[s].start = req[h].start
                                  /\ sessions[s].end = req[h].end
      BY <2>1, <3>0 DEF ClaimsInSession, WritesLive
    <3>2. ~\E g \in Handlers : DeleteSession(g) /\ req[g].session = s
      BY <2>1 DEF DeletesAlone, DeleteSession
    <3> QED
      BY <2>1, <3>1, <3>2, StaysOpen
  <2>2. ASSUME NEW t \in At(req[h].start), tables' = tables,
               req'[h] = Request(req[h].kind, t, req[h].booking, req[h].start, sessions[t].end, 0)
        PROVE  \E s \in SessionIds : /\ sessions'[s].state = "OPEN"
                                     /\ sessions'[s].start = req'[h].start
                                     /\ sessions'[s].end = req'[h].end
    BY <2>2 DEF At, Open, Request, tables
  <2>3. req'[h].kind \notin {"create_session", "edit", "resize", "delete_session"}
    BY DEF BookingKinds, SlotKinds
  <2>5. CASE /\ req'[h].kind = "rewrite" /\ tables' = tables /\ req'[h].booking \in BookingIds
             /\ req'[h].start = bookings[req'[h].booking].start
             /\ req'[h].end = bookings[req'[h].booking].end
    BY <2>5 DEF BookingInSession, Live, Open, tables
  <2>4. ~(pc[h] = "count" /\ req'[h] = req[h])
    BY <1>0, <2>3 DEF TypeInv, RequestOK
  <2> QED
    BY <1>0, <2>1, <2>2, <2>3, <2>4, <2>5, WriteStep
<1>3. DeleteClear'
  <2> SUFFICES ASSUME NEW h \in Handlers, pc'[h] = "write", req'[h].kind = "delete_session",
                      NEW b \in BookingIds, bookings'[b].status = "CONFIRMED"
               PROVE  ~Overlap(bookings'[b], req'[h])
    BY DEF DeleteClear, Live
  <2>1. CASE pc[h] = "write" /\ req'[h] = req[h]
    <3>1. Live(b) /\ bookings'[b].start = bookings[b].start /\ bookings'[b].end = bookings[b].end
      BY <1>0, <2>1, BookingStep DEF DeletesAlone
    <3> QED
      BY <2>1, <3>1 DEF DeleteClear, Overlap
  <2>2. CASE pc[h] = "count" /\ req'[h] = req[h] /\ CountAllows(req[h]) /\ tables' = tables
    <3> DEFINE S == {c \in BookingIds : Live(c) /\ Overlap(bookings[c],
                        [start |-> req[h].start, end |-> req[h].end])}
    <3>1. IsFiniteSet(S) /\ Cardinality(S) \in Nat
      BY SessionsAssumption, FS_Subset, FS_CardinalityType
    <3>2. Cardinality(S) <= 0
      BY <2>2 DEF CountAllows, CountOverlap, Inv, RequestKnows
    <3>3. S = {}
      BY <3>1, <3>2, FS_EmptySet
    <3>4. ~Overlap(bookings[b], [start |-> req[h].start, end |-> req[h].end])
      BY <2>2, <3>3 DEF Live, tables
    <3> QED
      BY <2>2, <3>4 DEF Overlap, tables
  <2>3. ASSUME NEW t, req'[h] = Request(req[h].kind, t, req[h].booking, req[h].start, sessions[t].end, 0),
               pc[h] = "check"
        PROVE  FALSE
    BY <1>0, <2>3, Fields DEF TypeInv, RequestOK, BookingKinds, SlotKinds
  <2> QED
    BY <1>0, <2>1, <2>2, <2>3, WriteStep
<1> QED
  BY <1>1, <1>2, <1>3

\* "Cannot delete session with existing bookings": if no delete_session is in flight
\* together with create_booking, reschedule_booking or update_booking, with or without
\* a date, every live booking lies in a session of the event, with its start and end.
\* Those requests may race with each other, and everything with a cancellation.
THEOREM BookingsKeptInSessions == Spec /\ []DeletesAlone => []BookingInSession
<1> DEFINE I == Inv /\ BookingInSession /\ ClaimsInSession /\ DeleteClear
<1>1. Init => I
  BY InitInv DEF Init, BookingInSession, ClaimsInSession, WritesLive, DeleteClear, Live, Row
<1>2. I /\ DeletesAlone /\ [Next]_vars => I'
  BY NextInv, InSessionStep
<1> QED
  BY <1>1, <1>2, PTL DEF Spec

-----------------------------------------------------------------------------
\* No session holds more bookings than its capacity.

\* Cardinalities of sets that differ by at most one element.
LEMMA OneMore ==
    ASSUME NEW S, IsFiniteSet(S), NEW x, NEW T, T \subseteq S \cup {x}
    PROVE  /\ Cardinality(S) \in Nat /\ Cardinality(T) \in Nat
           /\ Cardinality(T) <= Cardinality(S) + 1
           /\ T \subseteq S => Cardinality(T) <= Cardinality(S)
<1>0. Cardinality(S) \in Nat
  BY FS_CardinalityType
<1>1. IsFiniteSet(S \cup {x}) /\ Cardinality(S \cup {x}) <= Cardinality(S) + 1
  BY <1>0, FS_AddElement
<1>2. IsFiniteSet(T) /\ Cardinality(T) <= Cardinality(S \cup {x})
  BY <1>1, FS_Subset
<1>3. T \subseteq S => Cardinality(T) <= Cardinality(S)
  BY FS_Subset
<1> QED
  BY <1>1, <1>2, <1>3, FS_CardinalityType

\* A set with an injection into a finite set is no larger.
LEMMA NoLarger ==
    ASSUME NEW S, NEW T, IsFiniteSet(T), NEW f \in [S -> T],
           \A x, y \in S : f[x] = f[y] => x = y
    PROVE  Cardinality(S) <= Cardinality(T)
<1>1. f \in Injection(S, T)
  BY DEF Injection, IsInjective
<1> QED
  BY <1>1, FS_Injection

\* The live bookings that overlap an interval, as count_overlap selects them.
Booked(start, end) ==
    {b \in BookingIds : Live(b) /\ Overlap(bookings[b], [start |-> start, end |-> end])}

\* One request at a time; a cancellation or a deletion of a booking is one statement
\* and may still fall between two statements of the request.
OneAtATime == \A g, h \in Handlers : ~Idle(g) /\ ~Idle(h) => g = h

\* list_by_range returned every booking that is live when the slots are calculated.
SeenAll ==
    \A h \in Handlers : pc[h] = "check" =>
        /\ IsFiniteSet(seen[h])
        /\ \A b \in BookingIds : Live(b) =>
              [start |-> bookings[b].start, end |-> bookings[b].end, id |-> b] \in seen[h]

\* A request about to place a booking has a place in the session it found, one about
\* to write a capacity does not go below the bookings of the session, and one that
\* writes times back has the times of the row.
WritesFit ==
    \A h \in Handlers : pc[h] = "write" =>
        /\ req[h].kind \in SlotKinds =>
              \A s \in SessionIds : Open(s) /\ sessions[s].start = req[h].start =>
                  CountOverlap(sessions[s].start, sessions[s].end) < sessions[s].cap
        /\ req[h].kind = "rewrite" =>
              /\ req[h].start = bookings[req[h].booking].start
              /\ req[h].end = bookings[req[h].booking].end
        /\ req[h].kind = "resize" => CountOverlap(req[h].start, req[h].end) <= req[h].cap
        /\ req[h].kind = "edit" =>
              (Open(req[h].session) => req[h].cap = sessions[req[h].session].cap)

FullInv ==
    /\ Inv
    /\ SessionsDisjoint /\ CreatesApart
    /\ BookingInSession /\ ClaimsInSession /\ DeleteClear
    /\ SessionNotOverfull /\ SeenAll /\ WritesFit

\* One request at a time implies the conditions of the two theorems above.
LEMMA OneAtATimeSuffices ==
    ASSUME TypeInv, OneAtATime
    PROVE  CreatesOneAtATime /\ DeletesAlone
BY DEF TypeInv, RequestOK, OneAtATime, CreatesOneAtATime, DeletesAlone, Idle, BookingKinds, SlotKinds

\* The number of bookings in an interval is a number.
LEMMA BookedFinite ==
    ASSUME NEW x, NEW y
    PROVE  /\ IsFiniteSet(Booked(x, y)) /\ CountOverlap(x, y) = Cardinality(Booked(x, y))
           /\ CountOverlap(x, y) \in Nat
BY SessionsAssumption, FS_Subset, FS_CardinalityType DEF Booked, CountOverlap

\* A step that places no booking does not raise the number of bookings anywhere.
LEMMA CountFalls ==
    ASSUME TypeInv, [Next]_vars,
           ~\E h \in Handlers : InsertBooking(h) \/ MoveBooking(h),
           NEW x, NEW y
    PROVE  CountOverlap(x, y)' <= CountOverlap(x, y) /\ CountOverlap(x, y)' \in Nat
<1>1. Booked(x, y)' \subseteq Booked(x, y)
  <2> SUFFICES ASSUME NEW b \in BookingIds, bookings'[b].status = "CONFIRMED",
                      Overlap(bookings'[b], [start |-> x, end |-> y])
               PROVE  b \in Booked(x, y)
    BY DEF Booked, Live
  <2>1. Live(b) /\ bookings'[b].start = bookings[b].start /\ bookings'[b].end = bookings[b].end
    BY BookingStep
  <2> QED
    BY <2>1 DEF Booked, Overlap
<1>2. PICK S, T : S = Booked(x, y) /\ T = Booked(x, y)'
  OBVIOUS
<1>3. IsFiniteSet(S) /\ T \subseteq S
  BY <1>1, <1>2, BookedFinite
<1>4. Cardinality(T) <= Cardinality(S) /\ Cardinality(T) \in Nat
  BY <1>3, FS_Subset, FS_CardinalityType
<1> QED
  BY <1>2, <1>4 DEF CountOverlap, Booked

\* What a step does to the capacity of a session.
LEMMA CapStep ==
    ASSUME Inv, [Next]_vars, NEW s \in SessionIds, Open(s)
    PROVE  \/ sessions'[s].cap = sessions[s].cap
           \/ \E h \in Handlers :
              /\ pc[h] = "write" /\ req[h].kind \in {"resize", "edit"} /\ req[h].session = s
              /\ sessions'[s].cap = req[h].cap
              /\ UpdateSession(h)
<1> USE DEF Inv, TypeInv, TypeOK, Open
<1>1. ASSUME NEW h \in Handlers, Begin(h)
      PROVE  sessions' = sessions
  BY <1>1, BeginAccepts DEF Accept, tables
<1>2. ASSUME NEW h \in Handlers, InsertSession(h)
      PROVE  sessions'[s] = sessions[s]
  BY <1>2 DEF InsertSession, RequestKnows
<1>3. ASSUME NEW h \in Handlers, UpdateSession(h)
      PROVE  \/ sessions'[s] = sessions[s]
             \/ /\ pc[h] = "write" /\ req[h].kind \in {"resize", "edit"} /\ req[h].session = s
                /\ sessions'[s].cap = req[h].cap
  BY <1>3 DEF UpdateSession, Session
<1>4. ASSUME NEW h \in Handlers, DeleteSession(h)
      PROVE  sessions'[s].cap = sessions[s].cap
  BY <1>4 DEF DeleteSession, Session
<1>5. ASSUME NEW h \in Handlers, Count(h) \/ List(h) \/ Check(h) \/ InsertBooking(h) \/ MoveBooking(h)
      PROVE  sessions' = sessions
  BY <1>5 DEF Count, List, Check, InsertBooking, MoveBooking, tables
<1>6. CASE \/ \E b \in BookingIds, status \in {"CANCELLED", "DELETED"} : Withdraw(b, status)
           \/ UNCHANGED vars
  BY <1>6 DEF Withdraw, vars, tables
<1> QED
  BY <1>1, <1>2, <1>3, <1>4, <1>5, <1>6 DEF Next, Continue

\* Only the requests that write a booking change the times of one.
LEMMA TimesKept ==
    ASSUME TypeInv, [Next]_vars,
           ~\E h \in Handlers : InsertBooking(h) \/ MoveBooking(h),
           NEW b \in BookingIds
    PROVE  bookings'[b].start = bookings[b].start /\ bookings'[b].end = bookings[b].end
<1> USE DEF TypeInv, TypeOK
<1>1. ASSUME NEW h \in Handlers, Begin(h)
      PROVE  bookings' = bookings
  BY <1>1, BeginAccepts DEF Accept, tables
<1>2. ASSUME NEW h \in Handlers, \/ Count(h) \/ List(h) \/ Check(h) \/ InsertSession(h)
                                 \/ UpdateSession(h) \/ DeleteSession(h)
      PROVE  bookings' = bookings
  BY <1>2 DEF Count, List, Check, InsertSession, UpdateSession, DeleteSession, tables
<1>3. ASSUME NEW c \in BookingIds, NEW status \in {"CANCELLED", "DELETED"}, Withdraw(c, status)
      PROVE  bookings'[b].start = bookings[b].start /\ bookings'[b].end = bookings[b].end
  BY <1>3 DEF Withdraw, Row
<1>4. CASE UNCHANGED vars
  BY <1>4 DEF vars, tables
<1> QED
  BY <1>1, <1>2, <1>3, <1>4 DEF Next, Continue

\* A request that writes its booking leaves no session overfull and no request
\* in flight.
LEMMA PlaceStep ==
    ASSUME FullInv, OneAtATime, NEW h \in Handlers, InsertBooking(h) \/ MoveBooking(h)
    PROVE  SessionNotOverfull' /\ \A g \in Handlers : pc'[g] = "idle"
<1> DEFINE b == req[h].booking
<1>0. /\ TypeInv /\ pc[h] = "write" /\ req[h].kind \in BookingKinds /\ b \in BookingIds
      /\ sessions' = sessions
  BY DEF InsertBooking, MoveBooking, FullInv, Inv, TypeInv, RequestOK, BookingKinds, SlotKinds
<1>1. \A g \in Handlers : pc'[g] = "idle"
  BY <1>0 DEF InsertBooking, MoveBooking, Return, OneAtATime, Idle, TypeInv, TypeOK
<1>2. /\ \A c \in BookingIds \ {b} : bookings'[c] = bookings[c]
      /\ \/ bookings'[b] = bookings[b]
         \/ bookings'[b].start = req[h].start /\ bookings'[b].end = req[h].end
  BY <1>0, Fields DEF InsertBooking, MoveBooking, Moved, TypeInv, TypeOK
<1>t. /\ \A s \in SessionIds : /\ sessions[s].start \in Int /\ sessions[s].end \in Int
                               /\ sessions[s].cap \in Int
      /\ req[h].start \in Int /\ req[h].end \in Int
  BY <1>0 DEF TypeInv, TypeOK, SessionType, RequestType
<1>4. ASSUME NEW s \in SessionIds, Open(s)
      PROVE  CountOverlap(sessions[s].start, sessions[s].end)' <= sessions[s].cap
  <2> DEFINE x == sessions[s].start
             y == sessions[s].end
  <2>1. Booked(x, y)' \subseteq Booked(x, y) \cup {b}
    BY <1>0, <1>2 DEF Booked, Live
  <2>2. PICK S, T : S = Booked(x, y) /\ T = Booked(x, y)'
    OBVIOUS
  <2>3. /\ CountOverlap(x, y) = Cardinality(S) /\ CountOverlap(x, y)' = Cardinality(T)
        /\ IsFiniteSet(S)
    BY <1>0, <2>2, BookedFinite DEF CountOverlap, Booked
  <2>4. /\ Cardinality(S) \in Nat /\ Cardinality(T) \in Nat
        /\ Cardinality(T) <= Cardinality(S) + 1
        /\ T \subseteq S => Cardinality(T) <= Cardinality(S)
    BY <2>1, <2>2, <2>3, OneMore
  <2>5. CountOverlap(x, y) <= sessions[s].cap
    BY <1>4 DEF FullInv, SessionNotOverfull
  <2>6. CASE req[h].kind \in SlotKinds
    <3>1. PICK t \in SessionIds : /\ Open(t) /\ sessions[t].start = req[h].start
                                  /\ sessions[t].end = req[h].end
      BY <1>0, <2>6 DEF FullInv, ClaimsInSession, WritesLive, SlotKinds
    <3>2. CASE s = t
      <4>1. CountOverlap(x, y) < sessions[s].cap
        BY <1>0, <2>6, <3>1, <3>2 DEF FullInv, WritesFit
      <4> QED
        BY <1>t, <2>3, <2>4, <4>1
    <3>3. CASE s # t
      <4>1. ~Overlap(sessions[t], sessions[s])
        BY <1>4, <3>1, <3>3 DEF FullInv, SessionsDisjoint
      <4>2. Booked(x, y)' \subseteq Booked(x, y)
        BY <1>0, <1>2, <3>1, <4>1 DEF Booked, Live, Overlap
      <4> QED
        BY <1>t, <2>2, <2>3, <2>4, <2>5, <4>2
    <3> QED
      BY <3>2, <3>3
  <2>7. CASE req[h].kind = "rewrite"
    <3>1. req[h].start = bookings[b].start /\ req[h].end = bookings[b].end
      BY <1>0, <2>7 DEF FullInv, WritesFit
    <3>2. bookings'[b].status = bookings[b].status
      BY <1>0, <2>7, Fields DEF InsertBooking, MoveBooking, Moved, TypeInv, TypeOK
    <3>3. Booked(x, y)' \subseteq Booked(x, y)
      BY <1>0, <1>2, <3>1, <3>2 DEF Booked, Live, Overlap
    <3> QED
      BY <1>t, <2>2, <2>3, <2>4, <2>5, <3>3
  <2> QED
    BY <1>0, <2>6, <2>7 DEF BookingKinds
<1> QED
  BY <1>0, <1>1, <1>4 DEF SessionNotOverfull, Open

\* The other steps: bookings only disappear, and whoever is about to write keeps
\* what it has checked.
LEMMA QuietStep ==
    ASSUME FullInv, OneAtATime, Caps \subseteq Nat, [Next]_vars,
           ~\E h \in Handlers : InsertBooking(h) \/ MoveBooking(h)
    PROVE  SessionNotOverfull' /\ SeenAll' /\ WritesFit'
<1>0. Inv /\ TypeInv /\ TypeInv'
  BY NextType DEF FullInv, Inv
<1>t. /\ \A s \in SessionIds : /\ sessions[s].start \in Int /\ sessions[s].end \in Int
                               /\ sessions[s].cap \in Int /\ sessions'[s].cap \in Int
      /\ \A h \in Handlers : req[h].start \in Int /\ req[h].end \in Int /\ req[h].cap \in Int
      /\ \A b \in BookingIds : bookings[b].start \in Int /\ bookings[b].end \in Int
  BY <1>0 DEF TypeInv, TypeOK, SessionType, BookingType, RequestType
<1>c. \A x, y : /\ CountOverlap(x, y)' <= CountOverlap(x, y) /\ CountOverlap(x, y)' \in Nat
                /\ CountOverlap(x, y) \in Nat
  BY <1>0, CountFalls, BookedFinite
<1>b. \A b \in BookingIds : bookings'[b].status = "CONFIRMED" =>
          /\ Live(b) /\ bookings'[b].start = bookings[b].start
          /\ bookings'[b].end = bookings[b].end
  BY <1>0, BookingStep
<1>1. SessionNotOverfull'
  <2> SUFFICES ASSUME NEW s \in SessionIds, sessions'[s].state = "OPEN"
               PROVE  CountOverlap(sessions[s].start, sessions[s].end)' <= sessions'[s].cap
    BY DEF SessionNotOverfull, Open
  <2>1. PICK x, y, n : x = sessions'[s].start /\ y = sessions'[s].end /\ n = CountOverlap(x, y)'
    OBVIOUS
  <2>2. /\ n = CountOverlap(sessions[s].start, sessions[s].end)'
        /\ n <= CountOverlap(x, y) /\ n \in Nat
    BY <1>c, <2>1 DEF CountOverlap
  <2>3. CASE Open(s) /\ x = sessions[s].start /\ y = sessions[s].end
    <3>1. CountOverlap(x, y) <= sessions[s].cap
      BY <2>3 DEF FullInv, SessionNotOverfull
    <3>2. ASSUME NEW h \in Handlers, pc[h] = "write", req[h].kind \in {"resize", "edit"},
                 req[h].session = s, sessions'[s].cap = req[h].cap
          PROVE  CountOverlap(x, y) <= sessions'[s].cap
      <4>1. CASE req[h].kind = "edit"
        BY <3>1, <3>2, <4>1, <2>3 DEF FullInv, WritesFit
      <4>2. CASE req[h].kind = "resize"
        <5>1. req[h].start = x /\ req[h].end = y
          BY <2>3, <3>2, <4>2 DEF FullInv, Inv, RequestKnows
        <5> QED
          BY <3>2, <4>2, <5>1 DEF FullInv, WritesFit
      <4> QED
        BY <3>2, <4>1, <4>2
    <3>3. CountOverlap(x, y) <= sessions'[s].cap
      BY <1>0, <2>3, <3>1, <3>2, CapStep
    <3> QED
      BY <1>c, <1>t, <2>2, <3>3
  <2>4. ASSUME NEW h \in Handlers, InsertSession(h), sessions[s].state = "NONE",
               sessions' = [sessions EXCEPT ![s] = Session("OPEN", req[h].start, req[h].end, req[h].cap)]
        PROVE  n <= sessions'[s].cap
    <3>1. /\ x = req[h].start /\ y = req[h].end /\ sessions'[s].cap = req[h].cap
          /\ req[h].kind = "create_session" /\ req[h].cap \in Nat
      <4>1. sessions'[s] = Session("OPEN", req[h].start, req[h].end, req[h].cap)
        BY <1>0, <2>4 DEF TypeInv, TypeOK
      <4>2. req[h].kind = "create_session"
        BY <2>4 DEF InsertSession
      <4>3. req[h].cap \in Nat
        BY <1>0, <4>2 DEF Inv, RequestKnows
      <4> QED
        BY <2>1, <4>1, <4>2, <4>3, Fields
    <3>2. Booked(x, y) = {}
      <4> SUFFICES ASSUME NEW b \in BookingIds, Live(b),
                          Overlap(bookings[b], [start |-> x, end |-> y])
                   PROVE  FALSE
        BY DEF Booked
      <4>1. PICK t \in SessionIds : /\ Open(t) /\ sessions[t].start = bookings[b].start
                                    /\ sessions[t].end = bookings[b].end
        BY DEF FullInv, BookingInSession
      <4>2. ~Overlap(sessions[t], req[h])
        BY <3>1, <4>1 DEF FullInv, CreatesApart
      <4> QED
        BY <3>1, <4>1, <4>2 DEF Overlap
    <3>3. CountOverlap(x, y) = 0
      BY <3>2, BookedFinite, FS_EmptySet
    <3> QED
      BY <2>2, <3>1, <3>3
  <2>5. \/ Open(s) /\ x = sessions[s].start /\ y = sessions[s].end
        \/ \E h \in Handlers : /\ InsertSession(h) /\ sessions[s].state = "NONE"
                               /\ sessions' = [sessions EXCEPT ![s] =
                                       Session("OPEN", req[h].start, req[h].end, req[h].cap)]
    BY <1>0, <2>1, SessionStep
  <2> QED
    BY <2>2, <2>3, <2>4, <2>5
<1>2. SeenAll'
  <2> SUFFICES ASSUME NEW h \in Handlers, pc'[h] = "check"
               PROVE  /\ IsFiniteSet(seen'[h])
                      /\ \A b \in BookingIds : bookings'[b].status = "CONFIRMED" =>
                            [start |-> bookings'[b].start, end |-> bookings'[b].end, id |-> b]
                                \in seen'[h]
    BY DEF SeenAll, Live
  <2>1. CASE pc[h] = "check" /\ seen'[h] = seen[h]
    BY <1>b, <2>1 DEF FullInv, SeenAll
  <2>2. CASE List(h)
    <3> DEFINE L == {c \in BookingIds : Live(c)}
               row(b) == [start |-> bookings[b].start, end |-> bookings[b].end, id |-> b]
    <3>1. seen'[h] = {row(b) : b \in L} /\ bookings' = bookings
      BY <1>0, <2>2 DEF List, TypeInv, TypeOK, tables
    <3>2. IsFiniteSet(L)
      BY SessionsAssumption, FS_Subset
    <3>3. IsFiniteSet({row(b) : b \in L})
      <4> DEFINE f == [b \in L |-> row(b)]
      <4>1. f \in Surjection(L, {row(b) : b \in L})
        BY DEF Surjection
      <4> HIDE DEF f
      <4> QED
        BY <3>2, <4>1, FS_Surjection
    <3> QED
      BY <3>1, <3>3 DEF Live
  <2>3. (pc[h] = "check" /\ seen'[h] = seen[h]) \/ List(h)
    <3>1. ASSUME NEW g \in Handlers, Begin(g) \/ Continue(g), g # h
          PROVE  pc[h] = "check" /\ seen'[h] = seen[h]
      BY <1>0, <3>1, OtherHandlers
    <3>2. CASE Begin(h)
      <4>1. \A at, r : Accept(h, at, r) => pc'[h] = at
        BY <1>0 DEF Accept, TypeInv, TypeOK
      <4> QED
        BY <1>0, <3>2, <4>1, BeginAccepts
    <3>3. CASE Continue(h) /\ ~List(h)
      BY <1>0, <3>3 DEF Continue, Count, InsertSession, UpdateSession, DeleteSession, Check,
                  InsertBooking, MoveBooking, Return, TypeInv, TypeOK
    <3>4. CASE \/ \E b \in BookingIds, status \in {"CANCELLED", "DELETED"} : Withdraw(b, status)
               \/ UNCHANGED vars
      BY <3>4 DEF Withdraw, vars
    <3> QED
      BY <3>1, <3>2, <3>3, <3>4 DEF Next
  <2> QED
    BY <2>1, <2>2, <2>3
<1>3. WritesFit'
  <2> SUFFICES ASSUME NEW h \in Handlers, pc'[h] = "write"
               PROVE  /\ req'[h].kind \in SlotKinds =>
                            \A s \in SessionIds :
                                sessions'[s].state = "OPEN" /\ sessions'[s].start = req'[h].start =>
                                    CountOverlap(sessions[s].start, sessions[s].end)' < sessions'[s].cap
                      /\ req'[h].kind = "rewrite" =>
                            /\ req'[h].start = bookings'[req'[h].booking].start
                            /\ req'[h].end = bookings'[req'[h].booking].end
                      /\ req'[h].kind = "resize" =>
                            CountOverlap(req[h].start, req[h].end)' <= req'[h].cap
                      /\ req'[h].kind = "edit" =>
                            (sessions'[req'[h].session].state = "OPEN" =>
                                req'[h].cap = sessions'[req'[h].session].cap)
    BY DEF WritesFit, Open
  <2>c. ASSUME sessions' = sessions,
               req'[h].kind \in SlotKinds =>
                   \A s \in SessionIds : Open(s) /\ sessions[s].start = req'[h].start =>
                       CountOverlap(sessions[s].start, sessions[s].end) < sessions[s].cap
        PROVE  req'[h].kind \in SlotKinds =>
                   \A s \in SessionIds :
                       sessions'[s].state = "OPEN" /\ sessions'[s].start = req'[h].start =>
                           CountOverlap(sessions[s].start, sessions[s].end)' < sessions'[s].cap
    <3> SUFFICES ASSUME req'[h].kind \in SlotKinds, NEW s \in SessionIds,
                        sessions'[s].state = "OPEN", sessions'[s].start = req'[h].start
                 PROVE  CountOverlap(sessions[s].start, sessions[s].end)' < sessions'[s].cap
      OBVIOUS
    <3>1. PICK x, y : x = sessions[s].start /\ y = sessions[s].end
      OBVIOUS
    <3>2. CountOverlap(x, y) < sessions[s].cap
      BY <2>c, <3>1 DEF Open
    <3>3. CountOverlap(x, y)' < sessions[s].cap
      BY <1>c, <1>t, <3>2
    <3> QED
      BY <2>c, <3>1, <3>3 DEF CountOverlap
  <2>d. ASSUME req'[h] = req[h], CountOverlap(req[h].start, req[h].end) <= req[h].cap
        PROVE  CountOverlap(req[h].start, req[h].end)' <= req'[h].cap
    <3>1. PICK x, y : x = req[h].start /\ y = req[h].end
      OBVIOUS
    <3>2. CountOverlap(x, y)' <= req[h].cap
      BY <1>c, <1>t, <2>d, <3>1
    <3> QED
      BY <2>d, <3>1, <3>2 DEF CountOverlap
  <2>1. CASE pc[h] = "write" /\ req'[h] = req[h]
    <3>1. sessions' = sessions
      <4>1. ASSUME NEW g \in Handlers, Begin(g) PROVE sessions' = sessions
        BY <1>0, <4>1, BeginAccepts DEF Accept, tables
      <4>2. ASSUME NEW g \in Handlers, Continue(g) PROVE FALSE
        <5>1. pc[g] # "idle"
          BY <4>2 DEF Continue, Count, InsertSession, UpdateSession, DeleteSession, List, Check,
                      InsertBooking, MoveBooking
        <5>2. g = h
          BY <2>1, <5>1 DEF OneAtATime, Idle
        <5> QED
          BY <1>0, <2>1, <4>2, <5>2
             DEF Continue, Count, InsertSession, UpdateSession, DeleteSession, List, Check,
                 InsertBooking, MoveBooking, Return, TypeInv, TypeOK
      <4>3. CASE \/ \E b \in BookingIds, status \in {"CANCELLED", "DELETED"} : Withdraw(b, status)
                 \/ UNCHANGED vars
        BY <4>3 DEF Withdraw, vars, tables
      <4> QED
        BY <4>1, <4>2, <4>3 DEF Next
    <3>2. /\ req[h].kind \in SlotKinds =>
                \A s \in SessionIds : Open(s) /\ sessions[s].start = req[h].start =>
                    CountOverlap(sessions[s].start, sessions[s].end) < sessions[s].cap
          /\ req[h].kind = "rewrite" => /\ req[h].start = bookings[req[h].booking].start
                                        /\ req[h].end = bookings[req[h].booking].end
                                        /\ req[h].booking \in BookingIds
          /\ req[h].kind = "resize" => CountOverlap(req[h].start, req[h].end) <= req[h].cap
          /\ req[h].kind = "edit" => (Open(req[h].session) => req[h].cap = sessions[req[h].session].cap)
      BY <1>0, <2>1 DEF FullInv, WritesFit, TypeInv, RequestOK, BookingKinds
    <3>3. req[h].kind = "rewrite" => /\ req[h].start = bookings'[req[h].booking].start
                                     /\ req[h].end = bookings'[req[h].booking].end
      BY <1>0, <3>2, TimesKept
    <3> QED
      BY <2>1, <2>c, <2>d, <3>1, <3>2, <3>3 DEF Open
  <2>2. CASE req'[h].kind = "create_session"
    BY <2>2 DEF SlotKinds
  <2>3. CASE req'[h].kind = "edit" /\ tables' = tables /\ req'[h].cap = sessions[req'[h].session].cap
    BY <2>3 DEF SlotKinds, tables
  <2>4. CASE pc[h] = "count" /\ req'[h] = req[h] /\ CountAllows(req[h])
    <3>1. req[h].kind \in {"resize", "delete_session"}
      BY <1>0, <2>4 DEF TypeInv, RequestOK
    <3> QED
      BY <2>4, <2>d, <3>1 DEF SlotKinds, CountAllows
  <2>5. ASSUME tables' = tables, pc[h] = "check",
               NEW t \in At(req[h].start), NEW u \in At(req[h].start), Offered(seen[h], u),
               req'[h] = Request(req[h].kind, t, req[h].booking, req[h].start, sessions[t].end, 0)
        PROVE  req'[h].kind \in SlotKinds /\ sessions' = sessions /\
               \A s \in SessionIds : Open(s) /\ sessions[s].start = req'[h].start =>
                   CountOverlap(sessions[s].start, sessions[s].end) < sessions[s].cap
    <3>1. req'[h].kind \in SlotKinds /\ sessions' = sessions /\ req'[h].start = req[h].start
      BY <1>0, <2>5, Fields DEF TypeInv, RequestOK, tables
    <3> SUFFICES ASSUME NEW s \in SessionIds, Open(s), sessions[s].start = req[h].start
                 PROVE  CountOverlap(sessions[s].start, sessions[s].end) < sessions[s].cap
      BY <3>1
    <3>2. s = u
      BY <2>5, <1>t DEF At, FullInv, SessionsDisjoint, Overlap, Inv, SessionsProper
    <3> DEFINE S == Booked(sessions[s].start, sessions[s].end)
               T == {b \in seen[h] : Overlap(b, sessions[s])}
               f == [b \in S |-> [start |-> bookings[b].start, end |-> bookings[b].end, id |-> b]]
    <3>3. IsFiniteSet(T)
      BY <2>5, FS_Subset DEF FullInv, SeenAll
    <3>4. f \in [S -> T]
      BY <2>5 DEF Booked, Overlap, FullInv, SeenAll
    <3>5. \A x, y \in S : f[x] = f[y] => x = y
      OBVIOUS
    <3>6. Cardinality(T) < sessions[s].cap
      BY <2>5, <3>2 DEF Offered
    <3>7. CountOverlap(sessions[s].start, sessions[s].end) = Cardinality(S) /\ Cardinality(S) \in Nat
      BY BookedFinite
    <3>8. Cardinality(T) \in Nat
      BY <3>3, FS_CardinalityType
    <3> HIDE DEF S, T, f
    <3>9. Cardinality(S) <= Cardinality(T)
      BY <3>3, <3>4, <3>5, NoLarger
    <3> QED
      BY <1>t, <3>6, <3>7, <3>8, <3>9
  <2>6. ASSUME req'[h].kind \in SlotKinds
        PROVE  req'[h].kind # "resize" /\ req'[h].kind # "edit" /\ req'[h].kind # "rewrite"
    BY <2>6 DEF SlotKinds
  <2>7. CASE /\ req'[h].kind = "rewrite" /\ tables' = tables
             /\ req'[h].start = bookings[req'[h].booking].start
             /\ req'[h].end = bookings[req'[h].booking].end
    BY <2>7 DEF SlotKinds, tables
  <2> QED
    BY <1>0, <2>c, <2>1, <2>2, <2>3, <2>4, <2>5, <2>6, <2>7, WriteStep
<1> QED
  BY <1>1, <1>2, <1>3

\* "Cannot reduce capacity ... bookings already exist": if requests run one at a time
\* and every max_participants asked for is at least 0 (the handlers do not check it),
\* no session ever holds more live bookings than its capacity, whether bookings are
\* made or moved, sessions are created or deleted or capacities change.
THEOREM SessionsNeverOverfull ==
    ASSUME Caps \subseteq Nat
    PROVE  Spec /\ []OneAtATime => []SessionNotOverfull
<1>1. Init => FullInv
  <2> SUFFICES ASSUME Init PROVE FullInv
    OBVIOUS
  <2>1. /\ \A s \in SessionIds : ~Open(s)
        /\ \A b \in BookingIds : ~Live(b)
        /\ \A h \in Handlers : pc[h] = "idle" /\ req[h].kind = "none"
    BY NoRequestType, Fields DEF Init, Open, Live
  <2> QED
    BY <2>1, InitInv
       DEF FullInv, SessionsDisjoint, CreatesApart, BookingInSession, ClaimsInSession, WritesLive,
           DeleteClear, SessionNotOverfull, SeenAll, WritesFit
<1>2. FullInv /\ OneAtATime /\ [Next]_vars => FullInv'
  <2> SUFFICES ASSUME FullInv, OneAtATime, [Next]_vars PROVE FullInv'
    OBVIOUS
  <2>1. /\ Inv' /\ SessionsDisjoint' /\ CreatesApart'
        /\ BookingInSession' /\ ClaimsInSession' /\ DeleteClear'
    BY NextInv, OneAtATimeSuffices, DisjointStep, InSessionStep DEF FullInv, Inv
  <2>2. SessionNotOverfull' /\ SeenAll' /\ WritesFit'
    <3>1. CASE \E h \in Handlers : InsertBooking(h) \/ MoveBooking(h)
      BY <3>1, PlaceStep DEF SeenAll, WritesFit
    <3>2. CASE ~\E h \in Handlers : InsertBooking(h) \/ MoveBooking(h)
      BY <3>2, QuietStep
    <3> QED
      BY <3>1, <3>2
  <2> QED
    BY <2>1, <2>2 DEF FullInv
<1>3. FullInv => SessionNotOverfull
  BY DEF FullInv
<1> QED
  BY <1>1, <1>2, <1>3, PTL DEF Spec
=============================================================================
