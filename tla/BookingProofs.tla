---------------------------- MODULE BookingProofs ----------------------------
(***************************************************************************)
(* Theorems about Booking, for any number of handlers, bookings, invitees  *)
(* and rules and any configuration of the event.                           *)
(***************************************************************************)
EXTENDS Booking, FiniteSetTheorems, TLAPS

-----------------------------------------------------------------------------
\* Facts about the operators the module is built from.

\* The request record of an idle handler is a request record.
LEMMA NoRequestType ==
    /\ NoRequest \in RequestType
    /\ NoRequest.id = None /\ NoRequest.kind = "none" /\ NoRequest.config \in EventConfigs
BY BookingAssumption DEF NoRequest, Request, RequestType

\* SetToSeq orders a finite set of rules into a sequence of rules.
LEMMA SetToSeqType ==
    ASSUME NEW S \in SUBSET Rules
    PROVE  SetToSeq(S) \in Seq(S)
<1>1. IsFiniteSet(S)
  BY BookingAssumption, FS_Subset
<1>2. /\ Cardinality(S) \in Nat
      /\ \E f \in Bijection(1..Cardinality(S), S) : TRUE
  BY <1>1, FS_CardinalityType, Zenon DEF ExistsBijection
<1>3. PICK f \in Bijection(1..Cardinality(S), S) : TRUE
  BY <1>2
<1>4. f \in [1..Cardinality(S) -> S] /\ IsInjective(f)
  BY <1>3 DEF Bijection, Injection, Surjection, IsInjective
<1>5. SetToSeq(S) \in [1..Cardinality(S) -> S]
  BY <1>4 DEF SetToSeq
<1> QED
  BY <1>5, <1>2

\* The jobs of a new booking are job rows, all PENDING.
LEMMA CreatedJobsType ==
    ASSUME NEW b \in BookingIds, NEW start \in Int, NEW rs \in SUBSET Rules, now \in Int
    PROVE  CreatedJobs(b, start, rs) \in Seq(JobType)
<1> DEFINE order == SetToSeq(rs)
<1>1. order \in Seq(Rules) /\ Len(order) \in Nat /\ DOMAIN order = 1..Len(order)
  BY SetToSeqType
<1>2. \A r \in Rules : CreatedJob(b, start, r) \in JobType
  BY BookingAssumption DEF CreatedJob, Job, JobType, JobTypes, JobStatus
<1>3. \A i \in 1..Len(order) : order[i] \in Rules
  BY <1>1
<1>4. CreatedJobs(b, start, rs) = [i \in 1..Len(order) |-> CreatedJob(b, start, order[i])]
  BY <1>1 DEF CreatedJobs
<1> QED
  BY <1>1, <1>2, <1>3, <1>4

-----------------------------------------------------------------------------
\* Type correctness.

\* A handler at work has a request about a booking, of a kind that gets there.
RequestOK ==
    \A h \in Handlers : pc[h] # "idle" =>
        /\ req[h].id \in BookingIds
        /\ req[h].kind # "none"
        /\ pc[h] = "remind" => \A r \in todo[h] : IsReminder(r)

TypeInv == TypeOK /\ RequestOK

\* The initial state is well typed.
LEMMA InitType == Init => TypeInv
BY NoRequestType, BookingAssumption
   DEF Init, TypeInv, TypeOK, RequestOK, Row, BookingType, BookingStatus, InviteeStatus, Pcs

\* A free handler may accept any request about a booking.
LEMMA AcceptType ==
    ASSUME TypeInv, NEW h \in Handlers, NEW at \in Pcs \ {"remind"}, NEW r \in RequestType,
           r.id \in BookingIds, r.kind # "none", Accept(h, at, r)
    PROVE  TypeInv'
BY DEF TypeInv, TypeOK, RequestOK, Accept, tables

\* What Return and Goto leave behind.
LEMMA ReturnType ==
    ASSUME TypeInv, NEW h \in Handlers, Return(h)
    PROVE  /\ pc' \in [Handlers -> Pcs] /\ req' \in [Handlers -> RequestType]
           /\ seen' \in [Handlers -> SUBSET Snapshot] /\ todo' \in [Handlers -> SUBSET Rules]
           /\ rule' \in [Handlers -> OverrideConfigs \cup {NoOverride}]
           /\ RequestOK'
BY NoRequestType DEF TypeInv, TypeOK, RequestOK, Return, Pcs

\* A step that lets a request go on to its next await keeps the types of what the
\* request holds.
LEMMA GotoType ==
    ASSUME TypeInv, NEW h \in Handlers, NEW at \in Pcs, NEW rs \in SUBSET Rules,
           pc[h] # "idle", at = "remind" => \A r \in rs : IsReminder(r), Goto(h, at, rs)
    PROVE  /\ pc' \in [Handlers -> Pcs] /\ req' \in [Handlers -> RequestType]
           /\ seen' \in [Handlers -> SUBSET Snapshot] /\ todo' \in [Handlers -> SUBSET Rules]
           /\ rule' \in [Handlers -> OverrideConfigs \cup {NoOverride}]
           /\ RequestOK'
BY DEF TypeInv, TypeOK, RequestOK, Goto

\* The reads that begin a request keep the types.
LEMMA BeginType ==
    ASSUME TypeInv, NEW h \in Handlers, Begin(h)
    PROVE  TypeInv'
<1> USE BookingAssumption
<1>0. /\ event \in EventConfigs /\ event.duration \in Int
      /\ \A b \in BookingIds : bookings[b] \in BookingType
  BY DEF TypeInv, TypeOK, EventType
<1>1. ASSUME NEW b \in BookingIds, NEW s \in Starts, NEW t \in Invitees \cup {None},
             CreateRead(h, b, s, t)
      PROVE  TypeInv'
  <2> DEFINE r == Request("create", b, s, s + event.duration, t, event)
  <2>1. r \in RequestType /\ r.id \in BookingIds /\ r.kind # "none"
    BY <1>0 DEF Request, RequestType, AllKinds
  <2> QED
    BY <1>1, <2>1, AcceptType DEF CreateRead, Pcs
<1>2. ASSUME NEW b \in BookingIds, CancelRead(h, b)
      PROVE  TypeInv'
  <2> DEFINE r == Request("cancel", b, 0, 0, bookings[b].invitee, event)
  <2>1. r \in RequestType /\ r.id \in BookingIds /\ r.kind # "none"
    BY <1>0 DEF Request, RequestType, AllKinds, BookingType
  <2> QED
    BY <1>2, <2>1, AcceptType DEF CancelRead, Pcs
<1>3. ASSUME NEW b \in BookingIds, NEW s \in Starts, RescheduleRead(h, b, s)
      PROVE  TypeInv'
  <2> DEFINE r == Request("reschedule", b, s, s + event.duration, bookings[b].invitee, event)
  <2>1. r \in RequestType /\ r.id \in BookingIds /\ r.kind # "none"
    BY <1>0 DEF Request, RequestType, AllKinds, BookingType
  <2> QED
    BY <1>3, <2>1, AcceptType DEF RescheduleRead, Pcs
<1>4. ASSUME NEW b \in BookingIds, NEW s \in Starts, UpdateRead(h, b, s)
      PROVE  TypeInv'
  <2> DEFINE r == Request("update", b, s, s + event.duration, bookings[b].invitee, event)
  <2>1. r \in RequestType /\ r.id \in BookingIds /\ r.kind # "none"
    BY <1>0 DEF Request, RequestType, AllKinds, BookingType
  <2> QED
    BY <1>4, <2>1, AcceptType DEF UpdateRead, Pcs
<1>5. ASSUME NEW b \in BookingIds, EditRead(h, b)
      PROVE  TypeInv'
  <2> DEFINE r == Request("edit", b, bookings[b].start, bookings[b].end, bookings[b].invitee,
                          NoRequest.config)
  <2>1. r \in RequestType /\ r.id \in BookingIds /\ r.kind # "none"
    BY <1>0, NoRequestType DEF Request, RequestType, AllKinds, BookingType
  <2> QED
    BY <1>5, <2>1, AcceptType DEF EditRead, Pcs
<1> QED
  BY <1>1, <1>2, <1>3, <1>4, <1>5 DEF Begin

\* The later steps of a request keep the types.
LEMMA ContinueType ==
    ASSUME TypeInv, NEW h \in Handlers, Continue(h)
    PROVE  TypeInv'
<1> USE BookingAssumption DEF TypeInv, tables
<1>0. /\ req[h] \in RequestType /\ todo[h] \in SUBSET Rules
      /\ \A i \in 1..Len(jobs) : jobs[i] \in JobType
      /\ DOMAIN jobs = 1..Len(jobs) /\ Len(jobs) \in Nat
      /\ \A b \in BookingIds : bookings[b] \in BookingType
  BY DEF TypeOK
<1>r. Return(h) => /\ pc' \in [Handlers -> Pcs] /\ req' \in [Handlers -> RequestType]
                   /\ seen' \in [Handlers -> SUBSET Snapshot]
                   /\ todo' \in [Handlers -> SUBSET Rules]
                   /\ rule' \in [Handlers -> OverrideConfigs \cup {NoOverride}]
                   /\ RequestOK'
  BY ReturnType
<1>g. \A at \in Pcs, rs \in SUBSET Rules :
        pc[h] # "idle" /\ Goto(h, at, rs) /\ (at = "remind" => \A r \in rs : IsReminder(r)) =>
                   /\ pc' \in [Handlers -> Pcs] /\ req' \in [Handlers -> RequestType]
                   /\ seen' \in [Handlers -> SUBSET Snapshot]
                   /\ todo' \in [Handlers -> SUBSET Rules]
                   /\ rule' \in [Handlers -> OverrideConfigs \cup {NoOverride}]
                   /\ RequestOK'
  BY GotoType
<1>1. CASE List(h)
  <2>1. {t \in Taken : InDay(t, Zone)} \in SUBSET Snapshot
    BY <1>0 DEF Taken, Snapshot, BookingType
  <2> QED
    BY <1>1, <2>1 DEF TypeOK, RequestOK, List, Pcs
<1>2. CASE Check(h)
  <2>1. CASE SlotOffered(h) /\ UNCHANGED req
    <3>1. DueRules(req[h].start) \in SUBSET Rules
      BY DEF DueRules
    <3>2. PICK rs \in SUBSET Rules : todo' = [todo EXCEPT ![h] = rs]
      BY <1>2, <2>1, <3>1 DEF Check
    <3>3. /\ pc[h] = "check" /\ pc' = [pc EXCEPT ![h] = "write"]
          /\ seen' = [seen EXCEPT ![h] = {}] /\ rule' = [rule EXCEPT ![h] = override]
      BY <1>2, <2>1 DEF Check
    <3> QED
      BY <1>2, <2>1, <3>2, <3>3 DEF TypeOK, RequestOK, Check, Pcs
  <2>2. CASE Return(h)
    BY <1>2, <2>2, <1>r DEF TypeOK, Check
  <2> QED
    BY <1>2, <2>1, <2>2 DEF Check
<1>3. CASE CreateWithToken(h)
  <2>1. req[h].id \in BookingIds
    BY <1>3 DEF CreateWithToken, TokenRefused, Burnt, RequestOK
  <2>2. CreatedJobs(req[h].id, req[h].start, todo[h]) \in Seq(JobType)
    BY <1>0, <2>1, CreatedJobsType DEF TypeOK, RequestType
  <2>3. Row("CONFIRMED", req[h].start, req[h].end, req[h].invitee) \in BookingType
    BY <1>0 DEF Row, BookingType, BookingStatus, RequestType
  <2>4. bookings' \in [BookingIds -> BookingType]
    BY <1>3, <2>3 DEF TypeOK, CreateWithToken, TokenRefused, Burnt
  <2>5. invitees' \in [Invitees -> InviteeStatus]
    BY <1>3 DEF TypeOK, CreateWithToken, TokenRefused, Burnt, InviteeStatus
  <2>6. jobs' \in Seq(JobType)
    <3>1. \A new \in Seq(JobType) : jobs \o new \in Seq(JobType)
      BY DEF TypeOK
    <3>2. jobs' = jobs \/ jobs' = jobs \o CreatedJobs(req[h].id, req[h].start, todo[h])
      BY <1>3 DEF CreateWithToken, TokenRefused, Burnt
    <3> QED
      BY <3>1, <3>2, <2>2 DEF TypeOK
  <2> QED
    BY <1>3, <1>r, <2>4, <2>5, <2>6 DEF TypeOK, CreateWithToken, TokenRefused, Burnt
<1>4. CASE Cancel(h)
  <2>1. \A b \in BookingIds : Row("CANCELLED", bookings[b].start, bookings[b].end, bookings[b].invitee)
                                \in BookingType
    BY <1>0 DEF Row, BookingType, BookingStatus
  <2>2. bookings' \in [BookingIds -> BookingType]
    <3>1. req[h].id \in BookingIds
      BY <1>4 DEF RequestOK, Cancel
    <3>2. bookings' = bookings \/ bookings' = WithStatus(req[h].id, "CANCELLED")
      BY <1>4 DEF Cancel
    <3> QED
      BY <2>1, <3>1, <3>2 DEF TypeOK, WithStatus
  <2>3. invitees' \in [Invitees -> InviteeStatus]
    BY <1>4 DEF TypeOK, Cancel, Reactivated, InviteeStatus
  <2> QED
    BY <1>4, <1>r, <1>g, <2>2, <2>3 DEF TypeOK, Cancel, Reactivated, Pcs
<1>5. CASE Update(h)
  <2>1. \A b \in BookingIds : Row(bookings[b].status, req[h].start, req[h].end, bookings[b].invitee)
                                \in BookingType
    BY <1>0 DEF Row, BookingType, RequestType
  <2>2. bookings' \in [BookingIds -> BookingType]
    BY <1>5, <2>1 DEF TypeOK, RequestOK, Update, Moved
  <2> QED
    BY <1>5, <1>r, <1>g, <2>2 DEF TypeOK, Update, Moved, Pcs
<1>6. CASE Dequeue(h)
  <2>1. \A j \in JobType : Withdrawn(j) \in JobType
    BY DEF Withdrawn, JobType, JobStatus
  <2>2. jobs' \in Seq(JobType)
    BY <1>0, <1>6, <2>1 DEF Dequeue, Withdraws
  <2>3. RulesFor(IF req[h].kind = "cancel" THEN "ON_CANCEL" ELSE "ON_RESCHEDULE") \in SUBSET Rules
    BY DEF RulesFor
  <2> QED
    BY <1>6, <2>2, <2>3, <1>g DEF TypeOK, Dequeue, Withdraws, Pcs
<1>7. CASE Notified(h)
  <2> DEFINE rs == {r \in Rules : IsReminder(r)}
  <2>1. rs \in SUBSET Rules /\ \A r \in rs : IsReminder(r)
    OBVIOUS
  <2>2. Return(h) \/ Goto(h, "remind", rs)
    BY <1>7 DEF Notified
  <2> QED
    BY <1>7, <1>r, <1>g, <2>1, <2>2 DEF TypeOK, Notified, Pcs
<1>8. CASE Reminded(h)
  BY <1>8, <1>r DEF TypeOK, Reminded
<1>9. ASSUME NEW r \in Rules, Notify(h, r)
      PROVE  TypeInv'
  <2>1. \A type \in {"CANCELLATION", "RESCHEDULE"} : Job(req[h].id, type, now) \in JobType
    BY <1>9 DEF TypeOK, RequestOK, Notify, Job, JobType, JobTypes, JobStatus
  <2>2. jobs' \in Seq(JobType)
    BY <1>9, <2>1 DEF TypeOK, Notify
  <2> QED
    BY <1>9, <2>2 DEF TypeOK, RequestOK, Notify
<1>10. ASSUME NEW r \in Rules, Remind(h, r)
       PROVE  TypeInv'
  <2>1. req[h].start - Lead[r] > now => Job(req[h].id, Trigger[r], req[h].start - Lead[r]) \in JobType
    <3>1. Trigger[r] \in JobTypes
      BY <1>10 DEF RequestOK, Remind, IsReminder, JobTypes
    <3> QED
      BY <1>10, <1>0, <3>1 DEF RequestOK, Remind, Job, JobType, JobStatus, RequestType
  <2>2. jobs' \in Seq(JobType)
    BY <1>10, <2>1 DEF TypeOK, Remind
  <2> QED
    BY <1>10, <2>2 DEF TypeOK, RequestOK, Remind
<1> QED
  BY <1>1, <1>2, <1>3, <1>4, <1>5, <1>6, <1>7, <1>8, <1>9, <1>10 DEF Continue

\* The requests of one statement keep the types.
LEMMA AdminType ==
    ASSUME TypeInv, Admin
    PROVE  TypeInv'
<1> USE BookingAssumption DEF TypeInv, tables, locals
<1>1. ASSUME NEW b \in BookingIds, DeleteBooking(b)
      PROVE  TypeInv'
  <2>1. Row("DELETED", bookings[b].start, bookings[b].end, bookings[b].invitee) \in BookingType
    BY DEF TypeOK, Row, BookingType, BookingStatus
  <2> QED
    BY <1>1, <2>1 DEF TypeOK, RequestOK, DeleteBooking, WithStatus
<1>2. ASSUME NEW i \in Invitees, CreateInvitee(i)
      PROVE  TypeInv'
  BY <1>2 DEF TypeOK, RequestOK, CreateInvitee, InviteeStatus
<1>3. ASSUME NEW i \in Invitees, NEW st \in InviteeEdits, UpdateInvitee(i, st)
      PROVE  TypeInv'
  BY <1>3 DEF TypeOK, RequestOK, UpdateInvitee, InviteeStatus
<1>4. ASSUME NEW i \in Invitees, DeleteInvitee(i)
      PROVE  TypeInv'
  BY <1>4 DEF TypeOK, RequestOK, DeleteInvitee, InviteeStatus
<1>5. ASSUME NEW c \in EventConfigs, UpdateEvent(c)
      PROVE  TypeInv'
  BY <1>5 DEF TypeOK, RequestOK, UpdateEvent
<1>6. ASSUME NEW o \in OverrideConfigs \cup {NoOverride}, SetOverride(o)
      PROVE  TypeInv'
  BY <1>6 DEF TypeOK, RequestOK, SetOverride
<1> QED
  BY <1>1, <1>2, <1>3, <1>4, <1>5, <1>6 DEF Admin

\* Every step keeps the types.
LEMMA NextType == TypeInv /\ [Next]_vars => TypeInv'
<1> SUFFICES ASSUME TypeInv, [Next]_vars PROVE TypeInv'
  OBVIOUS
<1>1. ASSUME NEW h \in Handlers, Begin(h) PROVE TypeInv'
  BY <1>1, BeginType
<1>2. ASSUME NEW h \in Handlers, Continue(h) PROVE TypeInv'
  BY <1>2, ContinueType
<1>3. ASSUME NEW h \in Handlers, Abort(h) PROVE TypeInv'
  BY <1>3, ReturnType DEF Abort, TypeInv, TypeOK, tables
<1>4. CASE Admin
  BY <1>4, AdminType
<1>5. CASE Tick
  BY <1>5, BookingAssumption DEF Tick, TypeInv, TypeOK, RequestOK, tables, locals
<1>6. CASE UNCHANGED vars
  BY <1>6 DEF vars, TypeInv, TypeOK, RequestOK, tables, locals
<1> QED
  BY <1>1, <1>2, <1>3, <1>4, <1>5, <1>6 DEF Next

\* The tables and the values that requests keep across their awaits stay well
\* typed in every behaviour, with any number of concurrent requests.
THEOREM TypeCorrect == Spec => []TypeOK
<1>1. Init => TypeInv
  BY InitType
<1>2. TypeInv /\ [Next]_vars => TypeInv'
  BY NextType
<1>3. TypeInv => TypeOK
  BY DEF TypeInv
<1> QED
  BY <1>1, <1>2, <1>3, PTL DEF Spec

-----------------------------------------------------------------------------
\* What requests know about the rows they are about.

\* A create_booking owns an id that no row has, and no two of them share it;
\* every other request is about a row that was there when it was read, and has
\* read the invitee_id that the row still has.
RequestKnows ==
    /\ \A h \in Handlers : pc[h] # "idle" =>
          /\ req[h].kind \in Kinds
          /\ req[h].kind = "create" => bookings[req[h].id].status = "NONE"
          /\ req[h].kind # "create" =>
                /\ bookings[req[h].id].status # "NONE"
                /\ req[h].invitee = bookings[req[h].id].invitee
    /\ \A g, h \in Handlers :
          /\ pc[g] # "idle" /\ req[g].kind = "create"
          /\ pc[h] # "idle" /\ req[h].kind = "create"
          /\ req[g].id = req[h].id
          => g = h

Inv == TypeInv /\ RequestKnows

\* Before any request there is nothing to know: the initial state satisfies Inv.
LEMMA InitInv == Init => Inv
BY InitType DEF Inv, Init, RequestKnows

\* A step that touches no booking and lets the request of h go on or return.
LEMMA LocalKnows ==
    ASSUME Inv, NEW h \in Handlers, pc[h] # "idle", bookings' = bookings,
           \/ Return(h)
           \/ req' = req /\ \E at \in Pcs : pc' = [pc EXCEPT ![h] = at]
    PROVE  RequestKnows'
<1>1. CASE Return(h)
  BY <1>1 DEF Inv, TypeInv, TypeOK, RequestKnows, Return
<1>2. CASE req' = req /\ \E at \in Pcs : pc' = [pc EXCEPT ![h] = at]
  BY <1>2 DEF Inv, TypeInv, TypeOK, RequestKnows
<1> QED
  BY <1>1, <1>2

\* A new request: its row exists, or its id is fresh.
LEMMA AcceptKnows ==
    ASSUME Inv, NEW h \in Handlers, NEW at \in Pcs, NEW r \in RequestType, Accept(h, at, r),
           r.id \in BookingIds, r.kind \in Kinds,
           r.kind = "create" => Fresh(r.id),
           r.kind # "create" => /\ bookings[r.id].status # "NONE"
                                /\ r.invitee = bookings[r.id].invitee
    PROVE  RequestKnows'
<1>1. bookings' = bookings /\ pc' = [pc EXCEPT ![h] = at] /\ req' = [req EXCEPT ![h] = r]
  BY DEF Accept, tables
<1> QED
  BY <1>1 DEF Inv, TypeInv, TypeOK, RequestKnows, Fresh

\* The reads of create_booking, cancel_booking, reschedule_booking and
\* update_booking leave a request that knows its booking.
LEMMA BeginKnows ==
    ASSUME Inv, NEW h \in Handlers, Begin(h)
    PROVE  RequestKnows'
<1> USE BookingAssumption
<1>0. /\ event \in EventConfigs /\ event.duration \in Int
      /\ \A b \in BookingIds : bookings[b] \in BookingType
  BY DEF Inv, TypeInv, TypeOK, EventType
<1>1. ASSUME NEW b \in BookingIds, NEW s \in Starts, NEW t \in Invitees \cup {None},
             CreateRead(h, b, s, t)
      PROVE  RequestKnows'
  <2> DEFINE r == Request("create", b, s, s + event.duration, t, event)
  <2>0. s + event.duration \in Int /\ s \in Int
    BY <1>0
  <2>1. r \in RequestType /\ r.id = b /\ r.kind = "create"
    BY <1>0, <2>0 DEF Request, RequestType, AllKinds
  <2>2. Accept(h, "list", r) /\ Fresh(b) /\ "create" \in Kinds
    BY <1>1 DEF CreateRead
  <2> HIDE DEF r
  <2> QED
    BY <2>1, <2>2, AcceptKnows DEF Pcs
<1>2. ASSUME NEW b \in BookingIds, CancelRead(h, b)
      PROVE  RequestKnows'
  <2> DEFINE r == Request("cancel", b, 0, 0, bookings[b].invitee, event)
  <2>1. r \in RequestType /\ r.id = b /\ r.kind = "cancel" /\ r.invitee = bookings[b].invitee
    BY <1>0 DEF Request, RequestType, AllKinds, BookingType
  <2>2. Accept(h, "write", r) /\ bookings[b].status # "NONE" /\ "cancel" \in Kinds
    BY <1>2 DEF CancelRead
  <2> HIDE DEF r
  <2> QED
    BY <2>1, <2>2, AcceptKnows DEF Pcs
<1>3. ASSUME NEW b \in BookingIds, NEW s \in Starts, RescheduleRead(h, b, s)
      PROVE  RequestKnows'
  <2> DEFINE r == Request("reschedule", b, s, s + event.duration, bookings[b].invitee, event)
  <2>1. r \in RequestType /\ r.id = b /\ r.kind = "reschedule" /\ r.invitee = bookings[b].invitee
    BY <1>0 DEF Request, RequestType, AllKinds, BookingType
  <2>2. Accept(h, "list", r) /\ bookings[b].status # "NONE" /\ "reschedule" \in Kinds
    BY <1>3 DEF RescheduleRead
  <2> HIDE DEF r
  <2> QED
    BY <2>1, <2>2, AcceptKnows DEF Pcs
<1>4. ASSUME NEW b \in BookingIds, NEW s \in Starts, UpdateRead(h, b, s)
      PROVE  RequestKnows'
  <2> DEFINE r == Request("update", b, s, s + event.duration, bookings[b].invitee, event)
  <2>1. r \in RequestType /\ r.id = b /\ r.kind = "update" /\ r.invitee = bookings[b].invitee
    BY <1>0 DEF Request, RequestType, AllKinds, BookingType
  <2>2. Accept(h, "list", r) /\ bookings[b].status # "NONE" /\ "update" \in Kinds
    BY <1>4 DEF UpdateRead, Exists
  <2> HIDE DEF r
  <2> QED
    BY <2>1, <2>2, AcceptKnows DEF Pcs
<1>5. ASSUME NEW b \in BookingIds, EditRead(h, b)
      PROVE  RequestKnows'
  <2> DEFINE r == Request("edit", b, bookings[b].start, bookings[b].end, bookings[b].invitee,
                          NoRequest.config)
  <2>1. r \in RequestType /\ r.id = b /\ r.kind = "edit" /\ r.invitee = bookings[b].invitee
    BY <1>0, NoRequestType DEF Request, RequestType, AllKinds, BookingType
  <2>2. Accept(h, "write", r) /\ bookings[b].status # "NONE" /\ "edit" \in Kinds
    BY <1>5 DEF EditRead, Exists
  <2> HIDE DEF r
  <2> QED
    BY <2>1, <2>2, AcceptKnows DEF Pcs
<1> QED
  BY <1>1, <1>2, <1>3, <1>4, <1>5 DEF Begin

\* The fields of the row that WithStatus and Update write.
LEMMA RowFields ==
    ASSUME NEW status, NEW start, NEW end, NEW invitee
    PROVE  /\ Row(status, start, end, invitee).status = status
           /\ Row(status, start, end, invitee).start = start
           /\ Row(status, start, end, invitee).end = end
           /\ Row(status, start, end, invitee).invitee = invitee
BY DEF Row

\* What the steps of a request do to the bookings: insert a row under a new id
\* and return, change the status of a row to CANCELLED, move a row, or nothing.
LEMMA ContinueBookings ==
    ASSUME Inv, NEW h \in Handlers, Continue(h)
    PROVE  /\ pc[h] # "idle"
           /\ \/ bookings' = bookings
              \/ CreateWithToken(h)
              \/ Cancel(h)
              \/ Update(h)
           /\ \/ Return(h)
              \/ req' = req /\ \E at \in Pcs : pc' = [pc EXCEPT ![h] = at]
<1>1. CASE List(h) \/ Check(h) \/ Notified(h) \/ Reminded(h)
  BY <1>1 DEF List, Check, Notified, Reminded, Goto, Pcs, tables
<1>2. CASE CreateWithToken(h)
  BY <1>2 DEF CreateWithToken, TokenRefused, Burnt
<1>3. CASE Cancel(h)
  BY <1>3 DEF Cancel, Reactivated, Goto, Pcs
<1>4. CASE Update(h)
  BY <1>4 DEF Update, Moved, Goto, Pcs
<1>5. CASE Dequeue(h)
  BY <1>5 DEF Dequeue, Withdraws, Goto, Pcs
<1>6. ASSUME NEW r \in Rules, Notify(h, r) \/ Remind(h, r)
      PROVE  /\ pc[h] # "idle" /\ bookings' = bookings
             /\ req' = req /\ \E at \in Pcs : pc' = [pc EXCEPT ![h] = at]
  <2>1. pc[h] \in Pcs /\ pc = [pc EXCEPT ![h] = pc[h]]
    BY DEF Inv, TypeInv, TypeOK
  <2> QED
    BY <1>6, <2>1 DEF Notify, Remind
<1> QED
  BY <1>1, <1>2, <1>3, <1>4, <1>5, <1>6 DEF Continue

\* No later step of a request makes another request wrong about its booking.
LEMMA ContinueKnows ==
    ASSUME Inv, NEW h \in Handlers, Continue(h)
    PROVE  RequestKnows'
<1> USE DEF Inv
<1>0. /\ pc[h] # "idle" /\ req[h].id \in BookingIds
      /\ \A g \in Handlers : pc[g] # "idle" => req[g].id \in BookingIds
      /\ \/ Return(h)
         \/ req' = req /\ \E at \in Pcs : pc' = [pc EXCEPT ![h] = at]
      /\ pc' \in [Handlers -> Pcs]
      /\ \A g \in Handlers \ {h} : pc'[g] = pc[g] /\ req'[g] = req[g]
      /\ pc'[h] # "idle" => req'[h] = req[h]
  BY ContinueBookings, ContinueType DEF TypeInv, TypeOK, RequestOK, Return
<1>1. CASE bookings' = bookings
  BY <1>0, <1>1, LocalKnows
<1>2. CASE CreateWithToken(h)
  <2>1. pc'[h] = "idle" /\ \A b \in BookingIds \ {req[h].id} : bookings'[b] = bookings[b]
    BY <1>2 DEF CreateWithToken, TokenRefused, Burnt, Return, TypeInv, TypeOK
  <2>2. \A g \in Handlers \ {h} : pc[g] # "idle" => req[g].id # req[h].id
    BY <1>0, <1>2 DEF RequestKnows, CreateWithToken, TokenRefused, Burnt
  <2> QED
    BY <1>0, <2>1, <2>2 DEF RequestKnows
<1>3. CASE Cancel(h) \/ Update(h)
  <2>1. \A b \in BookingIds :
          /\ bookings'[b].status = "NONE" <=> bookings[b].status = "NONE"
          /\ bookings'[b].invitee = bookings[b].invitee
    BY <1>0, <1>3, RowFields DEF Cancel, Reactivated, Update, Moved, WithStatus, Exists, TypeInv, TypeOK
  <2> QED
    BY <1>0, <2>1 DEF RequestKnows
<1> QED
  BY <1>1, <1>2, <1>3, ContinueBookings

\* Neither do the requests of one statement: delete_booking keeps the invitee of
\* the row it removes.
LEMMA AdminKnows ==
    ASSUME Inv, Admin
    PROVE  RequestKnows'
<1> USE DEF Inv, locals
<1>1. ASSUME NEW b \in BookingIds, DeleteBooking(b)
      PROVE  RequestKnows'
  <2>1. \A c \in BookingIds :
          /\ bookings'[c].status = "NONE" <=> bookings[c].status = "NONE"
          /\ bookings'[c].invitee = bookings[c].invitee
    BY <1>1, RowFields DEF DeleteBooking, WithStatus, Exists, TypeInv, TypeOK
  <2> QED
    BY <1>1, <2>1 DEF RequestKnows, DeleteBooking, TypeInv, TypeOK, RequestOK
<1>2. CASE UNCHANGED <<bookings, pc, req>>
  BY <1>2 DEF RequestKnows
<1> QED
  BY <1>1, <1>2 DEF Admin, CreateInvitee, UpdateInvitee, DeleteInvitee, UpdateEvent, SetOverride

\* Every step keeps what requests know.
LEMMA NextInv == Inv /\ [Next]_vars => Inv'
<1> SUFFICES ASSUME Inv, [Next]_vars PROVE RequestKnows'
  BY NextType DEF Inv
<1>1. ASSUME NEW h \in Handlers, Begin(h) PROVE RequestKnows'
  BY <1>1, BeginKnows
<1>2. ASSUME NEW h \in Handlers, Continue(h) PROVE RequestKnows'
  BY <1>2, ContinueKnows
<1>3. ASSUME NEW h \in Handlers, Abort(h) PROVE RequestKnows'
  BY <1>3, LocalKnows DEF Abort, tables, Idle
<1>4. CASE Admin
  BY <1>4, AdminKnows
<1>5. CASE Tick \/ UNCHANGED vars
  BY <1>5 DEF Inv, RequestKnows, Tick, vars, tables, locals
<1> QED
  BY <1>1, <1>2, <1>3, <1>4, <1>5 DEF Next

-----------------------------------------------------------------------------
\* Cancelled bookings.

\* No statement turns CANCELLED into CONFIRMED: booking_repo.update leaves the
\* status column alone, and an insert uses a new id.
LEMMA CancelledStep ==
    ASSUME Inv, [Next]_vars, NEW b \in BookingIds, bookings[b].status = "CANCELLED"
    PROVE  bookings'[b].status \in {"CANCELLED", "DELETED"}
<1> USE DEF Inv, TypeInv, TypeOK
<1>1. ASSUME NEW h \in Handlers, Continue(h)
      PROVE  bookings'[b].status \in {"CANCELLED", "DELETED"}
  <2>1. CASE CreateWithToken(h)
    <3>1. req[h].id # b /\ req[h].id \in BookingIds
      BY <2>1 DEF CreateWithToken, TokenRefused, Burnt, RequestKnows, RequestOK
    <3> QED
      BY <2>1, <3>1 DEF CreateWithToken, TokenRefused, Burnt
  <2>2. CASE Cancel(h) \/ Update(h)
    BY <2>2, RowFields DEF Cancel, Reactivated, Update, Moved, WithStatus
  <2> QED
    BY <1>1, <2>1, <2>2, ContinueBookings
<1>2. ASSUME NEW c \in BookingIds, DeleteBooking(c)
      PROVE  bookings'[b].status \in {"CANCELLED", "DELETED"}
  BY <1>2, RowFields DEF DeleteBooking, WithStatus
<1>3. CASE UNCHANGED bookings
  BY <1>3
<1>4. ASSUME NEW h \in Handlers, Begin(h) \/ Abort(h)
      PROVE  UNCHANGED bookings
  BY <1>4 DEF Begin, CreateRead, CancelRead, RescheduleRead, UpdateRead, EditRead, Accept,
              Abort, tables
<1> QED
  BY <1>1, <1>2, <1>3, <1>4
     DEF Next, Admin, CreateInvitee, UpdateInvitee, DeleteInvitee, UpdateEvent, SetOverride,
         Tick, vars, tables

\* No request revives a cancelled booking, however many requests that read it
\* before its cancellation write it afterwards.
THEOREM CancelledNeverRevived == Spec => CancelledIsFinal
<1>1. Init => Inv
  BY InitInv
<1>2. Inv /\ [Next]_vars => Inv'
  BY NextInv
<1>3. Inv /\ [Next]_vars =>
        [\A b \in BookingIds : bookings[b].status = "CANCELLED" =>
            bookings'[b].status \in {"CANCELLED", "DELETED"}]_vars
  BY CancelledStep
<1> QED
  BY <1>1, <1>2, <1>3, PTL DEF Spec, CancelledIsFinal

-----------------------------------------------------------------------------
\* Invitation tokens.

\* The steps that touch neither a row of bookings nor one of invitees.
LEMMA OtherSteps ==
    ASSUME Inv, [Next]_vars,
           \A h \in Handlers : ~CreateWithToken(h) /\ ~Cancel(h) /\ ~Update(h),
           \A b \in BookingIds : ~DeleteBooking(b),
           \A i \in Invitees : /\ ~CreateInvitee(i) /\ ~DeleteInvitee(i)
                               /\ \A st \in InviteeEdits : ~UpdateInvitee(i, st)
    PROVE  UNCHANGED <<bookings, invitees>>
<1>1. ASSUME NEW h \in Handlers, Begin(h) \/ Abort(h)
      PROVE  UNCHANGED <<bookings, invitees>>
  BY <1>1 DEF Begin, CreateRead, CancelRead, RescheduleRead, UpdateRead, EditRead, Accept,
              Abort, tables
<1>2. ASSUME NEW h \in Handlers, Continue(h)
      PROVE  UNCHANGED <<bookings, invitees>>
  BY <1>2 DEF Continue, List, Check, Dequeue, Withdraws, Notified, Reminded, Notify, Remind, tables
<1> QED
  BY <1>1, <1>2 DEF Next, Admin, UpdateEvent, SetOverride, Tick, vars, tables

\* A USED token keeps its live booking in every step, if no admin deletes
\* bookings or writes USED by hand.
LEMMA UsedTokenStep ==
    ASSUME Inv, UsedTokenHasLiveBooking, [Next]_vars,
           "delete" \notin Kinds, "USED" \notin InviteeEdits
    PROVE  UsedTokenHasLiveBooking'
<1> USE DEF Inv, TypeInv, TypeOK
<1> SUFFICES ASSUME NEW i \in Invitees, invitees'[i] = "USED"
             PROVE  \E b \in BookingIds : Live(b)' /\ bookings'[b].invitee = i
  BY DEF UsedTokenHasLiveBooking
<1>0. invitees[i] = "USED" => \E b \in BookingIds : Live(b) /\ bookings[b].invitee = i
  BY DEF UsedTokenHasLiveBooking
<1>1. ASSUME NEW h \in Handlers, CreateWithToken(h)
      PROVE  \E b \in BookingIds : Live(b)' /\ bookings'[b].invitee = i
  <2>0. req[h].id \in BookingIds /\ bookings[req[h].id].status = "NONE"
    BY <1>1 DEF CreateWithToken, TokenRefused, Burnt, RequestOK, RequestKnows
  <2>1. CASE UNCHANGED <<bookings, invitees>>
    BY <1>0, <2>1 DEF Live
  <2>2. CASE /\ bookings' = [bookings EXCEPT ![req[h].id] =
                                Row("CONFIRMED", req[h].start, req[h].end, req[h].invitee)]
             /\ invitees' = IF req[h].invitee = None THEN invitees
                            ELSE [invitees EXCEPT ![req[h].invitee] = "USED"]
    <3>1. CASE req[h].invitee = i
      BY <2>0, <2>2, <3>1, RowFields DEF Live
    <3>2. CASE req[h].invitee # i
      <4>1. PICK b \in BookingIds : Live(b) /\ bookings[b].invitee = i
        BY <1>0, <2>2, <3>2
      <4>2. b # req[h].id
        BY <2>0, <4>1 DEF Live
      <4> QED
        BY <2>2, <4>1, <4>2 DEF Live
    <3> QED
      BY <3>1, <3>2
  <2> QED
    BY <1>1, <2>1, <2>2 DEF CreateWithToken, TokenRefused, Burnt
<1>2. ASSUME NEW h \in Handlers, Cancel(h)
      PROVE  \E b \in BookingIds : Live(b)' /\ bookings'[b].invitee = i
  <2>0. req[h].id \in BookingIds /\ req[h].invitee = bookings[req[h].id].invitee
    BY <1>2 DEF Cancel, Reactivated, RequestOK, RequestKnows
  <2>1. CASE ~Exists(req[h].id)
    BY <1>0, <1>2, <2>1 DEF Cancel, Reactivated, Live
  <2>2. CASE Exists(req[h].id)
    <3>1. req[h].invitee # i /\ invitees[i] = "USED"
      BY <1>2, <2>2, BookingAssumption DEF Cancel, Reactivated
    <3>2. PICK b \in BookingIds : Live(b) /\ bookings[b].invitee = i
      BY <1>0, <3>1
    <3>3. b # req[h].id
      BY <2>0, <3>1, <3>2
    <3>4. bookings'[b] = bookings[b]
      BY <1>2, <2>2, <3>3 DEF Cancel, Reactivated, WithStatus
    <3> QED
      BY <3>2, <3>4 DEF Live
  <2> QED
    BY <2>1, <2>2
<1>3. ASSUME NEW h \in Handlers, Update(h)
      PROVE  \E b \in BookingIds : Live(b)' /\ bookings'[b].invitee = i
  <2>1. \A b \in BookingIds : /\ bookings'[b].status = bookings[b].status
                              /\ bookings'[b].invitee = bookings[b].invitee
    BY <1>3, RowFields DEF Update, Moved
  <2> QED
    BY <1>0, <1>3, <2>1 DEF Update, Moved, Live
<1>4. ASSUME NEW j \in Invitees, \/ CreateInvitee(j) \/ DeleteInvitee(j)
                                 \/ \E st \in InviteeEdits : UpdateInvitee(j, st)
      PROVE  \E b \in BookingIds : Live(b)' /\ bookings'[b].invitee = i
  <2>1. invitees[i] = "USED" /\ bookings' = bookings
    BY <1>4 DEF CreateInvitee, DeleteInvitee, UpdateInvitee
  <2> QED
    BY <1>0, <2>1 DEF Live
<1>5. ASSUME NEW b \in BookingIds
      PROVE  ~DeleteBooking(b)
  BY DEF DeleteBooking
<1>6. CASE UNCHANGED <<bookings, invitees>>
  BY <1>0, <1>6 DEF Live
<1> QED
  BY <1>1, <1>2, <1>3, <1>4, <1>5, <1>6, OtherSteps

\* A USED token always belongs to a live booking, with any number of concurrent
\* requests, failures included, as long as no admin deletes booking rows (which
\* leaves the token behind) or sets an invitee to USED.
THEOREM TokensNotLost ==
    ASSUME "delete" \notin Kinds, "USED" \notin InviteeEdits
    PROVE  Spec => []UsedTokenHasLiveBooking
<1>1. Init => Inv /\ UsedTokenHasLiveBooking
  BY InitInv DEF Init, UsedTokenHasLiveBooking
<1>2. Inv /\ UsedTokenHasLiveBooking /\ [Next]_vars => Inv' /\ UsedTokenHasLiveBooking'
  BY NextInv, UsedTokenStep
<1> QED
  BY <1>1, <1>2, PTL DEF Spec

\* The token of a live booking cannot be burnt again: it is not ACTIVE and
\* nothing makes it ACTIVE.
LiveMeansUsed ==
    \A b \in BookingIds : Live(b) /\ bookings[b].invitee # None =>
        invitees[bookings[b].invitee] \notin {"NONE", "ACTIVE"}

\* Every statement keeps both facts: create_with_token asks for an ACTIVE invitee
\* and marks it USED in the same transaction.
LEMMA SingleUseStep ==
    ASSUME Inv, LiveMeansUsed, TokenSingleUse, [Next]_vars,
           "cancel" \notin Kinds, "ACTIVE" \notin InviteeEdits
    PROVE  LiveMeansUsed' /\ TokenSingleUse'
<1> USE DEF Inv, TypeInv, TypeOK
<1>1. ASSUME NEW h \in Handlers, CreateWithToken(h)
      PROVE  LiveMeansUsed' /\ TokenSingleUse'
  <2>0. /\ req[h].id \in BookingIds /\ bookings[req[h].id].status = "NONE"
        /\ req[h].invitee \in Invitees \cup {None}
        /\ \A b \in BookingIds : bookings[b].invitee \in Invitees \cup {None}
    BY <1>1 DEF CreateWithToken, TokenRefused, Burnt, RequestOK, RequestKnows, RequestType, BookingType
  <2>1. CASE UNCHANGED <<bookings, invitees>>
    BY <2>1 DEF LiveMeansUsed, TokenSingleUse, Live
  <2>2. CASE /\ ~(req[h].invitee # None /\ invitees[req[h].invitee] # "ACTIVE")
             /\ bookings' = [bookings EXCEPT ![req[h].id] =
                                Row("CONFIRMED", req[h].start, req[h].end, req[h].invitee)]
             /\ invitees' = IF req[h].invitee = None THEN invitees
                            ELSE [invitees EXCEPT ![req[h].invitee] = "USED"]
    <3>1. \A b \in BookingIds \ {req[h].id} :
            bookings'[b] = bookings[b]
      BY <2>2
    <3>2. bookings'[req[h].id].invitee = req[h].invitee
      BY <2>0, <2>2, RowFields
    <3>3. \A b \in BookingIds : Live(b) /\ bookings[b].invitee # None =>
            bookings[b].invitee # req[h].invitee
      BY <2>2 DEF LiveMeansUsed
    <3>4. TokenSingleUse'
      BY <3>1, <3>2, <3>3 DEF TokenSingleUse, Live
    <3>5. LiveMeansUsed'
      BY <2>0, <2>2, <3>1, <3>2 DEF LiveMeansUsed, Live
    <3> QED
      BY <3>4, <3>5
  <2> QED
    BY <1>1, <2>1, <2>2 DEF CreateWithToken, TokenRefused, Burnt
<1>2. ASSUME NEW h \in Handlers
      PROVE  ~Cancel(h)
  BY DEF Cancel, Reactivated, RequestKnows
<1>3. ASSUME NEW h \in Handlers, Update(h)
      PROVE  LiveMeansUsed' /\ TokenSingleUse'
  <2>1. /\ \A b \in BookingIds : /\ bookings'[b].status = bookings[b].status
                                 /\ bookings'[b].invitee = bookings[b].invitee
        /\ invitees' = invitees
    BY <1>3, RowFields DEF Update, Moved
  <2> QED
    BY <2>1 DEF LiveMeansUsed, TokenSingleUse, Live
<1>4. ASSUME NEW j \in Invitees, \/ CreateInvitee(j) \/ DeleteInvitee(j)
                                 \/ \E st \in InviteeEdits : UpdateInvitee(j, st)
      PROVE  LiveMeansUsed' /\ TokenSingleUse'
  <2>1. /\ bookings' = bookings
        /\ \A i \in Invitees : invitees[i] \notin {"NONE", "ACTIVE"} =>
              invitees'[i] \notin {"NONE", "ACTIVE"}
    BY <1>4, BookingAssumption DEF CreateInvitee, DeleteInvitee, UpdateInvitee
  <2> QED
    BY <2>1 DEF LiveMeansUsed, TokenSingleUse, Live, BookingType
<1>5. ASSUME NEW b \in BookingIds, DeleteBooking(b)
      PROVE  LiveMeansUsed' /\ TokenSingleUse'
  <2>1. /\ \A c \in BookingIds : Live(c)' => bookings'[c] = bookings[c] /\ Live(c)
        /\ invitees' = invitees
    BY <1>5, RowFields DEF DeleteBooking, WithStatus, Live
  <2> QED
    BY <2>1 DEF LiveMeansUsed, TokenSingleUse
<1>6. CASE UNCHANGED <<bookings, invitees>>
  BY <1>6 DEF LiveMeansUsed, TokenSingleUse, Live
<1> QED
  BY <1>1, <1>2, <1>3, <1>4, <1>5, <1>6, OtherSteps

\* A token pays for one live booking, with any number of concurrent requests,
\* as long as nothing gives tokens back: neither cancellations, which hand the
\* token out again without looking, nor an admin.
THEOREM TokensBurnOnce ==
    ASSUME "cancel" \notin Kinds, "ACTIVE" \notin InviteeEdits
    PROVE  Spec => []TokenSingleUse
<1>1. Init => Inv /\ LiveMeansUsed /\ TokenSingleUse
  BY InitInv, RowFields DEF Init, LiveMeansUsed, TokenSingleUse, Live
<1>2. Inv /\ LiveMeansUsed /\ TokenSingleUse /\ [Next]_vars => Inv' /\ LiveMeansUsed' /\ TokenSingleUse'
  BY NextInv, SingleUseStep
<1> QED
  BY <1>1, <1>2, PTL DEF Spec

-----------------------------------------------------------------------------
\* What steps do to the requests and to the bookings.

\* Requests that need a slot, and all that write times.
PlaceKinds == SlotKinds \cup {"edit"}

\* The reads that begin a request: what is accepted, and at which await.
LEMMA BeginAccepts ==
    ASSUME TypeInv, NEW h \in Handlers, Begin(h)
    PROVE  \E at \in {"list", "write"}, r \in RequestType :
              /\ Accept(h, at, r) /\ r.id \in BookingIds
              /\ \/ /\ at = "list" /\ r.kind \in SlotKinds /\ r.config = event
                    /\ r.start \in Starts /\ r.end = r.start + event.duration
                    /\ r.kind = "reschedule" => bookings[r.id].status = "CONFIRMED"
                 \/ /\ at = "write" /\ r.kind = "cancel"
                    /\ bookings[r.id].status = "CONFIRMED"
                 \/ /\ at = "write" /\ r.kind = "edit" /\ Exists(r.id)
                    /\ r.start = bookings[r.id].start /\ r.end = bookings[r.id].end
<1> USE BookingAssumption
<1>0. /\ event \in EventConfigs /\ event.duration \in Int
      /\ \A b \in BookingIds : bookings[b] \in BookingType
  BY DEF TypeInv, TypeOK, EventType
<1>1. ASSUME NEW b \in BookingIds, NEW s \in Starts, NEW i \in Invitees \cup {None},
             NEW kind \in SlotKinds, kind = "reschedule" => bookings[b].status = "CONFIRMED",
             Accept(h, "list", Request(kind, b, s, s + event.duration, i, event))
      PROVE  \E r \in RequestType :
                /\ Accept(h, "list", r) /\ r.id \in BookingIds
                /\ r.kind \in SlotKinds /\ r.config = event
                /\ r.start \in Starts /\ r.end = r.start + event.duration
                /\ r.kind = "reschedule" => bookings[r.id].status = "CONFIRMED"
  <2> DEFINE r == Request(kind, b, s, s + event.duration, i, event)
  <2>0. s \in Int /\ s + event.duration \in Int
    BY <1>0
  <2>1. /\ r \in RequestType /\ r.id = b /\ r.kind = kind /\ r.config = event /\ r.start = s
        /\ r.end = s + event.duration
    BY <1>0, <2>0 DEF Request, RequestType, AllKinds, SlotKinds
  <2>2. Accept(h, "list", r)
    BY <1>1
  <2> HIDE DEF r
  <2> QED
    BY <1>1, <2>1, <2>2
<1>2. ASSUME NEW b \in BookingIds, CancelRead(h, b)
      PROVE  \E r \in RequestType : /\ Accept(h, "write", r) /\ r.id \in BookingIds
                                    /\ r.kind = "cancel" /\ bookings[r.id].status = "CONFIRMED"
  <2> DEFINE r == Request("cancel", b, 0, 0, bookings[b].invitee, event)
  <2>1. r \in RequestType /\ r.id = b /\ r.kind = "cancel"
    BY <1>0 DEF Request, RequestType, AllKinds, BookingType
  <2>2. Accept(h, "write", r) /\ bookings[b].status = "CONFIRMED"
    BY <1>2 DEF CancelRead
  <2> HIDE DEF r
  <2> QED
    BY <2>1, <2>2
<1>3. ASSUME NEW b \in BookingIds, EditRead(h, b)
      PROVE  \E r \in RequestType :
                /\ Accept(h, "write", r) /\ r.id \in BookingIds /\ r.kind = "edit" /\ Exists(r.id)
                /\ r.start = bookings[r.id].start /\ r.end = bookings[r.id].end
  <2> DEFINE r == Request("edit", b, bookings[b].start, bookings[b].end, bookings[b].invitee,
                          NoRequest.config)
  <2>1. /\ r \in RequestType /\ r.id = b /\ r.kind = "edit"
        /\ r.start = bookings[b].start /\ r.end = bookings[b].end
    BY <1>0, NoRequestType DEF Request, RequestType, AllKinds, BookingType
  <2>2. Accept(h, "write", r) /\ Exists(b)
    BY <1>3 DEF EditRead
  <2> HIDE DEF r
  <2> QED
    BY <2>1, <2>2
<1>4. ASSUME NEW b \in BookingIds, NEW s \in Starts,
             \/ \E t \in Invitees \cup {None} : CreateRead(h, b, s, t)
             \/ RescheduleRead(h, b, s) \/ UpdateRead(h, b, s)
      PROVE  \E i \in Invitees \cup {None}, kind \in SlotKinds :
                /\ kind = "reschedule" => bookings[b].status = "CONFIRMED"
                /\ Accept(h, "list", Request(kind, b, s, s + event.duration, i, event))
  <2>1. bookings[b].invitee \in Invitees \cup {None}
    BY <1>0 DEF BookingType
  <2> QED
    BY <1>4, <2>1 DEF CreateRead, RescheduleRead, UpdateRead, SlotKinds
<1> QED
  BY <1>1, <1>2, <1>3, <1>4 DEF Begin

\* A step is about one request at most, and leaves the others alone.
LEMMA OtherHandlers ==
    ASSUME TypeInv, NEW h \in Handlers, Begin(h) \/ Continue(h) \/ Abort(h),
           NEW g \in Handlers, g # h
    PROVE  pc'[g] = pc[g] /\ req'[g] = req[g] /\ seen'[g] = seen[g] /\ rule'[g] = rule[g]
<1> USE DEF TypeInv, TypeOK
<1>1. CASE Begin(h)
  BY <1>1, BeginAccepts DEF Accept
<1>2. CASE Abort(h)
  BY <1>2 DEF Abort, Return
<1>3. CASE List(h) \/ Check(h) \/ Notified(h) \/ Reminded(h) \/ Dequeue(h)
  BY <1>3 DEF List, Check, Notified, Reminded, Dequeue, Goto, Return
<1>4. CASE CreateWithToken(h) \/ Cancel(h) \/ Update(h)
  BY <1>4 DEF CreateWithToken, Cancel, Update, Goto, Return
<1>5. ASSUME NEW r \in Rules, Notify(h, r) \/ Remind(h, r)
      PROVE  pc'[g] = pc[g] /\ req'[g] = req[g] /\ seen'[g] = seen[g] /\ rule'[g] = rule[g]
  BY <1>5 DEF Notify, Remind
<1> QED
  BY <1>1, <1>2, <1>3, <1>4, <1>5 DEF Continue

\* The steps that are no step of a request.
LEMMA AdminLocals ==
    ASSUME Admin \/ Tick \/ UNCHANGED vars
    PROVE  UNCHANGED locals
BY DEF Admin, DeleteBooking, CreateInvitee, UpdateInvitee, DeleteInvitee, UpdateEvent, SetOverride,
       Tick, vars

\* A request at its list, check or write has come there by a read, by list_by_range
\* or by a check that found the slot.
LEMMA RequestStep ==
    ASSUME TypeInv, [Next]_vars, NEW h \in Handlers, pc'[h] \in {"list", "check", "write"}
    PROVE  \/ pc'[h] = pc[h] /\ req'[h] = req[h] /\ seen'[h] = seen[h] /\ rule'[h] = rule[h]
           \/ Begin(h)
           \/ pc'[h] = "check" /\ req'[h] = req[h] /\ List(h)
           \/ pc'[h] = "write" /\ req'[h] = req[h] /\ Check(h) /\ SlotOffered(h)
<1> USE DEF TypeInv, TypeOK
<1>1. ASSUME NEW g \in Handlers, Begin(g) \/ Continue(g) \/ Abort(g), g # h
      PROVE  pc'[h] = pc[h] /\ req'[h] = req[h] /\ seen'[h] = seen[h] /\ rule'[h] = rule[h]
  BY <1>1, OtherHandlers
<1>2. CASE Abort(h)
  BY <1>2 DEF Abort, Return
<1>3. CASE List(h)
  BY <1>3 DEF List
<1>4. CASE Check(h)
  BY <1>4 DEF Check, Goto, Return
<1>5. CASE \/ CreateWithToken(h) \/ Cancel(h) \/ Update(h) \/ Notified(h) \/ Reminded(h) \/ Dequeue(h)
  BY <1>5 DEF CreateWithToken, Cancel, Update, Notified, Reminded, Dequeue, Goto, Return
<1>6. ASSUME NEW r \in Rules, Notify(h, r) \/ Remind(h, r)
      PROVE  FALSE
  BY <1>6 DEF Notify, Remind
<1>7. CASE Admin \/ Tick \/ UNCHANGED vars
  BY <1>7, AdminLocals DEF locals
<1> QED
  BY <1>1, <1>2, <1>3, <1>4, <1>5, <1>6, <1>7 DEF Next, Continue

\* What a step does to a booking: nothing, end it, or write the times of a request
\* that was at its write.
LEMMA BookingStep ==
    ASSUME Inv, [Next]_vars, NEW b \in BookingIds
    PROVE  \/ bookings'[b] = bookings[b]
           \/ /\ bookings'[b].status \in {"CANCELLED", "DELETED"}
              /\ bookings'[b].start = bookings[b].start /\ bookings'[b].end = bookings[b].end
              /\ bookings[b].status # "NONE"
           \/ \E h \in Handlers :
              /\ CreateWithToken(h) \/ Update(h)
              /\ pc[h] = "write" /\ req[h].kind \in PlaceKinds /\ req[h].id = b
              /\ bookings'[b].start = req[h].start /\ bookings'[b].end = req[h].end
              /\ \/ bookings[b].status = "NONE" /\ bookings'[b].status = "CONFIRMED"
                 \/ bookings'[b].status = bookings[b].status
              /\ \A c \in BookingIds \ {b} : bookings'[c] = bookings[c]
<1> USE DEF Inv, TypeInv, TypeOK
<1>1. ASSUME NEW h \in Handlers, CreateWithToken(h)
      PROVE  \/ bookings'[b] = bookings[b]
             \/ /\ pc[h] = "write" /\ req[h].kind \in PlaceKinds /\ req[h].id = b
                /\ bookings'[b].start = req[h].start /\ bookings'[b].end = req[h].end
                /\ bookings[b].status = "NONE" /\ bookings'[b].status = "CONFIRMED"
                /\ \A c \in BookingIds \ {b} : bookings'[c] = bookings[c]
  <2>1. /\ req[h].id \in BookingIds /\ bookings[req[h].id].status = "NONE"
        /\ pc[h] = "write" /\ req[h].kind \in PlaceKinds
    BY <1>1 DEF CreateWithToken, RequestOK, RequestKnows, PlaceKinds, SlotKinds
  <2> QED
    BY <1>1, <2>1, RowFields DEF CreateWithToken
<1>2. ASSUME NEW h \in Handlers, Update(h)
      PROVE  \/ bookings'[b] = bookings[b]
             \/ /\ pc[h] = "write" /\ req[h].kind \in PlaceKinds /\ req[h].id = b
                /\ bookings'[b].start = req[h].start /\ bookings'[b].end = req[h].end
                /\ bookings'[b].status = bookings[b].status
                /\ \A c \in BookingIds \ {b} : bookings'[c] = bookings[c]
  BY <1>2, RowFields DEF Update, Moved, PlaceKinds, SlotKinds
<1>3. ASSUME NEW h \in Handlers, Cancel(h)
      PROVE  \/ bookings'[b] = bookings[b]
             \/ /\ bookings'[b].status \in {"CANCELLED", "DELETED"}
                /\ bookings'[b].start = bookings[b].start /\ bookings'[b].end = bookings[b].end
                /\ bookings[b].status # "NONE"
  BY <1>3, RowFields DEF Cancel, WithStatus, Exists
<1>4. ASSUME NEW c \in BookingIds, DeleteBooking(c)
      PROVE  \/ bookings'[b] = bookings[b]
             \/ /\ bookings'[b].status \in {"CANCELLED", "DELETED"}
                /\ bookings'[b].start = bookings[b].start /\ bookings'[b].end = bookings[b].end
                /\ bookings[b].status # "NONE"
  BY <1>4, RowFields DEF DeleteBooking, WithStatus, Exists
<1>5. ASSUME NEW h \in Handlers, Begin(h) \/ Abort(h)
      PROVE  bookings' = bookings
  BY <1>5, BeginAccepts DEF Accept, Abort, tables
<1>6. ASSUME NEW h \in Handlers, Continue(h), ~CreateWithToken(h), ~Update(h), ~Cancel(h)
      PROVE  bookings' = bookings
  BY <1>6, ContinueBookings
<1>7. CASE Tick \/ UNCHANGED vars
  BY <1>7 DEF Tick, vars, tables
<1>8. ASSUME Admin, \A c \in BookingIds : ~DeleteBooking(c)
      PROVE  bookings' = bookings
  BY <1>8 DEF Admin, CreateInvitee, UpdateInvitee, DeleteInvitee, UpdateEvent, SetOverride
<1> QED
  BY <1>1, <1>2, <1>3, <1>4, <1>5, <1>6, <1>7, <1>8 DEF Next

\* What a step does to the table of jobs.
LEMMA JobsStep ==
    ASSUME TypeInv, [Next]_vars
    PROVE  \/ jobs' = jobs
           \/ \E h \in Handlers : CreateWithToken(h) \/ Dequeue(h)
           \/ \E h \in Handlers, r \in Rules : Notify(h, r) \/ Remind(h, r)
<1>1. ASSUME NEW h \in Handlers, Begin(h) \/ Abort(h)
      PROVE  jobs' = jobs
  BY <1>1, BeginAccepts DEF Accept, Abort, tables
<1>2. ASSUME NEW h \in Handlers, List(h) \/ Check(h) \/ Cancel(h) \/ Update(h) \/ Notified(h) \/ Reminded(h)
      PROVE  jobs' = jobs
  BY <1>2 DEF List, Check, Cancel, Update, Notified, Reminded, tables
<1>3. CASE Admin \/ Tick \/ UNCHANGED vars
  BY <1>3 DEF Admin, DeleteBooking, CreateInvitee, UpdateInvitee, DeleteInvitee, UpdateEvent,
              SetOverride, Tick, vars, tables
<1> QED
  BY <1>1, <1>2, <1>3 DEF Next, Continue

\* A request in flight was in flight before, or has just begun.
LEMMA InFlightStep ==
    ASSUME TypeInv, [Next]_vars, NEW h \in Handlers, pc'[h] # "idle"
    PROVE  \/ pc[h] # "idle" /\ req'[h] = req[h]
           \/ Begin(h)
<1> USE DEF TypeInv, TypeOK
<1>1. ASSUME NEW g \in Handlers, Begin(g) \/ Continue(g) \/ Abort(g), g # h
      PROVE  pc'[h] = pc[h] /\ req'[h] = req[h]
  BY <1>1, OtherHandlers
<1>2. CASE Abort(h)
  BY <1>2 DEF Abort, Return
<1>3. CASE List(h) \/ Check(h) \/ Notified(h) \/ Reminded(h) \/ Dequeue(h)
  BY <1>3 DEF List, Check, Notified, Reminded, Dequeue, Goto, Return
<1>4. CASE CreateWithToken(h) \/ Cancel(h) \/ Update(h)
  BY <1>4 DEF CreateWithToken, Cancel, Update, Goto, Return
<1>5. ASSUME NEW r \in Rules, Notify(h, r) \/ Remind(h, r)
      PROVE  pc[h] # "idle" /\ req'[h] = req[h]
  BY <1>5 DEF Notify, Remind
<1>6. CASE Admin \/ Tick \/ UNCHANGED vars
  BY <1>6, AdminLocals DEF locals
<1> QED
  BY <1>1, <1>2, <1>3, <1>4, <1>5, <1>6 DEF Next, Continue

-----------------------------------------------------------------------------
\* Reminders of cancelled bookings.

\* No cancel_booking is in flight together with a reschedule_booking of the same
\* booking.
CancelsApart ==
    \A g, h \in Handlers :
        req[g].kind = "cancel" /\ req[h].kind = "reschedule" => req[g].id # req[h].id

\* Only cancel_booking and reschedule_booking go on after their write, and only the
\* latter queues reminders.
AfterWriteKinds ==
    \A h \in Handlers :
        /\ pc[h] \in {"dequeue", "notify", "remind"} => req[h].kind \in {"cancel", "reschedule"}
        /\ pc[h] = "remind" => req[h].kind = "reschedule"

\* No reschedule_booking is about a cancelled booking.
RemindersLive ==
    \A h \in Handlers : pc[h] # "idle" /\ req[h].kind = "reschedule" =>
        bookings[req[h].id].status # "CANCELLED"

\* The reminders of a cancelled booking are gone, or its cancel_booking is about to
\* withdraw them.
CancelledWithdrawn ==
    \A b \in BookingIds : bookings[b].status = "CANCELLED" =>
        \/ \A i \in DOMAIN jobs : ~PendingReminder(jobs[i], b)
        \/ \E h \in Handlers : pc[h] = "dequeue" /\ req[h].id = b

\* How a request gets to the awaits after its write.
LEMMA AfterWriteStep ==
    ASSUME TypeInv, [Next]_vars, NEW h \in Handlers, pc'[h] \in {"dequeue", "notify", "remind"}
    PROVE  \/ /\ pc'[h] = pc[h] /\ req'[h] = req[h]
              /\ todo'[h] = todo[h] \/ \E r \in Rules : Notify(h, r) \/ Remind(h, r)
           \/ pc'[h] = "dequeue" /\ req'[h] = req[h] /\ Cancel(h)
           \/ pc'[h] = "dequeue" /\ req'[h] = req[h] /\ Update(h) /\ req[h].kind = "reschedule"
           \/ pc'[h] = "notify" /\ req'[h] = req[h] /\ Dequeue(h)
           \/ /\ pc'[h] = "remind" /\ req'[h] = req[h] /\ Notified(h) /\ req[h].kind # "cancel"
              /\ todo'[h] = {r \in Rules : IsReminder(r)}
<1> USE DEF TypeInv, TypeOK
<1>1. ASSUME NEW g \in Handlers, Begin(g) \/ Continue(g) \/ Abort(g), g # h
      PROVE  pc'[h] = pc[h] /\ req'[h] = req[h] /\ todo'[h] = todo[h]
  <2>1. todo'[h] = todo[h]
    <3>1. CASE Begin(g)
      BY <3>1, BeginAccepts DEF Accept
    <3>2. CASE Abort(g)
      BY <1>1, <3>2 DEF Abort, Return
    <3>3. CASE List(g) \/ Check(g) \/ Notified(g) \/ Reminded(g) \/ Dequeue(g)
      BY <1>1, <3>3 DEF List, Check, Notified, Reminded, Dequeue, Goto, Return
    <3>4. CASE CreateWithToken(g) \/ Cancel(g) \/ Update(g)
      BY <1>1, <3>4 DEF CreateWithToken, Cancel, Update, Goto, Return
    <3>5. ASSUME NEW r \in Rules, Notify(g, r) \/ Remind(g, r)
          PROVE  todo'[h] = todo[h]
      BY <1>1, <3>5 DEF Notify, Remind
    <3> QED
      BY <1>1, <3>1, <3>2, <3>3, <3>4, <3>5 DEF Continue
  <2> QED
    BY <1>1, <2>1, OtherHandlers
<1>2. CASE Begin(h)
  BY <1>2, BeginAccepts DEF Accept
<1>3. CASE Abort(h) \/ CreateWithToken(h) \/ Reminded(h) \/ List(h) \/ Check(h)
  BY <1>3 DEF Abort, CreateWithToken, Reminded, List, Check, Goto, Return
<1>4. CASE Cancel(h) \/ Update(h)
  BY <1>4 DEF Cancel, Update, Goto, Return
<1>5. CASE Dequeue(h) \/ Notified(h)
  BY <1>5 DEF Dequeue, Notified, Goto, Return
<1>6. ASSUME NEW r \in Rules, Notify(h, r) \/ Remind(h, r)
      PROVE  pc'[h] = pc[h] /\ req'[h] = req[h]
  BY <1>6 DEF Notify, Remind
<1>7. CASE Admin \/ Tick \/ UNCHANGED vars
  BY <1>7, AdminLocals DEF locals
<1> QED
  BY <1>1, <1>2, <1>3, <1>4, <1>5, <1>6, <1>7 DEF Next, Continue

\* A request at its dequeue stays there until it has withdrawn the jobs, unless it
\* fails.
LEMMA DequeueStays ==
    ASSUME TypeInv, ~Failures, [Next]_vars, NEW h \in Handlers, pc[h] = "dequeue"
    PROVE  Dequeue(h) \/ (pc'[h] = "dequeue" /\ req'[h] = req[h])
<1> USE DEF TypeInv, TypeOK
<1>1. ASSUME NEW g \in Handlers, Begin(g) \/ Continue(g) \/ Abort(g), g # h
      PROVE  pc'[h] = pc[h] /\ req'[h] = req[h]
  BY <1>1, OtherHandlers
<1>2. CASE Begin(h) \/ Abort(h)
  BY <1>2, BeginAccepts DEF Accept, Abort, Idle
<1>3. CASE Continue(h)
  BY <1>3 DEF Continue, List, Check, CreateWithToken, Cancel, Update, Notified, Reminded, Notify, Remind
<1>4. CASE Admin \/ Tick \/ UNCHANGED vars
  BY <1>4, AdminLocals DEF locals
<1> QED
  BY <1>1, <1>2, <1>3, <1>4 DEF Next

\* Who goes on after a write.
LEMMA AfterWriteKindsStep ==
    ASSUME TypeInv, AfterWriteKinds, [Next]_vars
    PROVE  AfterWriteKinds'
<1> SUFFICES ASSUME NEW h \in Handlers, pc'[h] \in {"dequeue", "notify", "remind"}
             PROVE  /\ req'[h].kind \in {"cancel", "reschedule"}
                    /\ pc'[h] = "remind" => req'[h].kind = "reschedule"
  BY DEF AfterWriteKinds
<1> QED
  BY AfterWriteStep DEF AfterWriteKinds, Cancel, Dequeue, Notified

\* While no reschedule_booking meets a cancel_booking of its booking, none is about a
\* cancelled booking.
LEMMA RemindersLiveStep ==
    ASSUME Inv, RemindersLive, CancelsApart, [Next]_vars
    PROVE  RemindersLive'
<1> SUFFICES ASSUME NEW h \in Handlers, pc'[h] # "idle", req'[h].kind = "reschedule"
             PROVE  bookings'[req'[h].id].status # "CANCELLED"
  BY DEF RemindersLive
<1>0. TypeInv /\ TypeInv'
  BY NextType DEF Inv
<1>4. req'[h].id \in BookingIds
  BY <1>0 DEF TypeInv, RequestOK
<1>1. CASE Begin(h)
  <2>1. \A at, r : Accept(h, at, r) => req'[h] = r /\ bookings' = bookings
    BY <1>0 DEF Accept, tables, TypeInv, TypeOK
  <2> QED
    BY <1>0, <1>1, <2>1, BeginAccepts
<1>2. CASE pc[h] # "idle" /\ req'[h] = req[h]
  <2>1. bookings[req[h].id].status # "CANCELLED"
    BY <1>2 DEF RemindersLive
  <2>2. ASSUME NEW g \in Handlers, Cancel(g)
        PROVE  bookings'[req[h].id].status # "CANCELLED"
    <3>1. req[g].id # req[h].id
      BY <1>2, <2>2 DEF Cancel, CancelsApart
    <3> QED
      BY <1>0, <1>4, <1>2, <2>1, <2>2, <3>1 DEF Cancel, WithStatus, TypeInv, TypeOK
  <2>3. ASSUME NEW g \in Handlers, CreateWithToken(g) \/ Update(g)
        PROVE  bookings'[req[h].id].status # "CANCELLED"
    <3>1. CASE CreateWithToken(g)
      BY <1>0, <1>4, <1>2, <2>1, <3>1, RowFields DEF CreateWithToken, TypeInv, TypeOK
    <3>2. CASE Update(g)
      BY <1>0, <1>4, <1>2, <2>1, <3>2, RowFields DEF Update, Moved, TypeInv, TypeOK
    <3> QED
      BY <2>3, <3>1, <3>2
  <2>4. ASSUME NEW c \in BookingIds, DeleteBooking(c)
        PROVE  bookings'[req[h].id].status # "CANCELLED"
    BY <1>0, <1>4, <1>2, <2>1, <2>4, RowFields DEF DeleteBooking, WithStatus, TypeInv, TypeOK
  <2>5. CASE bookings' = bookings
    BY <1>2, <2>1, <2>5
  <2>6. ASSUME NEW g \in Handlers, Begin(g) \/ Abort(g)
        PROVE  bookings' = bookings
    BY <1>0, <2>6, BeginAccepts DEF Accept, Abort, tables
  <2>7. ASSUME NEW g \in Handlers, Continue(g), ~CreateWithToken(g), ~Update(g), ~Cancel(g)
        PROVE  bookings' = bookings
    BY <2>7, ContinueBookings
  <2>8. ASSUME Admin \/ Tick \/ UNCHANGED vars, \A c \in BookingIds : ~DeleteBooking(c)
        PROVE  bookings' = bookings
    BY <2>8 DEF Admin, CreateInvitee, UpdateInvitee, DeleteInvitee, UpdateEvent, SetOverride,
                Tick, vars, tables
  <2> QED
    BY <1>2, <2>2, <2>3, <2>4, <2>5, <2>6, <2>7, <2>8 DEF Next
<1> QED
  BY <1>0, <1>1, <1>2, InFlightStep

\* The cancel_jobs_for_booking of a request leaves no reminder of its booking waiting.
LEMMA DequeueWithdraws ==
    ASSUME TypeInv, NEW h \in Handlers, Dequeue(h), NEW i \in DOMAIN jobs'
    PROVE  ~PendingReminder(jobs'[i], req[h].id)
<1>1. /\ i \in DOMAIN jobs
      /\ jobs'[i] = IF Withdraws(h, jobs[i]) THEN Withdrawn(jobs[i]) ELSE jobs[i]
  BY DEF Dequeue
<1>2. Withdrawn(jobs[i]).status = "CANCELLED"
  BY DEF Withdrawn
<1> QED
  BY <1>1, <1>2 DEF PendingReminder, Withdraws

\* Where the jobs of a new booking end up: after all others, one for each rule.
LEMMA CreatedJobAt ==
    ASSUME TypeInv, NEW h \in Handlers, CreateWithToken(h), req[h].id \in BookingIds,
           NEW i \in DOMAIN jobs', jobs' # jobs
    PROVE  \/ i \in DOMAIN jobs /\ jobs'[i] = jobs[i]
           \/ /\ i - Len(jobs) \in DOMAIN SetToSeq(todo[h])
              /\ i > Len(jobs)
              /\ SetToSeq(todo[h])[i - Len(jobs)] \in Rules
              /\ jobs'[i] = CreatedJob(req[h].id, req[h].start, SetToSeq(todo[h])[i - Len(jobs)])
<1> USE DEF TypeInv, TypeOK
<1> DEFINE new == CreatedJobs(req[h].id, req[h].start, todo[h])
           order == SetToSeq(todo[h])
<1>1. jobs' = jobs \o new
  BY DEF CreateWithToken
<1>2. req[h].start \in Int /\ todo[h] \in SUBSET Rules
  BY DEF RequestType
<1>3. new \in Seq(JobType) /\ jobs \in Seq(JobType)
  BY <1>2, CreatedJobsType
<1>4. order \in Seq(todo[h]) /\ DOMAIN new = DOMAIN order
      /\ \A k \in DOMAIN order : new[k] = CreatedJob(req[h].id, req[h].start, order[k])
  BY <1>2, SetToSeqType DEF CreatedJobs
<1>5. \A k \in DOMAIN order : order[k] \in Rules
  BY <1>2, <1>4
<1> HIDE DEF new, order
<1>6. DOMAIN jobs = 1..Len(jobs) /\ DOMAIN new = 1..Len(new) /\ Len(jobs) \in Nat /\ Len(new) \in Nat
  BY <1>3
<1>7. DOMAIN jobs' = 1..(Len(jobs) + Len(new))
  BY <1>1, <1>3
<1>8. CASE i \in DOMAIN jobs
  <2>1. (jobs \o new)[i] = jobs[i]
    BY <1>3, <1>6, <1>8
  <2> QED
    BY <1>1, <1>8, <2>1
<1>9. CASE i \notin DOMAIN jobs
  <2>1. i \in Int /\ i > Len(jobs) /\ i - Len(jobs) \in 1..Len(new)
    BY <1>6, <1>7, <1>9
  <2>2. jobs'[i] = new[i - Len(jobs)]
    BY <1>1, <1>3, <2>1
  <2> QED
    BY <1>4, <1>5, <1>6, <2>1, <2>2 DEF order
<1> QED
  BY <1>8, <1>9

\* A reminder that waits was waiting before the step, or comes from a
\* create_booking or a reschedule_booking of its booking.
LEMMA ReminderStep ==
    ASSUME Inv, [Next]_vars, NEW b \in BookingIds, NEW i \in DOMAIN jobs',
           PendingReminder(jobs'[i], b)
    PROVE  \/ i \in DOMAIN jobs /\ jobs'[i] = jobs[i]
           \/ \E h \in Handlers, r \in Rules :
              /\ IsReminder(r) /\ req[h].id = b /\ jobs'[i].at = req[h].start - Lead[r]
              /\ Remind(h, r) \/ (CreateWithToken(h) /\ bookings'[b].status = "CONFIRMED")
<1> USE DEF Inv, TypeInv, TypeOK
<1>1. ASSUME NEW h \in Handlers, Dequeue(h)
      PROVE  i \in DOMAIN jobs /\ jobs'[i] = jobs[i]
  <2>1. /\ i \in DOMAIN jobs
        /\ jobs'[i] = IF Withdraws(h, jobs[i]) THEN Withdrawn(jobs[i]) ELSE jobs[i]
    BY <1>1 DEF Dequeue
  <2>2. Withdrawn(jobs[i]).status = "CANCELLED"
    BY DEF Withdrawn
  <2> QED
    BY <2>1, <2>2 DEF PendingReminder
<1>2. ASSUME NEW j \in JobType, jobs' = Append(jobs, j), i \notin DOMAIN jobs
      PROVE  jobs'[i] = j
  <2>1. jobs \in Seq(JobType) /\ Len(jobs) \in Nat /\ DOMAIN jobs = 1..Len(jobs)
    OBVIOUS
  <2>2. DOMAIN jobs' = 1..(Len(jobs) + 1)
    BY <1>2, <2>1
  <2>3. i = Len(jobs) + 1
    BY <1>2, <2>1, <2>2
  <2> QED
    BY <1>2, <2>1, <2>3
<1>3. ASSUME NEW j \in JobType, jobs' = Append(jobs, j), i \in DOMAIN jobs
      PROVE  jobs'[i] = jobs[i]
  <2>1. jobs \in Seq(JobType) /\ Len(jobs) \in Nat /\ DOMAIN jobs = 1..Len(jobs)
    OBVIOUS
  <2> QED
    BY <1>3, <2>1
<1>4. ASSUME NEW h \in Handlers, NEW r \in Rules, Notify(h, r)
      PROVE  i \in DOMAIN jobs /\ jobs'[i] = jobs[i]
  <2> DEFINE j == Job(req[h].id, IF req[h].kind = "cancel" THEN "CANCELLATION"
                                 ELSE "RESCHEDULE", now)
  <2>1. jobs' = Append(jobs, j) /\ req[h].id \in BookingIds
    BY <1>4 DEF Notify, RequestOK
  <2>2. j \in JobType /\ ~PendingReminder(j, b)
    BY <2>1 DEF Job, JobType, JobTypes, JobStatus, PendingReminder, IsReminderJob, ReminderTriggers
  <2> HIDE DEF j
  <2> QED
    BY <1>2, <1>3, <2>1, <2>2
<1>5. ASSUME NEW h \in Handlers, NEW r \in Rules, Remind(h, r)
      PROVE  \/ i \in DOMAIN jobs /\ jobs'[i] = jobs[i]
             \/ IsReminder(r) /\ req[h].id = b /\ jobs'[i].at = req[h].start - Lead[r]
  <2> DEFINE j == Job(req[h].id, Trigger[r], req[h].start - Lead[r])
  <2>1. (jobs' = Append(jobs, j) \/ jobs' = jobs) /\ req[h].id \in BookingIds
    BY <1>5 DEF Remind, RequestOK
  <2>2. IsReminder(r)
    BY <1>5 DEF Remind, RequestOK
  <2>3. req[h].start \in Int /\ Lead[r] \in Int /\ req[h].start - Lead[r] \in Int
    BY BookingAssumption DEF RequestType
  <2>4. j \in JobType /\ j.at = req[h].start - Lead[r] /\ j.booking = req[h].id
    BY <2>1, <2>2, <2>3 DEF Job, JobType, JobTypes, JobStatus, IsReminder
  <2> HIDE DEF j
  <2> QED
    BY <1>2, <1>3, <2>1, <2>2, <2>4 DEF PendingReminder
<1>6. ASSUME NEW h \in Handlers, CreateWithToken(h), jobs' # jobs
      PROVE  \/ i \in DOMAIN jobs /\ jobs'[i] = jobs[i]
             \/ \E r \in Rules :
                /\ IsReminder(r) /\ req[h].id = b /\ jobs'[i].at = req[h].start - Lead[r]
                /\ bookings'[b].status = "CONFIRMED"
  <2>1. req[h].id \in BookingIds
    BY <1>6 DEF CreateWithToken, RequestOK
  <2>2. bookings'[req[h].id].status = "CONFIRMED"
    BY <1>6, <2>1, RowFields DEF CreateWithToken
  <2>3. CASE ~(i \in DOMAIN jobs /\ jobs'[i] = jobs[i])
    <3>1. PICK r \in Rules : jobs'[i] = CreatedJob(req[h].id, req[h].start, r)
      BY <1>6, <2>1, <2>3, CreatedJobAt
    <3>2. /\ Job(req[h].id, "REMINDER", req[h].start - Lead[r]).booking = req[h].id
          /\ Job(req[h].id, "REMINDER", req[h].start - Lead[r]).at = req[h].start - Lead[r]
          /\ Job(req[h].id, "CONFIRMATION", now).type = "CONFIRMATION"
      BY DEF Job
    <3> QED
      BY <2>2, <3>1, <3>2 DEF CreatedJob, PendingReminder, IsReminderJob, ReminderTriggers
  <2> QED
    BY <2>3
<1> QED
  BY <1>1, <1>4, <1>5, <1>6, JobsStep

\* Reminders of a cancelled booking stay withdrawn.
LEMMA WithdrawnStep ==
    ASSUME Inv, AfterWriteKinds, RemindersLive, CancelledWithdrawn, ~Failures, [Next]_vars
    PROVE  CancelledWithdrawn'
<1> SUFFICES ASSUME NEW b \in BookingIds, bookings'[b].status = "CANCELLED",
                    NEW i \in DOMAIN jobs', PendingReminder(jobs'[i], b)
             PROVE  \E h \in Handlers : pc'[h] = "dequeue" /\ req'[h].id = b
  BY DEF CancelledWithdrawn, PendingReminder
<1>0. TypeInv
  BY DEF Inv
<1>1. i \in DOMAIN jobs /\ PendingReminder(jobs[i], b)
  <2>1. ASSUME NEW h \in Handlers, NEW r \in Rules, Remind(h, r), req[h].id = b
        PROVE  FALSE
    <3>1. bookings' = bookings /\ pc[h] = "remind"
      BY <2>1 DEF Remind
    <3> QED
      BY <2>1, <3>1 DEF RemindersLive, AfterWriteKinds
  <2> QED
    BY <2>1, ReminderStep
<1>2. ASSUME bookings[b].status = "CANCELLED"
      PROVE  \E h \in Handlers : pc'[h] = "dequeue" /\ req'[h].id = b
  <2>1. PICK h \in Handlers : pc[h] = "dequeue" /\ req[h].id = b
    BY <1>1, <1>2 DEF CancelledWithdrawn
  <2>2. ~Dequeue(h)
    BY <1>0, <2>1, DequeueWithdraws
  <2> QED
    BY <1>0, <2>1, <2>2, DequeueStays
<1>3. ASSUME bookings[b].status # "CANCELLED"
      PROVE  \E h \in Handlers : pc'[h] = "dequeue" /\ req'[h].id = b
  <2>1. PICK h \in Handlers : Cancel(h) /\ req[h].id = b /\ bookings'[b] # bookings[b]
    <3>1. bookings'[b] # bookings[b]
      BY <1>3
    <3>2. ASSUME NEW h \in Handlers, CreateWithToken(h) \/ Update(h)
          PROVE  FALSE
      BY <1>0, <1>3, <3>2, RowFields DEF CreateWithToken, Update, Moved, TypeInv, TypeOK
    <3>3. ASSUME NEW c \in BookingIds, DeleteBooking(c)
          PROVE  FALSE
      BY <1>0, <1>3, <3>3, RowFields DEF DeleteBooking, WithStatus, TypeInv, TypeOK
    <3>4. ASSUME NEW g \in Handlers, Begin(g) \/ Abort(g)
          PROVE  bookings' = bookings
      BY <1>0, <3>4, BeginAccepts DEF Accept, Abort, tables
    <3>5. ASSUME NEW g \in Handlers, Continue(g), ~CreateWithToken(g), ~Update(g), ~Cancel(g)
          PROVE  bookings' = bookings
      BY <3>5, ContinueBookings
    <3>6. ASSUME Admin \/ Tick \/ UNCHANGED vars, \A c \in BookingIds : ~DeleteBooking(c)
          PROVE  bookings' = bookings
      BY <3>6 DEF Admin, CreateInvitee, UpdateInvitee, DeleteInvitee, UpdateEvent, SetOverride,
                  Tick, vars, tables
    <3>7. PICK h \in Handlers : Cancel(h)
      BY <3>1, <3>2, <3>3, <3>4, <3>5, <3>6 DEF Next
    <3>8. req[h].id = b
      BY <1>0, <3>1, <3>7 DEF Cancel, WithStatus, TypeInv, TypeOK
    <3> QED
      BY <3>1, <3>7, <3>8
  <2>2. pc'[h] = "dequeue" /\ req'[h] = req[h]
    BY <1>0, <2>1 DEF Cancel, Goto, TypeInv, TypeOK
  <2> QED
    BY <2>1, <2>2
<1> QED
  BY <1>2, <1>3

\* Once the requests about a cancelled booking have returned, none of its reminders
\* waits to be mailed: provided that no request fails between the cancellation and
\* the withdrawal of the jobs, and that no reschedule_booking of the booking is in
\* flight with the cancellation.
THEOREM CancelledStayQuiet ==
    ASSUME ~Failures
    PROVE  Spec /\ []CancelsApart => []CancelledQuiet
<1> DEFINE I == Inv /\ AfterWriteKinds /\ RemindersLive /\ CancelledWithdrawn
<1>1. Init => I
  BY InitInv DEF Init, AfterWriteKinds, RemindersLive, CancelledWithdrawn, Row
<1>2. I /\ CancelsApart /\ [Next]_vars => I'
  BY NextInv, AfterWriteKindsStep, RemindersLiveStep, WithdrawnStep DEF Inv
<1>3. I => CancelledQuiet
  BY DEF CancelledWithdrawn, CancelledQuiet, InFlight
<1> HIDE DEF I
<1> QED
  BY <1>1, <1>2, <1>3, PTL DEF Spec

-----------------------------------------------------------------------------
\* Reminders of live bookings.

\* No reschedule_booking is in flight together with another request that writes the
\* times of the same booking.
MovesApart ==
    \A g, h \in Handlers :
        g # h /\ req[g].kind = "reschedule" /\ req[h].kind \in {"reschedule", "edit"}
        => req[g].id # req[h].id

ReminderRules == {r \in Rules : IsReminder(r)}

\* The positions in the table of the reminders of b that wait to be mailed.
Waiting(b) == {i \in DOMAIN jobs : PendingReminder(jobs[i], b)}

OnTime(b) == \A i \in Waiting(b) : \E r \in ReminderRules : jobs[i].at = bookings[b].start - Lead[r]

\* A booking that is not there yet has no reminder.
NothingWaitsYet ==
    \A b \in BookingIds : bookings[b].status = "NONE" => Waiting(b) = {}

\* What the requests that move a live booking rely on: the times they write back or
\* queue reminders for are the booking's, and a reschedule_booking that has withdrawn
\* the old reminders has queued at most one for each rule it is done with.
MoversKnow ==
    \A h \in Handlers : pc[h] # "idle" /\ Live(req[h].id) =>
        /\ req[h].kind = "edit" => req[h].start = bookings[req[h].id].start
        /\ req[h].kind = "reschedule" =>
              /\ pc[h] \in {"dequeue", "notify", "remind"} =>
                    req[h].start = bookings[req[h].id].start
              /\ pc[h] = "notify" => Waiting(req[h].id) = {}
              /\ pc[h] = "remind" =>
                    Cardinality(Waiting(req[h].id)) + Cardinality(todo[h])
                        <= Cardinality(ReminderRules)

\* The reminders of a live booking are those of its start, one for each rule at most,
\* or the reschedule_booking that has moved it is about to withdraw them.
RemindersRight ==
    \A b \in BookingIds : Live(b) =>
        /\ Cardinality(Waiting(b)) <= Cardinality(ReminderRules)
        /\ \/ OnTime(b)
           \/ \E h \in Handlers : /\ pc[h] = "dequeue" /\ req[h].kind = "reschedule"
                                  /\ req[h].id = b

\* SetToSeq orders the rules without repetition.
LEMMA SetToSeqInjective ==
    ASSUME NEW S \in SUBSET Rules,
           NEW i \in DOMAIN SetToSeq(S), NEW j \in DOMAIN SetToSeq(S), SetToSeq(S)[i] = SetToSeq(S)[j]
    PROVE  i = j
<1>1. IsFiniteSet(S)
  BY BookingAssumption, FS_Subset
<1>2. /\ Cardinality(S) \in Nat
      /\ \E f \in Bijection(1..Cardinality(S), S) : TRUE
  BY <1>1, FS_CardinalityType, Zenon DEF ExistsBijection
<1>3. PICK f \in Bijection(1..Cardinality(S), S) : TRUE
  BY <1>2
<1>4. f \in [1..Cardinality(S) -> S] /\ IsInjective(f)
  BY <1>3 DEF Bijection, Injection, Surjection, IsInjective
<1>5. IsInjective(SetToSeq(S))
  BY <1>4 DEF SetToSeq
<1> QED
  BY <1>5 DEF IsInjective

\* Any set of positions in a table of jobs is finite.
LEMMA PositionsFinite ==
    ASSUME NEW table \in Seq(JobType), NEW W \in SUBSET DOMAIN table
    PROVE  IsFiniteSet(W) /\ Cardinality(W) \in Nat
<1>1. Len(table) \in Nat /\ W \in SUBSET (1..Len(table))
  OBVIOUS
<1>2. IsFiniteSet(1..Len(table))
  BY <1>1, FS_Interval
<1>3. IsFiniteSet(W)
  BY <1>1, <1>2, FS_Subset
<1> QED
  BY <1>3, FS_CardinalityType

\* The waiting reminders of a booking are finitely many, before and after a step.
LEMMA WaitingFinite ==
    ASSUME TypeInv, TypeInv', NEW b \in BookingIds
    PROVE  /\ IsFiniteSet(Waiting(b)) /\ Cardinality(Waiting(b)) \in Nat
           /\ IsFiniteSet(Waiting(b)') /\ Cardinality(Waiting(b)') \in Nat
<1>1. PICK s, t : s = jobs /\ t = jobs'
  OBVIOUS
<1>2. PICK W, V : W = Waiting(b) /\ V = Waiting(b)'
  OBVIOUS
<1>3. s \in Seq(JobType) /\ t \in Seq(JobType)
  BY <1>1 DEF TypeInv, TypeOK
<1>4. W \in SUBSET DOMAIN s /\ V \in SUBSET DOMAIN t
  BY <1>1, <1>2 DEF Waiting
<1> QED
  BY <1>2, <1>3, <1>4, PositionsFinite

\* Any set of rules is finite.
LEMMA RulesFinite ==
    ASSUME NEW R \in SUBSET Rules
    PROVE  IsFiniteSet(R) /\ Cardinality(R) \in Nat
<1>1. IsFiniteSet(R)
  BY BookingAssumption, FS_Subset
<1> QED
  BY <1>1, FS_CardinalityType

\* A reminder that begins to wait comes from the only request that can queue it:
\* the create_booking of its booking or a reschedule_booking.
LEMMA WaitingStep ==
    ASSUME Inv, AfterWriteKinds, [Next]_vars, NEW b \in BookingIds, NEW i \in Waiting(b)'
    PROVE  \/ i \in Waiting(b) /\ jobs'[i] = jobs[i]
           \/ \E h \in Handlers, r \in ReminderRules :
              /\ req[h].id = b /\ jobs'[i].at = req[h].start - Lead[r]
              /\ \/ Remind(h, r) /\ pc[h] = "remind" /\ req[h].kind = "reschedule"
                 \/ /\ CreateWithToken(h) /\ bookings[b].status = "NONE"
                    /\ bookings'[b].status = "CONFIRMED" /\ bookings'[b].start = req[h].start
<1>0. i \in DOMAIN jobs' /\ PendingReminder(jobs'[i], b)
  BY DEF Waiting
<1>1. CASE i \in DOMAIN jobs /\ jobs'[i] = jobs[i]
  BY <1>0, <1>1 DEF Waiting
<1>2. ASSUME NEW h \in Handlers, NEW r \in Rules, Remind(h, r)
      PROVE  pc[h] = "remind" /\ req[h].kind = "reschedule"
  BY <1>2 DEF Remind, AfterWriteKinds
<1>3. ASSUME NEW h \in Handlers, CreateWithToken(h), req[h].id = b, bookings'[b].status = "CONFIRMED"
      PROVE  bookings[b].status = "NONE" /\ bookings'[b].start = req[h].start
  <2>1. bookings[b].status = "NONE"
    BY <1>3 DEF CreateWithToken, Inv, RequestKnows
  <2> QED
    BY <1>3, <2>1, RowFields DEF CreateWithToken, Inv, TypeInv, TypeOK
<1> QED
  BY <1>0, <1>1, <1>2, <1>3, ReminderStep DEF ReminderRules

\* A reschedule_booking queues at most one reminder at a time.
LEMMA RemindAdds ==
    ASSUME Inv, AfterWriteKinds, [Next]_vars, NEW b \in BookingIds, NEW h \in Handlers,
           NEW r \in Rules, Remind(h, r)
    PROVE  /\ Waiting(b)' \in SUBSET (Waiting(b) \cup {Len(jobs) + 1})
           /\ Cardinality(Waiting(b)') <= Cardinality(Waiting(b)) + 1
<1>0. TypeInv /\ TypeInv'
  BY NextType DEF Inv
<1>1. Waiting(b)' \subseteq Waiting(b) \cup {Len(jobs) + 1}
  <2> SUFFICES ASSUME NEW i \in Waiting(b)', i # Len(jobs) + 1
               PROVE  i \in Waiting(b)
    OBVIOUS
  <2>1. jobs \in Seq(JobType) /\ Len(jobs) \in Nat /\ DOMAIN jobs = 1..Len(jobs)
    BY <1>0 DEF TypeInv, TypeOK
  <2> DEFINE j == Job(req[h].id, Trigger[r], req[h].start - Lead[r])
  <2>2. jobs' = Append(jobs, j) \/ jobs' = jobs
    BY DEF Remind
  <2>3. j \in JobType
    <3>1. req[h].id \in BookingIds /\ Trigger[r] \in ReminderTriggers
      BY <1>0 DEF Remind, TypeInv, RequestOK, IsReminder
    <3>2. req[h].start \in Int /\ Lead[r] \in Int /\ req[h].start - Lead[r] \in Int
      BY <1>0, BookingAssumption DEF TypeInv, TypeOK, RequestType
    <3> QED
      BY <3>1, <3>2 DEF Job, JobType, JobTypes, JobStatus
  <2> HIDE DEF j
  <2>4. DOMAIN jobs' \subseteq 1..(Len(jobs) + 1)
    BY <2>1, <2>2, <2>3
  <2>5. i \in DOMAIN jobs
    BY <2>1, <2>4 DEF Waiting
  <2>6. jobs'[i] = jobs[i]
    BY <2>1, <2>2, <2>3, <2>5
  <2> QED
    BY <2>5, <2>6 DEF Waiting
<1>2. PICK W, V, n : W = Waiting(b) /\ V = Waiting(b)' /\ n = Len(jobs) + 1
  OBVIOUS
<1>3. IsFiniteSet(W) /\ Cardinality(W) \in Nat
  BY <1>0, <1>2, WaitingFinite
<1>4. IsFiniteSet(W \cup {n}) /\ Cardinality(W \cup {n}) <= Cardinality(W) + 1
  <2>1. /\ IsFiniteSet(W \cup {n})
        /\ Cardinality(W \cup {n}) = IF n \in W THEN Cardinality(W) ELSE Cardinality(W) + 1
    BY <1>3, FS_AddElement, Zenon
  <2> QED
    BY <1>3, <2>1
<1>5. V \in SUBSET (W \cup {n})
  BY <1>1, <1>2
<1>6. IsFiniteSet(V) /\ Cardinality(V) <= Cardinality(W \cup {n})
  BY <1>4, <1>5, FS_Subset
<1>7. Cardinality(V) \in Nat /\ Cardinality(W \cup {n}) \in Nat
  BY <1>4, <1>6, FS_CardinalityType
<1>8. Cardinality(V) <= Cardinality(W) + 1
  BY <1>3, <1>4, <1>6, <1>7
<1> QED
  BY <1>1, <1>2, <1>8

\* A create_booking queues at most one reminder for each reminder rule.
LEMMA CreateAdds ==
    ASSUME Inv, [Next]_vars, NothingWaitsYet, NEW h \in Handlers, CreateWithToken(h),
           NEW b \in BookingIds, req[h].id = b
    PROVE  Cardinality(Waiting(b)') <= Cardinality(ReminderRules)
<1>0. TypeInv /\ TypeInv'
  BY NextType DEF Inv
<1>1. todo[h] \in SUBSET Rules /\ Len(jobs) \in Nat /\ bookings[b].status = "NONE"
  BY <1>0 DEF TypeInv, TypeOK, CreateWithToken, Inv, RequestKnows
<1>2. PICK W, R, order, n :
         /\ W = Waiting(b)' /\ R = ReminderRules
         /\ order = SetToSeq(todo[h]) /\ n = Len(jobs)
  OBVIOUS
<1>3. Waiting(b) = {}
  BY <1>1 DEF NothingWaitsYet
<1>4. IsFiniteSet(R) /\ Cardinality(R) \in Nat
  BY <1>2, RulesFinite DEF ReminderRules
<1>5. ASSUME jobs' = jobs
      PROVE  Cardinality(W) <= Cardinality(R)
  <2>1. W = {}
    BY <1>2, <1>3, <1>5 DEF Waiting
  <2> QED
    BY <1>4, <2>1, FS_EmptySet
<1>6. ASSUME jobs' # jobs, NEW i \in W
      PROVE  i \in Int /\ i - n \in DOMAIN order /\ order[i - n] \in R
  <2>1. i \in DOMAIN jobs' /\ PendingReminder(jobs'[i], b)
    BY <1>2, <1>6 DEF Waiting
  <2>2. i \in Int
    BY <1>0, <2>1 DEF TypeInv, TypeOK
  <2>3. ~(i \in DOMAIN jobs /\ jobs'[i] = jobs[i])
    BY <1>3, <2>1 DEF Waiting
  <2>4. /\ i - n \in DOMAIN order /\ order[i - n] \in Rules
        /\ jobs'[i] = CreatedJob(b, req[h].start, order[i - n])
    BY <1>0, <1>2, <1>6, <2>1, <2>3, CreatedJobAt
  <2>5. Job(b, "CONFIRMATION", now).type = "CONFIRMATION"
    BY DEF Job
  <2>6. IsReminder(order[i - n])
    BY <2>1, <2>4, <2>5 DEF CreatedJob, PendingReminder, IsReminderJob, ReminderTriggers
  <2> QED
    BY <1>2, <2>2, <2>4, <2>6 DEF ReminderRules
<1>7. ASSUME jobs' # jobs
      PROVE  Cardinality(W) <= Cardinality(R)
  <2> DEFINE f == [i \in W |-> order[i - n]]
  <2>1. f \in [W -> R]
    BY <1>6, <1>7
  <2>2. ASSUME NEW i \in W, NEW j \in W, f[i] = f[j]
        PROVE  i = j
    <3>1. /\ i \in Int /\ j \in Int /\ n \in Int
          /\ i - n \in DOMAIN order /\ j - n \in DOMAIN order
      BY <1>1, <1>2, <1>6, <1>7
    <3>2. order[i - n] = order[j - n]
      BY <2>2
    <3>3. i - n = j - n
      BY <1>1, <1>2, <3>1, <3>2, SetToSeqInjective
    <3> QED
      BY <3>1, <3>3
  <2>3. f \in Injection(W, R)
    BY <2>1, <2>2 DEF Injection, IsInjective
  <2> HIDE DEF f
  <2> QED
    BY <1>4, <2>3, FS_Injection
<1> QED
  BY <1>2, <1>5, <1>7

\* What a step does to the start of a booking with a row.
LEMMA StartStep ==
    ASSUME Inv, AfterWriteKinds, MoversKnow, "update" \notin Kinds, [Next]_vars,
           NEW b \in BookingIds, bookings[b].status # "NONE", Live(b)'
    PROVE  /\ Live(b)
           /\ \/ bookings'[b].start = bookings[b].start
              \/ \E h \in Handlers : /\ Update(h) /\ pc[h] = "write" /\ req[h].kind = "reschedule"
                                     /\ req[h].id = b /\ bookings'[b].start = req[h].start
<1>1. Live(b)
  BY BookingStep DEF Live
<1>2. ASSUME NEW h \in Handlers, CreateWithToken(h) \/ Update(h), pc[h] = "write", req[h].id = b,
             bookings'[b].start = req[h].start
      PROVE  \/ bookings'[b].start = bookings[b].start
             \/ Update(h) /\ pc[h] = "write" /\ req[h].kind = "reschedule"
  <2>1. req[h].kind # "create" /\ req[h].kind # "update"
    BY <1>1, <1>2 DEF Inv, RequestKnows, Live
  <2>2. Update(h) /\ req[h].kind \in {"reschedule", "edit"}
    BY <1>2, <2>1 DEF CreateWithToken, Update
  <2> QED
    BY <1>1, <1>2, <2>2 DEF MoversKnow
<1> QED
  BY <1>1, <1>2, BookingStep DEF Live

\* Before a booking is inserted no reminder waits for it.
LEMMA NothingWaitsYetStep ==
    ASSUME Inv, AfterWriteKinds, NothingWaitsYet, [Next]_vars
    PROVE  NothingWaitsYet'
<1> SUFFICES ASSUME NEW b \in BookingIds, bookings'[b].status = "NONE", NEW i \in Waiting(b)'
             PROVE  FALSE
  BY DEF NothingWaitsYet
<1>1. bookings[b].status = "NONE"
  BY BookingStep
<1>2. Waiting(b) = {}
  BY <1>1 DEF NothingWaitsYet
<1>3. ASSUME NEW h \in Handlers, pc[h] = "remind", req[h].kind = "reschedule", req[h].id = b
      PROVE  FALSE
  BY <1>1, <1>3 DEF Inv, RequestKnows
<1> QED
  BY <1>2, <1>3, WaitingStep

\* The reminders of a booking that is moved by h at most.
LEMMA AloneWaiting ==
    ASSUME Inv, AfterWriteKinds, MovesApart, [Next]_vars, NEW h \in Handlers, pc[h] # "idle",
           req[h].kind = "reschedule", NEW b \in BookingIds, req[h].id = b, NEW i \in Waiting(b)',
           ~\E r \in Rules : Remind(h, r)
    PROVE  i \in Waiting(b)
<1>1. bookings[b].status # "NONE"
  BY DEF Inv, RequestKnows
<1>2. ASSUME NEW g \in Handlers, NEW r \in ReminderRules, Remind(g, r), req[g].kind = "reschedule",
             req[g].id = b
      PROVE  FALSE
  <2>1. g # h
    BY <1>2 DEF ReminderRules
  <2> QED
    BY <1>2, <2>1 DEF MovesApart
<1> QED
  BY <1>1, <1>2, WaitingStep

\* What the requests that move a booking rely on stays true.
LEMMA MoversKnowStep ==
    ASSUME Inv, AfterWriteKinds, MoversKnow, MovesApart, "update" \notin Kinds, [Next]_vars
    PROVE  MoversKnow'
<1>0. TypeInv /\ TypeInv'
  BY NextType DEF Inv
<1> SUFFICES ASSUME NEW h \in Handlers, pc'[h] # "idle", NEW b \in BookingIds, b = req'[h].id, Live(b)'
             PROVE  /\ req'[h].kind = "edit" => req'[h].start = bookings'[b].start
                    /\ req'[h].kind = "reschedule" =>
                          /\ pc'[h] \in {"dequeue", "notify", "remind"} =>
                                req'[h].start = bookings'[b].start
                          /\ pc'[h] = "notify" => Waiting(b)' = {}
                          /\ pc'[h] = "remind" =>
                                Cardinality(Waiting(b)') + Cardinality(todo'[h])
                                    <= Cardinality(ReminderRules)
  <2>1. \A h \in Handlers : pc'[h] # "idle" => req'[h].id \in BookingIds
    BY <1>0 DEF TypeInv, RequestOK
  <2> QED
    BY <2>1 DEF MoversKnow, ReminderRules
<1>1. CASE Begin(h)
  <2>1. \A at, r : Accept(h, at, r) => pc'[h] = at /\ req'[h] = r /\ bookings' = bookings
    BY <1>0 DEF Accept, tables, TypeInv, TypeOK
  <2>2. /\ req'[h].kind = "edit" => req'[h].start = bookings'[b].start
        /\ pc'[h] \in {"list", "write"}
    BY <1>0, <1>1, <2>1, BeginAccepts DEF SlotKinds
  <2>3. pc'[h] \notin {"dequeue", "notify", "remind"}
    BY <2>2
  <2> QED
    BY <2>2, <2>3
<1>2. CASE pc[h] # "idle" /\ req'[h] = req[h] /\ req[h].kind \in {"edit", "reschedule"}
  <2>1. bookings[b].status # "NONE"
    BY <1>2 DEF Inv, RequestKnows
  <2>2. /\ Live(b)
        /\ \/ bookings'[b].start = bookings[b].start
           \/ \E g \in Handlers : /\ Update(g) /\ pc[g] = "write" /\ req[g].kind = "reschedule"
                                  /\ req[g].id = b /\ bookings'[b].start = req[g].start
    BY <2>1, StartStep
  <2>3. bookings'[b].start = bookings[b].start \/ (pc[h] = "write" /\ bookings'[b].start = req[h].start)
    BY <1>2, <2>2 DEF MovesApart
  <2>4. ASSUME req'[h].kind = "edit"
        PROVE  req'[h].start = bookings'[b].start
    BY <1>2, <2>2, <2>3, <2>4 DEF MoversKnow
  <2>5. ASSUME req'[h].kind = "reschedule", pc'[h] \in {"dequeue", "notify", "remind"}
        PROVE  req'[h].start = bookings'[b].start
    <3>1. CASE Update(h)
      <4>1. bookings'[b] = Row(bookings[b].status, req[h].start, req[h].end, bookings[b].invitee)
        BY <1>0, <1>2, <2>2, <3>1 DEF Update, Exists, Live, Moved, TypeInv, TypeOK
      <4> QED
        BY <1>2, <4>1, RowFields
    <3>2. CASE ~Update(h)
      <4>1. pc[h] \in {"dequeue", "notify", "remind"}
        BY <1>0, <1>2, <2>5, <3>2, AfterWriteStep DEF Cancel, Dequeue, Notified
      <4>2. req[h].start = bookings[b].start
        BY <1>2, <2>2, <2>5, <4>1 DEF MoversKnow
      <4>3. pc[h] # "write"
        BY <4>1
      <4> QED
        BY <1>2, <2>3, <4>2, <4>3
    <3> QED
      BY <3>1, <3>2
  <2>6. ASSUME req'[h].kind = "reschedule", pc'[h] = "notify"
        PROVE  Waiting(b)' = {}
    <3>1. CASE Dequeue(h)
      BY <1>0, <1>2, <3>1, DequeueWithdraws DEF Waiting
    <3>2. CASE ~Dequeue(h)
      <4>1. pc[h] = "notify"
        BY <1>0, <2>6, <3>2, AfterWriteStep
      <4>2. Waiting(b) = {}
        BY <1>2, <2>2, <2>6, <4>1 DEF MoversKnow
      <4>3. ~\E r \in Rules : Remind(h, r)
        BY <4>1 DEF Remind
      <4> QED
        BY <1>2, <2>6, <4>2, <4>3, AloneWaiting
    <3> QED
      BY <3>1, <3>2
  <2>7. ASSUME req'[h].kind = "reschedule", pc'[h] = "remind"
        PROVE  Cardinality(Waiting(b)') + Cardinality(todo'[h]) <= Cardinality(ReminderRules)
    <3>0. /\ IsFiniteSet(ReminderRules) /\ Cardinality(ReminderRules) \in Nat
          /\ IsFiniteSet(todo[h]) /\ Cardinality(todo[h]) \in Nat
      <4>1. todo[h] \in SUBSET Rules /\ ReminderRules \in SUBSET Rules
        BY <1>0 DEF TypeInv, TypeOK, ReminderRules
      <4> QED
        BY <4>1, RulesFinite
    <3>1. CASE Notified(h)
      <4>1. pc[h] = "notify" /\ jobs' = jobs
        BY <3>1 DEF Notified, tables
      <4>2. Waiting(b) = {}
        BY <1>2, <2>2, <2>7, <4>1 DEF MoversKnow
      <4>3. Waiting(b)' = {}
        BY <4>1, <4>2 DEF Waiting
      <4>4. todo'[h] = ReminderRules
        BY <1>0, <2>7, <4>1, AfterWriteStep DEF ReminderRules
      <4>5. Cardinality(Waiting(b)') = 0
        BY <4>3, FS_EmptySet
      <4> QED
        BY <3>0, <4>4, <4>5
    <3>2. CASE ~Notified(h)
      <4>1. pc[h] = "remind" /\ (todo'[h] = todo[h] \/ \E r \in Rules : Notify(h, r) \/ Remind(h, r))
        BY <1>0, <2>7, <3>2, AfterWriteStep
      <4>2. Cardinality(Waiting(b)) + Cardinality(todo[h]) <= Cardinality(ReminderRules)
        BY <1>2, <2>2, <2>7, <4>1 DEF MoversKnow
      <4>3. PICK W, V, T : W = Waiting(b) /\ V = Waiting(b)' /\ T = todo[h]
        OBVIOUS
      <4>4. /\ IsFiniteSet(W) /\ Cardinality(W) \in Nat /\ IsFiniteSet(T) /\ Cardinality(T) \in Nat
            /\ Cardinality(V) \in Nat
        BY <1>0, <3>0, <4>3, WaitingFinite
      <4>5. ASSUME NEW r \in Rules, Remind(h, r)
            PROVE  Cardinality(V) + Cardinality(todo'[h]) <= Cardinality(ReminderRules)
        <5>1. Cardinality(V) <= Cardinality(W) + 1
          BY <4>3, <4>5, RemindAdds
        <5>2. r \in T /\ todo'[h] = T \ {r}
          BY <1>0, <4>3, <4>5 DEF Remind, TypeInv, TypeOK
        <5>3. Cardinality(T \ {r}) = Cardinality(T) - 1
          BY <4>4, <5>2, FS_RemoveElement, Zenon
        <5> QED
          BY <3>0, <4>2, <4>3, <4>4, <5>1, <5>2, <5>3
      <4>6. ASSUME ~\E r \in Rules : Remind(h, r)
            PROVE  Cardinality(V) + Cardinality(todo'[h]) <= Cardinality(ReminderRules)
        <5>1. V \in SUBSET W
          BY <1>2, <2>7, <4>3, <4>6, AloneWaiting
        <5>2. Cardinality(V) <= Cardinality(W)
          BY <4>4, <5>1, FS_Subset
        <5>3. todo'[h] = T
          BY <4>1, <4>3, <4>6 DEF Notify
        <5> QED
          BY <3>0, <4>2, <4>3, <4>4, <5>2, <5>3
      <4> QED
        BY <4>3, <4>5, <4>6
    <3> QED
      BY <3>1, <3>2
  <2> QED
    BY <2>4, <2>5, <2>6, <2>7
<1>3. CASE pc[h] # "idle" /\ req'[h] = req[h] /\ req[h].kind \notin {"edit", "reschedule"}
  BY <1>3
<1> QED
  BY <1>0, <1>1, <1>2, <1>3, InFlightStep

\* The reminders of a live booking stay right.
LEMMA RemindersRightStep ==
    ASSUME Inv, AfterWriteKinds, NothingWaitsYet, MoversKnow, RemindersRight,
           ~Failures, "update" \notin Kinds, [Next]_vars
    PROVE  RemindersRight'
<1>0. TypeInv /\ TypeInv'
  BY NextType DEF Inv
<1> SUFFICES ASSUME NEW b \in BookingIds, Live(b)'
             PROVE  /\ Cardinality(Waiting(b)') <= Cardinality(ReminderRules)
                    /\ \/ OnTime(b)'
                       \/ \E h \in Handlers : /\ pc'[h] = "dequeue" /\ req'[h].kind = "reschedule"
                                              /\ req'[h].id = b
  BY DEF RemindersRight, ReminderRules
<1>1. PICK W, V, R : W = Waiting(b) /\ V = Waiting(b)' /\ R = ReminderRules
  OBVIOUS
<1>2. /\ IsFiniteSet(W) /\ Cardinality(W) \in Nat /\ Cardinality(V) \in Nat
      /\ Cardinality(R) \in Nat
  BY <1>0, <1>1, WaitingFinite, RulesFinite DEF ReminderRules
<1>3. CASE ~Live(b)
  <2>1. bookings[b].status = "NONE"
    BY <1>3, BookingStep DEF Live
  <2>2. PICK h \in Handlers : CreateWithToken(h) /\ req[h].id = b
    <3>1. PICK h \in Handlers : (CreateWithToken(h) \/ Update(h)) /\ req[h].id = b
      BY <1>3, <2>1, BookingStep DEF Live
    <3>2. ~Update(h)
      BY <2>1, <3>1 DEF Update, Inv, RequestKnows
    <3> QED
      BY <3>1, <3>2
  <2>3. Cardinality(Waiting(b)') <= Cardinality(ReminderRules)
    BY <2>2, CreateAdds
  <2>4. Waiting(b) = {}
    BY <2>1 DEF NothingWaitsYet
  <2>5. ASSUME NEW i \in Waiting(b)'
        PROVE  \E r \in ReminderRules : jobs'[i].at = bookings'[b].start - Lead[r]
    <3>1. ASSUME NEW g \in Handlers, pc[g] = "remind", req[g].kind = "reschedule", req[g].id = b
          PROVE  FALSE
      BY <2>1, <3>1 DEF Inv, RequestKnows
    <3> QED
      BY <2>4, <3>1, WaitingStep
  <2>6. OnTime(b)'
    BY <2>5 DEF OnTime, ReminderRules
  <2> QED
    BY <2>3, <2>6
<1>4. CASE Live(b)
  <2>1. bookings[b].status # "NONE"
    BY <1>4 DEF Live
  <2>2. Cardinality(W) <= Cardinality(R)
    BY <1>1, <1>4 DEF RemindersRight
  <2>3. Cardinality(Waiting(b)') <= Cardinality(ReminderRules)
    <3>1. ASSUME NEW h \in Handlers, NEW r \in Rules, Remind(h, r), req[h].id = b
          PROVE  Cardinality(V) <= Cardinality(R)
      <4>1. pc[h] = "remind" /\ req[h].kind = "reschedule" /\ r \in todo[h]
        BY <3>1 DEF Remind, AfterWriteKinds
      <4>2. Cardinality(W) + Cardinality(todo[h]) <= Cardinality(R)
        BY <1>1, <1>4, <3>1, <4>1 DEF MoversKnow
      <4>3. PICK T : T = todo[h]
        OBVIOUS
      <4>4. IsFiniteSet(T) /\ Cardinality(T) \in Nat
        BY <1>0, <4>3, RulesFinite DEF TypeInv, TypeOK
      <4>5. Cardinality(T) # 0
        BY <4>1, <4>3, <4>4, FS_EmptySet
      <4>6. Cardinality(V) <= Cardinality(W) + 1
        BY <1>1, <3>1, RemindAdds
      <4> QED
        BY <1>2, <4>2, <4>3, <4>4, <4>5, <4>6
    <3>2. ASSUME ~\E h \in Handlers, r \in Rules : Remind(h, r) /\ req[h].id = b
          PROVE  Cardinality(V) <= Cardinality(R)
      <4>1. V \in SUBSET W
        BY <1>1, <2>1, <3>2, WaitingStep DEF ReminderRules
      <4>2. Cardinality(V) <= Cardinality(W)
        BY <1>2, <4>1, FS_Subset
      <4> QED
        BY <1>2, <2>2, <4>2
    <3> QED
      BY <1>1, <3>1, <3>2
  <2>4. ASSUME bookings'[b].start = bookings[b].start
        PROVE  \/ OnTime(b)'
               \/ \E h \in Handlers : /\ pc'[h] = "dequeue" /\ req'[h].kind = "reschedule"
                                      /\ req'[h].id = b
    <3>1. ASSUME NEW h \in Handlers, pc[h] = "dequeue", req[h].kind = "reschedule", req[h].id = b,
                 Dequeue(h)
          PROVE  OnTime(b)'
      <4>1. Waiting(b)' = {}
        BY <1>0, <3>1, DequeueWithdraws DEF Waiting
      <4> QED
        BY <4>1 DEF OnTime
    <3>2. ASSUME NEW h \in Handlers, pc[h] = "dequeue", req[h].kind = "reschedule", req[h].id = b,
                 ~Dequeue(h)
          PROVE  pc'[h] = "dequeue" /\ req'[h] = req[h]
      BY <1>0, <3>2, DequeueStays
    <3>3. ASSUME OnTime(b), NEW i \in Waiting(b)'
          PROVE  \E r \in ReminderRules : jobs'[i].at = bookings'[b].start - Lead[r]
      <4>1. ASSUME NEW h \in Handlers, pc[h] = "remind", req[h].kind = "reschedule", req[h].id = b
            PROVE  req[h].start = bookings[b].start
        BY <1>4, <4>1 DEF MoversKnow
      <4>2. CASE i \in Waiting(b) /\ jobs'[i] = jobs[i]
        BY <2>4, <3>3, <4>2 DEF OnTime
      <4>3. ASSUME NEW h \in Handlers, NEW r \in ReminderRules, jobs'[i].at = req[h].start - Lead[r],
                   req[h].start = bookings[b].start
            PROVE  jobs'[i].at = bookings'[b].start - Lead[r]
        BY <2>4, <4>3
      <4> QED
        BY <2>1, <4>1, <4>2, <4>3, WaitingStep
    <3>4. OnTime(b) => OnTime(b)'
      BY <3>3 DEF OnTime, ReminderRules
    <3> QED
      BY <1>4, <3>1, <3>2, <3>4 DEF RemindersRight
  <2>5. ASSUME NEW h \in Handlers, Update(h), pc[h] = "write", req[h].kind = "reschedule", req[h].id = b
        PROVE  pc'[h] = "dequeue" /\ req'[h].kind = "reschedule" /\ req'[h].id = b
    BY <1>0, <1>4, <2>5 DEF Update, Exists, Live, Goto, TypeInv, TypeOK
  <2>6. \/ bookings'[b].start = bookings[b].start
        \/ \E h \in Handlers : /\ Update(h) /\ pc[h] = "write" /\ req[h].kind = "reschedule"
                               /\ req[h].id = b
    BY <2>1, StartStep
  <2> QED
    BY <2>3, <2>4, <2>5, <2>6
<1> QED
  BY <1>3, <1>4

\* Once the requests about a live booking have returned, its waiting reminders are
\* those of its present start and none is there twice: provided that no request fails
\* between its writes, that no reschedule_booking is in flight with another move of
\* the booking, and that update_booking is not used to move bookings (it leaves the
\* reminders of the old time).
THEOREM RemindersStayRight ==
    ASSUME ~Failures, "update" \notin Kinds
    PROVE  Spec /\ []MovesApart => []RemindersMatchStart
<1> DEFINE I == /\ Inv /\ AfterWriteKinds
                /\ NothingWaitsYet /\ MoversKnow /\ RemindersRight
<1>1. Init => I
  BY InitInv DEF Init, AfterWriteKinds, NothingWaitsYet, MoversKnow, RemindersRight, Waiting,
                 Row, Live
<1>2. I /\ MovesApart /\ [Next]_vars => I'
  BY NextInv, AfterWriteKindsStep, NothingWaitsYetStep, MoversKnowStep, RemindersRightStep DEF Inv
<1>3. I => RemindersMatchStart
  <2> SUFFICES ASSUME I, NEW b \in BookingIds, Live(b), ~InFlight(b)
               PROVE  /\ \A i \in DOMAIN jobs : PendingReminder(jobs[i], b) =>
                            \E r \in Rules : IsReminder(r) /\ jobs[i].at = bookings[b].start - Lead[r]
                      /\ Cardinality({i \in DOMAIN jobs : PendingReminder(jobs[i], b)})
                            <= Cardinality({r \in Rules : IsReminder(r)})
    BY DEF RemindersMatchStart
  <2>1. Cardinality(Waiting(b)) <= Cardinality(ReminderRules) /\ OnTime(b)
    BY DEF RemindersRight, InFlight
  <2> QED
    BY <2>1 DEF Waiting, OnTime, ReminderRules
<1> HIDE DEF I
<1> QED
  BY <1>1, <1>2, <1>3, PTL DEF Spec
-----------------------------------------------------------------------------
\* Sharing of invitation tokens.

\* Requests that are about to cancel a booking of i that is cancelled already.
Again(i) == {h \in Handlers : /\ pc[h] = "write" /\ req[h].kind = "cancel"
                              /\ req[h].invitee = i
                              /\ bookings[req[h].id].status = "CANCELLED"}

\* Places that the token of i has bought, will be given again for, or buys now.
Claimed(i) == Cardinality(Users(i)) + Cardinality(Again(i)) +
              (IF invitees[i] = "ACTIVE" THEN 1 ELSE 0)

Share(i) == 1 + (Cardinality(Handlers) - 1) * Cardinality(Freed(i))

\* A cancellation does not come by a listing, and a booking's invitee was created.
CancelsReadFirst == \A h \in Handlers : pc[h] \in {"list", "check"} => req[h].kind # "cancel"
InviteesKnown ==
    \A b \in BookingIds : bookings[b].invitee # None => invitees[bookings[b].invitee] # "NONE"

TokensShared == CancelsReadFirst /\ InviteesKnown /\ \A i \in Invitees : Claimed(i) <= Share(i)

\* These sets are finite.
LEMMA SharersFinite ==
    ASSUME NEW i, IsFiniteSet(Handlers)
    PROVE  /\ IsFiniteSet(Users(i)) /\ Cardinality(Users(i)) \in Nat
           /\ IsFiniteSet(Again(i)) /\ Cardinality(Again(i)) \in Nat
           /\ IsFiniteSet(Freed(i)) /\ Cardinality(Freed(i)) \in Nat
BY BookingAssumption, FS_Subset, FS_CardinalityType DEF Users, Again, Freed

\* A cancellation keeps to its write.
LEMMA CancelsReadFirstStep ==
    ASSUME TypeInv, CancelsReadFirst, [Next]_vars
    PROVE  CancelsReadFirst'
<1> SUFFICES ASSUME NEW h \in Handlers, pc'[h] \in {"list", "check"}
             PROVE  req'[h].kind # "cancel"
  BY DEF CancelsReadFirst
<1>1. CASE Begin(h)
  <2>1. \A at, r : Accept(h, at, r) => pc'[h] = at /\ req'[h] = r
    BY DEF Accept, TypeInv, TypeOK
  <2> QED
    BY <1>1, <2>1, BeginAccepts DEF SlotKinds
<1> QED
  BY <1>1, RequestStep DEF CancelsReadFirst, List

\* Only cancel_booking makes a booking CANCELLED.
LEMMA OnlyCancelCancels ==
    ASSUME Inv, [Next]_vars, \A h \in Handlers : ~Cancel(h),
           NEW b \in BookingIds, bookings'[b].status = "CANCELLED"
    PROVE  bookings[b].status = "CANCELLED"
<1>1. ASSUME NEW c \in BookingIds, DeleteBooking(c)
      PROVE  bookings[b].status = "CANCELLED"
  BY <1>1, RowFields DEF Inv, TypeInv, TypeOK, DeleteBooking, WithStatus
<1>2. ASSUME NEW h \in Handlers, CreateWithToken(h) \/ Update(h)
      PROVE  bookings[b].status = "CANCELLED"
  BY <1>2, RowFields DEF Inv, TypeInv, TypeOK, CreateWithToken, Update, Moved
<1>3. ASSUME NEW h \in Handlers, Begin(h) \/ Abort(h)
      PROVE  bookings' = bookings
  BY <1>3, BeginAccepts DEF Accept, Abort, tables, Inv
<1>4. ASSUME NEW h \in Handlers, Continue(h), ~CreateWithToken(h), ~Update(h)
      PROVE  bookings' = bookings
  BY <1>4, ContinueBookings
<1> QED
  BY <1>1, <1>2, <1>3, <1>4
     DEF Next, Admin, CreateInvitee, UpdateInvitee, DeleteInvitee, UpdateEvent, SetOverride, Tick,
         vars, tables

\* No request but a cancellation makes another cancellation a second one: it reads
\* the booking as CONFIRMED.
LEMMA AgainStep ==
    ASSUME Inv, CancelsReadFirst, [Next]_vars, \A h \in Handlers : ~Cancel(h), NEW i
    PROVE  Again(i)' \subseteq Again(i)
<1>0. TypeInv /\ TypeInv'
  BY NextType DEF Inv
<1> SUFFICES ASSUME NEW h \in Again(i)' PROVE h \in Again(i)
  OBVIOUS
<1>1. /\ h \in Handlers /\ pc'[h] = "write" /\ req'[h].kind = "cancel" /\ req'[h].invitee = i
      /\ bookings'[req'[h].id].status = "CANCELLED" /\ req'[h].id \in BookingIds
  BY <1>0 DEF Again, TypeInv, RequestOK
<1>2. bookings[req'[h].id].status = "CANCELLED"
  <2>1. PICK b \in BookingIds : b = req'[h].id
    BY <1>1
  <2> QED
    BY <1>1, <2>1, OnlyCancelCancels
<1>3. ~Begin(h)
  <2>1. \A at, r : Accept(h, at, r) => pc'[h] = at /\ req'[h] = r
    BY <1>0, <1>1 DEF Accept, TypeInv, TypeOK
  <2> QED
    BY <1>0, <1>1, <1>2, <2>1, BeginAccepts DEF SlotKinds
<1>4. ~(Check(h) /\ req'[h] = req[h])
  BY <1>1 DEF Check, CancelsReadFirst
<1> QED
  BY <1>0, <1>1, <1>2, <1>3, <1>4, RequestStep DEF Again, List

\* What a step does for the token of i: nothing that adds a claim; burn the token for
\* a new booking; end a live booking, of which the other requests may have read that
\* it is CONFIRMED; cancel a cancelled booking; or create the invitee.
LEMMA ClaimsStep ==
    ASSUME Inv, CancelsReadFirst, InviteesKnown, "ACTIVE" \notin InviteeEdits, [Next]_vars,
           NEW i \in Invitees
    PROVE  \/ /\ Users(i)' \subseteq Users(i) /\ Again(i)' \subseteq Again(i)
              /\ Freed(i) \subseteq Freed(i)'
              /\ invitees'[i] = "ACTIVE" => invitees[i] = "ACTIVE"
           \/ \E b \in BookingIds :
              /\ Users(i)' \subseteq Users(i) \cup {b} /\ Again(i)' \subseteq Again(i)
              /\ Freed(i) \subseteq Freed(i)'
              /\ invitees[i] = "ACTIVE" /\ invitees'[i] # "ACTIVE"
           \/ \E b \in BookingIds, h \in Handlers :
              /\ b \in Users(i) /\ Users(i)' \subseteq Users(i) \ {b}
              /\ Again(i)' \subseteq Again(i) \cup (Handlers \ {h})
              /\ b \notin Freed(i) /\ Freed(i)' = Freed(i) \cup {b}
           \/ \E h \in Handlers :
              /\ Users(i)' \subseteq Users(i)
              /\ h \in Again(i) /\ Again(i)' \subseteq Again(i) \ {h}
              /\ Freed(i) \subseteq Freed(i)'
           \/ Users(i)' = {} /\ Again(i)' = {}
<1> USE DEF Inv, TypeInv, TypeOK
<1>0. i # None
  BY BookingAssumption
<1>a. (\A h \in Handlers : ~Cancel(h)) => Again(i)' \subseteq Again(i)
  BY AgainStep
<1>1. ASSUME NEW h \in Handlers, CreateWithToken(h), \A g \in Handlers : ~Cancel(g)
      PROVE  \/ /\ Users(i)' \subseteq Users(i) /\ Again(i)' \subseteq Again(i)
                /\ Freed(i) \subseteq Freed(i)'
                /\ invitees'[i] = "ACTIVE" => invitees[i] = "ACTIVE"
             \/ \E b \in BookingIds :
                /\ Users(i)' \subseteq Users(i) \cup {b} /\ Again(i)' \subseteq Again(i)
                /\ Freed(i) \subseteq Freed(i)'
                /\ invitees[i] = "ACTIVE" /\ invitees'[i] # "ACTIVE"
  <2>0. req[h].id \in BookingIds /\ bookings[req[h].id].status = "NONE"
    BY <1>1 DEF CreateWithToken, RequestOK, RequestKnows
  <2>1. CASE UNCHANGED <<bookings, invitees>>
    BY <1>1, <1>a, <2>1 DEF Users, Freed, Live
  <2>2. CASE /\ ~TokenRefused(req[h].invitee)
             /\ invitees' = Burnt(req[h].invitee)
             /\ bookings' = [bookings EXCEPT ![req[h].id] =
                                 Row("CONFIRMED", req[h].start, req[h].end, req[h].invitee)]
    <3>1. \A b \in BookingIds \ {req[h].id} : bookings'[b] = bookings[b]
      BY <2>2
    <3>2. Freed(i) \subseteq Freed(i)'
      BY <2>0, <3>1 DEF Freed
    <3>3. CASE req[h].invitee = i
      <4>1. invitees[i] = "ACTIVE" /\ invitees'[i] = "USED"
        BY <1>0, <2>2, <3>3 DEF TokenRefused, Burnt
      <4>2. Users(i)' \subseteq Users(i) \cup {req[h].id}
        BY <3>1 DEF Users, Live
      <4> QED
        BY <1>1, <1>a, <2>0, <3>2, <4>1, <4>2
    <3>4. CASE req[h].invitee # i
      <4>1. invitees'[i] = invitees[i]
        BY <2>2, <3>4 DEF Burnt
      <4>2. bookings'[req[h].id].invitee # i
        BY <2>0, <2>2, <3>4, RowFields
      <4>3. Users(i)' \subseteq Users(i)
        BY <3>1, <4>2 DEF Users, Live
      <4> QED
        BY <1>1, <1>a, <3>2, <4>1, <4>3
    <3> QED
      BY <3>3, <3>4
  <2> QED
    BY <1>1, <2>1, <2>2 DEF CreateWithToken
<1>2. ASSUME NEW h \in Handlers, Cancel(h)
      PROVE  \/ /\ Users(i)' \subseteq Users(i) /\ Again(i)' \subseteq Again(i)
                /\ Freed(i) \subseteq Freed(i)'
                /\ invitees'[i] = "ACTIVE" => invitees[i] = "ACTIVE"
             \/ \E b \in BookingIds :
                /\ b \in Users(i) /\ Users(i)' \subseteq Users(i) \ {b}
                /\ Again(i)' \subseteq Again(i) \cup (Handlers \ {h})
                /\ b \notin Freed(i) /\ Freed(i)' = Freed(i) \cup {b}
             \/ /\ Users(i)' \subseteq Users(i)
                /\ h \in Again(i) /\ Again(i)' \subseteq Again(i) \ {h}
                /\ Freed(i) \subseteq Freed(i)'
  <2>0. PICK b \in BookingIds : b = req[h].id /\ req[h].invitee = bookings[b].invitee
    BY <1>2 DEF Cancel, RequestOK, RequestKnows
  <2>1. /\ pc[h] = "write" /\ req[h].kind = "cancel" /\ pc'[h] # "write"
        /\ \A g \in Handlers \ {h} : pc'[g] = pc[g] /\ req'[g] = req[g]
    BY <1>2 DEF Cancel, Goto, Return
  <2>2. CASE ~Exists(b)
    <3>1. UNCHANGED <<bookings, invitees>>
      BY <1>2, <2>0, <2>2 DEF Cancel
    <3> QED
      BY <2>1, <3>1 DEF Users, Freed, Again, Live
  <2>3. CASE Exists(b)
    <3>1. bookings' = WithStatus(b, "CANCELLED") /\ invitees' = Reactivated(bookings[b].invitee)
      BY <1>2, <2>0, <2>3 DEF Cancel
    <3>2. /\ \A c \in BookingIds \ {b} : bookings'[c] = bookings[c]
          /\ bookings'[b].status = "CANCELLED" /\ bookings'[b].invitee = bookings[b].invitee
      BY <3>1, RowFields DEF WithStatus
    <3>3. \A g \in Again(i)' : /\ g \in Handlers \ {h} /\ pc[g] = "write"
                               /\ req[g].kind = "cancel" /\ req[g].invitee = i
                               /\ req[g].id \in BookingIds
                               /\ bookings'[req[g].id].status = "CANCELLED"
                               /\ req[g].id = b => bookings[b].invitee = i
      BY <2>1 DEF Again, RequestOK, RequestKnows
    <3>4. \A g \in Again(i)' : req[g].id # b => g \in Again(i)
      BY <3>2, <3>3 DEF Again
    <3>5. CASE bookings[b].invitee # i
      <4>1. invitees'[i] = invitees[i]
        BY <3>1, <3>5 DEF Reactivated
      <4>2. Users(i)' \subseteq Users(i) /\ Freed(i) \subseteq Freed(i)'
        BY <3>2, <3>5 DEF Users, Freed, Live
      <4> QED
        BY <3>3, <3>4, <3>5, <4>1, <4>2
    <3>6. CASE bookings[b].invitee = i /\ bookings[b].status = "CONFIRMED"
      <4>1. b \in Users(i) /\ b \notin Freed(i)
        BY <3>6 DEF Users, Freed, Live
      <4>2. Users(i)' \subseteq Users(i) \ {b}
        BY <3>2 DEF Users, Live
      <4>3. Freed(i)' = Freed(i) \cup {b}
        BY <3>2, <3>6 DEF Freed
      <4> QED
        BY <3>3, <4>1, <4>2, <4>3
    <3>7. CASE bookings[b].invitee = i /\ bookings[b].status = "CANCELLED"
      <4>1. h \in Again(i)
        BY <2>0, <2>1, <3>7 DEF Again
      <4>2. Users(i)' \subseteq Users(i) /\ Freed(i) \subseteq Freed(i)'
        BY <3>2, <3>7 DEF Users, Freed, Live
      <4>3. Again(i)' \subseteq Again(i) \ {h}
        BY <3>3, <3>4, <3>7 DEF Again
      <4> QED
        BY <4>1, <4>2, <4>3
    <3> QED
      BY <2>3, <3>5, <3>6, <3>7 DEF Exists
  <2> QED
    BY <2>2, <2>3
<1>3. ASSUME NEW h \in Handlers, Update(h)
      PROVE  /\ Users(i)' \subseteq Users(i) /\ Freed(i) \subseteq Freed(i)'
             /\ invitees'[i] = invitees[i]
  <2>1. /\ \A b \in BookingIds : /\ bookings'[b].status = bookings[b].status
                                 /\ bookings'[b].invitee = bookings[b].invitee
        /\ invitees' = invitees
    BY <1>3, RowFields DEF Update, Moved
  <2> QED
    BY <2>1 DEF Users, Freed, Live
<1>4. ASSUME NEW b \in BookingIds, DeleteBooking(b)
      PROVE  /\ Users(i)' \subseteq Users(i) /\ Freed(i) \subseteq Freed(i)'
             /\ invitees'[i] = invitees[i]
  <2>1. /\ \A c \in BookingIds : bookings'[c].invitee = bookings[c].invitee
        /\ \A c \in BookingIds \ {b} : bookings'[c] = bookings[c]
        /\ bookings'[b].status = "DELETED" /\ invitees' = invitees
    BY <1>4, RowFields DEF DeleteBooking, WithStatus
  <2> QED
    BY <2>1 DEF Users, Freed, Live
<1>5. ASSUME NEW j \in Invitees, DeleteInvitee(j) \/ \E st \in InviteeEdits : UpdateInvitee(j, st)
      PROVE  /\ Users(i)' \subseteq Users(i) /\ Freed(i) \subseteq Freed(i)'
             /\ invitees'[i] = "ACTIVE" => invitees[i] = "ACTIVE"
  <2>1. bookings' = bookings
    BY <1>5 DEF DeleteInvitee, UpdateInvitee
  <2>2. invitees'[i] = "ACTIVE" => invitees[i] = "ACTIVE"
    BY <1>5 DEF DeleteInvitee, UpdateInvitee
  <2> QED
    BY <2>1, <2>2 DEF Users, Freed, Live
<1>6. ASSUME NEW j \in Invitees, CreateInvitee(j), j # i
      PROVE  /\ Users(i)' \subseteq Users(i) /\ Freed(i) \subseteq Freed(i)'
             /\ invitees'[i] = invitees[i]
  BY <1>6 DEF CreateInvitee, Users, Freed, Live
<1>7. ASSUME CreateInvitee(i)
      PROVE  Users(i)' = {} /\ Again(i)' = {}
  <2>1. /\ invitees[i] = "NONE" /\ bookings' = bookings /\ pc' = pc /\ req' = req
    BY <1>7 DEF CreateInvitee, locals
  <2>2. \A b \in BookingIds : bookings[b].invitee # i
    BY <1>0, <2>1 DEF InviteesKnown
  <2>3. \A h \in Handlers : pc[h] = "write" /\ req[h].kind = "cancel" => req[h].invitee # i
    BY <2>2 DEF RequestOK, RequestKnows
  <2> QED
    BY <2>1, <2>2, <2>3 DEF Users, Again, Live
<1>8. ASSUME UNCHANGED <<bookings, invitees>>
      PROVE  /\ Users(i)' \subseteq Users(i) /\ Freed(i) \subseteq Freed(i)'
             /\ invitees'[i] = invitees[i]
  BY <1>8 DEF Users, Freed, Live
<1>9. CASE \E h \in Handlers : Cancel(h)
  BY <1>2, <1>9
<1>10. CASE \A h \in Handlers : ~Cancel(h)
  <2>1. CASE \E h \in Handlers : CreateWithToken(h)
    BY <1>1, <1>10, <2>1
  <2>2. CASE CreateInvitee(i)
    BY <1>7, <2>2
  <2>3. CASE \/ \E h \in Handlers : Update(h)
             \/ \E b \in BookingIds : DeleteBooking(b)
             \/ \E j \in Invitees : \/ DeleteInvitee(j)
                                    \/ CreateInvitee(j) /\ j # i
                                    \/ \E st \in InviteeEdits : UpdateInvitee(j, st)
             \/ UNCHANGED <<bookings, invitees>>
    <3>1. /\ Users(i)' \subseteq Users(i) /\ Freed(i) \subseteq Freed(i)'
          /\ invitees'[i] = "ACTIVE" => invitees[i] = "ACTIVE"
      BY <1>3, <1>4, <1>5, <1>6, <1>8, <2>3
    <3> QED
      BY <1>a, <1>10, <3>1
  <2> QED
    BY <1>10, <2>1, <2>2, <2>3, OtherSteps
<1> QED
  BY <1>9, <1>10

\* Distributivity, for the provers.
LEMMA OneShareMore ==
    ASSUME NEW n \in Int, NEW f \in Nat
    PROVE  n * (f + 1) = n * f + n
OBVIOUS

\* More cancellations, more shares.
LEMMA MoreShares ==
    ASSUME NEW n \in Nat, NEW f \in Nat, NEW g \in Nat, f <= g
    PROVE  n * f \in Nat /\ n * g \in Nat /\ n * f <= n * g
OBVIOUS

\* The claims on a token keep within its shares.
LEMMA ClaimsBounded ==
    ASSUME Inv, CancelsReadFirst, InviteesKnown, "ACTIVE" \notin InviteeEdits, [Next]_vars,
           IsFiniteSet(Handlers), Handlers # {}, NEW i \in Invitees, Claimed(i) <= Share(i)
    PROVE  Claimed(i)' <= Share(i)'
<1>1. PICK n : n = Cardinality(Handlers) - 1
  OBVIOUS
<1>2. n \in Nat /\ Cardinality(Handlers) = n + 1
  BY <1>1, FS_CardinalityType, FS_EmptySet
<1>3. PICK U, V, A, B, F, G : /\ U = Users(i) /\ V = Users(i)' /\ A = Again(i) /\ B = Again(i)'
                              /\ F = Freed(i) /\ G = Freed(i)'
  OBVIOUS
<1>4. /\ IsFiniteSet(U) /\ IsFiniteSet(A) /\ IsFiniteSet(F) /\ IsFiniteSet(G)
      /\ Cardinality(U) \in Nat /\ Cardinality(A) \in Nat
      /\ Cardinality(F) \in Nat /\ Cardinality(G) \in Nat
  <2>1. G \subseteq BookingIds
    BY <1>3 DEF Freed
  <2>2. IsFiniteSet(G) /\ Cardinality(G) \in Nat
    BY <2>1, BookingAssumption, FS_Subset, FS_CardinalityType
  <2> QED
    BY <1>3, <2>2, SharersFinite
<1>5. Cardinality(V) \in Nat /\ Cardinality(B) \in Nat
  <2>1. V \subseteq BookingIds /\ B \subseteq Handlers
    BY <1>3 DEF Users, Again
  <2> QED
    BY <2>1, BookingAssumption, FS_Subset, FS_CardinalityType
<1>6. PICK x \in {0, 1}, y \in {0, 1} :
         /\ x = (IF invitees[i] = "ACTIVE" THEN 1 ELSE 0)
         /\ y = (IF invitees'[i] = "ACTIVE" THEN 1 ELSE 0)
  OBVIOUS
<1>7. /\ Claimed(i) = Cardinality(U) + Cardinality(A) + x
      /\ Claimed(i)' = Cardinality(V) + Cardinality(B) + y
      /\ Share(i) = 1 + n * Cardinality(F) /\ Share(i)' = 1 + n * Cardinality(G)
  BY <1>1, <1>3, <1>6 DEF Claimed, Share
<1>8. Cardinality(U) + Cardinality(A) + x <= 1 + n * Cardinality(F)
  BY <1>7
<1> SUFFICES Cardinality(V) + Cardinality(B) + y <= 1 + n * Cardinality(G)
  BY <1>7
<1>9. n * Cardinality(F) \in Nat /\ n * Cardinality(G) \in Nat
  BY <1>2, <1>4, MoreShares
<1>10. F \subseteq G => n * Cardinality(F) <= n * Cardinality(G)
  BY <1>2, <1>4, MoreShares, FS_Subset
<1>11. CASE V \subseteq U /\ B \subseteq A /\ F \subseteq G /\ y <= x
  <2>1. Cardinality(V) <= Cardinality(U) /\ Cardinality(B) <= Cardinality(A)
    BY <1>4, <1>11, FS_Subset
  <2> QED
    BY <1>4, <1>5, <1>8, <1>9, <1>10, <1>11, <2>1
<1>12. ASSUME NEW b, V \subseteq U \cup {b}, B \subseteq A, F \subseteq G, x = 1, y = 0
       PROVE  Cardinality(V) + Cardinality(B) + y <= 1 + n * Cardinality(G)
  <2>1. IsFiniteSet(U \cup {b}) /\ Cardinality(U \cup {b}) <= Cardinality(U) + 1
    <3>1. /\ IsFiniteSet(U \cup {b})
          /\ Cardinality(U \cup {b}) = IF b \in U THEN Cardinality(U) ELSE Cardinality(U) + 1
      BY <1>4, FS_AddElement
    <3> QED
      BY <1>4, <3>1
  <2>2. /\ Cardinality(V) <= Cardinality(U \cup {b}) /\ Cardinality(B) <= Cardinality(A)
        /\ Cardinality(U \cup {b}) \in Nat
    BY <1>4, <1>12, <2>1, FS_Subset, FS_CardinalityType
  <2> QED
    BY <1>4, <1>5, <1>8, <1>9, <1>10, <1>12, <2>1, <2>2
<1>13. ASSUME NEW b, NEW h \in Handlers, b \in U, V \subseteq U \ {b},
              B \subseteq A \cup (Handlers \ {h}), b \notin F, G = F \cup {b}
       PROVE  Cardinality(V) + Cardinality(B) + y <= 1 + n * Cardinality(G)
  <2>1. Cardinality(V) <= Cardinality(U) - 1
    <3>1. IsFiniteSet(U \ {b}) /\ Cardinality(U \ {b}) = Cardinality(U) - 1
      BY <1>4, <1>13, FS_RemoveElement
    <3> QED
      BY <1>13, <3>1, FS_Subset
  <2>2. PICK O : O = Handlers \ {h}
    OBVIOUS
  <2>3. IsFiniteSet(O) /\ Cardinality(O) = n
    <3>1. IsFiniteSet(O) /\ Cardinality(O) = Cardinality(Handlers) - 1
      BY <2>2, FS_RemoveElement
    <3> QED
      BY <1>1, <3>1
  <2>4. Cardinality(B) <= Cardinality(A) + n
    <3>1. /\ IsFiniteSet(A \cup O)
          /\ Cardinality(A \cup O) = Cardinality(A) + Cardinality(O) - Cardinality(A \cap O)
      BY <1>4, <2>3, FS_Union
    <3>2. Cardinality(A \cap O) \in Nat
      BY <1>4, FS_Intersection, FS_CardinalityType
    <3>3. Cardinality(B) <= Cardinality(A \cup O)
      BY <1>13, <2>2, <3>1, FS_Subset
    <3> QED
      BY <1>2, <1>4, <1>5, <2>3, <3>1, <3>2, <3>3
  <2>5. Cardinality(G) = Cardinality(F) + 1
    BY <1>4, <1>13, FS_AddElement
  <2>6. n * Cardinality(G) = n * Cardinality(F) + n
    BY <1>2, <1>4, <2>5, OneShareMore
  <2> QED
    BY <1>2, <1>4, <1>5, <1>8, <1>9, <2>1, <2>4, <2>6
<1>14. ASSUME NEW h \in A, V \subseteq U, B \subseteq A \ {h}, F \subseteq G
       PROVE  Cardinality(V) + Cardinality(B) + y <= 1 + n * Cardinality(G)
  <2>1. IsFiniteSet(A \ {h}) /\ Cardinality(A \ {h}) = Cardinality(A) - 1
    BY <1>4, FS_RemoveElement
  <2>2. Cardinality(B) <= Cardinality(A) - 1 /\ Cardinality(V) <= Cardinality(U)
    <3>1. Cardinality(B) <= Cardinality(A \ {h}) /\ Cardinality(V) <= Cardinality(U)
      BY <1>4, <1>14, <2>1, FS_Subset
    <3> QED
      BY <2>1, <3>1
  <2> QED
    BY <1>4, <1>5, <1>8, <1>9, <1>10, <1>14, <2>2
<1>15. CASE V = {} /\ B = {}
  <2>1. Cardinality(V) = 0 /\ Cardinality(B) = 0
    BY <1>15, FS_EmptySet
  <2> QED
    BY <1>9, <2>1
<1>16. ASSUME invitees'[i] = "ACTIVE" => invitees[i] = "ACTIVE"
       PROVE  y <= x
  BY <1>6, <1>16
<1>17. ASSUME invitees[i] = "ACTIVE", invitees'[i] # "ACTIVE"
       PROVE  x = 1 /\ y = 0
  BY <1>6, <1>17
<1> QED
  BY <1>3, <1>11, <1>12, <1>13, <1>14, <1>15, <1>16, <1>17, ClaimsStep

\* The invitee of a booking stays known.
LEMMA InviteesKnownStep ==
    ASSUME Inv, InviteesKnown, [Next]_vars
    PROVE  InviteesKnown'
<1> USE DEF Inv, TypeInv, TypeOK
<1>0. \A b \in BookingIds : bookings[b].invitee \in Invitees \cup {None}
  BY DEF BookingType
<1>1. ASSUME NEW h \in Handlers, CreateWithToken(h)
      PROVE  InviteesKnown'
  <2>0. /\ req[h].id \in BookingIds /\ req[h].invitee \in Invitees \cup {None}
    BY <1>1 DEF CreateWithToken, RequestOK, RequestType
  <2>1. CASE UNCHANGED <<bookings, invitees>>
    BY <2>1 DEF InviteesKnown
  <2>2. CASE /\ ~TokenRefused(req[h].invitee)
             /\ invitees' = Burnt(req[h].invitee)
             /\ bookings' = [bookings EXCEPT ![req[h].id] =
                                 Row("CONFIRMED", req[h].start, req[h].end, req[h].invitee)]
    <3>1. /\ \A b \in BookingIds \ {req[h].id} : bookings'[b] = bookings[b]
          /\ bookings'[req[h].id].invitee = req[h].invitee
      BY <2>0, <2>2, RowFields
    <3>2. \A i \in Invitees : invitees[i] # "NONE" => invitees'[i] # "NONE"
      BY <2>2 DEF Burnt
    <3>3. req[h].invitee # None => invitees'[req[h].invitee] # "NONE"
      BY <2>0, <2>2 DEF Burnt
    <3> QED
      BY <1>0, <3>1, <3>2, <3>3 DEF InviteesKnown
  <2> QED
    BY <1>1, <2>1, <2>2 DEF CreateWithToken
<1>2. ASSUME \A b \in BookingIds : bookings'[b].invitee = bookings[b].invitee,
             \A i \in Invitees : invitees[i] # "NONE" => invitees'[i] # "NONE"
      PROVE  InviteesKnown'
  BY <1>0, <1>2 DEF InviteesKnown
<1>3. ASSUME NEW h \in Handlers, Cancel(h) \/ Update(h)
      PROVE  /\ \A b \in BookingIds : bookings'[b].invitee = bookings[b].invitee
             /\ \A i \in Invitees : invitees[i] # "NONE" => invitees'[i] # "NONE"
  BY <1>3, RowFields DEF Cancel, Update, WithStatus, Moved, Reactivated
<1>4. ASSUME NEW b \in BookingIds, DeleteBooking(b)
      PROVE  /\ \A c \in BookingIds : bookings'[c].invitee = bookings[c].invitee
             /\ \A i \in Invitees : invitees[i] # "NONE" => invitees'[i] # "NONE"
  BY <1>4, RowFields DEF DeleteBooking, WithStatus
<1>5. ASSUME NEW j \in Invitees, \/ CreateInvitee(j) \/ DeleteInvitee(j)
                                 \/ \E st \in InviteeEdits : UpdateInvitee(j, st)
      PROVE  /\ \A b \in BookingIds : bookings'[b].invitee = bookings[b].invitee
             /\ \A i \in Invitees : invitees[i] # "NONE" => invitees'[i] # "NONE"
  BY <1>5, BookingAssumption DEF CreateInvitee, DeleteInvitee, UpdateInvitee
<1>6. CASE UNCHANGED <<bookings, invitees>>
  BY <1>6 DEF InviteesKnown
<1> QED
  BY <1>1, <1>2, <1>3, <1>4, <1>5, <1>6, OtherSteps

\* With any number of requests at once, failures included, the live bookings of a token
\* number at most one, and one for each further handler per booking of the token that
\* was cancelled or deleted: create_with_token never lets two requests through that
\* read the same ACTIVE token, and each freed place gives the token away again once
\* for every other cancel_booking that had read the booking as CONFIRMED. (No admin
\* makes the token ACTIVE by hand.)
THEOREM TokensSharedByRacesOnly ==
    ASSUME IsFiniteSet(Handlers), Handlers # {}, "ACTIVE" \notin InviteeEdits
    PROVE  Spec => []TokenSharedByRacesOnly
<1>1. Init => Inv /\ TokensShared
  <2> SUFFICES ASSUME Init PROVE TokensShared
    BY InitInv
  <2>1. CancelsReadFirst /\ InviteesKnown
    BY RowFields DEF Init, CancelsReadFirst, InviteesKnown
  <2>2. ASSUME NEW i \in Invitees
        PROVE  Claimed(i) <= Share(i)
    <3>1. Users(i) = {} /\ Again(i) = {} /\ Freed(i) = {} /\ invitees[i] # "ACTIVE"
      BY RowFields DEF Init, Users, Again, Freed, Live
    <3>2. Cardinality(Handlers) - 1 \in Int
      BY FS_CardinalityType
    <3>3. Claimed(i) = 0 /\ Share(i) = 1
      BY <3>1, <3>2, FS_EmptySet DEF Claimed, Share
    <3> QED
      BY <3>3
  <2> QED
    BY <2>1, <2>2 DEF TokensShared
<1>2. Inv /\ TokensShared /\ [Next]_vars => Inv' /\ TokensShared'
  BY NextInv, CancelsReadFirstStep, InviteesKnownStep, ClaimsBounded DEF TokensShared, Inv
<1>3. TokensShared => TokenSharedByRacesOnly
  <2> SUFFICES ASSUME TokensShared, NEW i \in Invitees
               PROVE  Cardinality(Users(i)) <=
                         1 + (Cardinality(Handlers) - 1) * Cardinality(Freed(i))
    BY DEF TokenSharedByRacesOnly
  <2>1. PICK x \in Nat : x = (IF invitees[i] = "ACTIVE" THEN 1 ELSE 0)
    OBVIOUS
  <2>2. Cardinality(Users(i)) + Cardinality(Again(i)) + x <= Share(i)
    BY <2>1 DEF TokensShared, Claimed
  <2>3. Share(i) \in Int
    <3>1. PICK n : n = Cardinality(Handlers) - 1
      OBVIOUS
    <3>2. n \in Nat
      BY <3>1, FS_CardinalityType, FS_EmptySet
    <3>3. n * Cardinality(Freed(i)) \in Nat
      BY <3>2, SharersFinite, MoreShares
    <3> QED
      BY <3>1, <3>3 DEF Share
  <2>4. Cardinality(Users(i)) \in Nat /\ Cardinality(Again(i)) \in Nat
    BY SharersFinite
  <2>5. Cardinality(Users(i)) <= Share(i)
    BY <2>2, <2>3, <2>4
  <2> QED
    BY <2>5 DEF Share
<1> QED
  BY <1>1, <1>2, <1>3, PTL DEF Spec
=============================================================================
