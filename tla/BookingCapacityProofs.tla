------------------------ MODULE BookingCapacityProofs ------------------------
(***************************************************************************)
(* What the check of create_booking, reschedule_booking and update_booking *)
(* is worth although the write is a statement of its own: with one booking *)
(* request at a time every placement keeps to the capacity that it read,   *)
(* whatever an admin does between its statements, and with any number of   *)
(* requests no minute holds more than the capacity and one booking for     *)
(* each further request.                                                   *)
(***************************************************************************)
EXTENDS BookingProofs, AvailabilityProofs

\* A booking, a row that was listed or a request occupies minute m.
Covers(x, m) == x.start <= m /\ m < x.end

-----------------------------------------------------------------------------
\* The listing and the requested slot.

\* list_by_range returns a finite set of rows.
LEMMA TakenFinite == IsFiniteSet(Taken)
<1> DEFINE L == {c \in BookingIds : Live(c)}
           row(b) == [id |-> b, start |-> bookings[b].start, end |-> bookings[b].end]
           f == [b \in L |-> row(b)]
<1>1. IsFiniteSet(L)
  BY BookingAssumption, FS_Subset
<1>2. f \in Surjection(L, Taken)
  BY DEF Surjection, Taken
<1> HIDE DEF f
<1> QED
  BY <1>1, <1>2, FS_Surjection

\* The live bookings of a minute are finitely many.
LEMMA LiveAtFinite ==
    ASSUME NEW m
    PROVE  IsFiniteSet(LiveAt(m)) /\ Cardinality(LiveAt(m)) \in Nat
BY BookingAssumption, FS_Subset, FS_CardinalityType DEF LiveAt

\* On a date without a clock change, list_by_range returns every live booking of a
\* minute of the date.
LEMMA ListingComplete ==
    ASSUME TypeInv, Zone.shift = 0, NEW m \in 0..DayLen-1
    PROVE  LET listed == {t \in {u \in Taken : InDay(u, Zone)} : Covers(t, m)}
           IN  /\ IsFiniteSet(listed) /\ Cardinality(listed) \in Nat
               /\ Cardinality(LiveAt(m)) <= Cardinality(listed)
<1> DEFINE listed == {t \in {u \in Taken : InDay(u, Zone)} : Covers(t, m)}
           f == [b \in LiveAt(m) |->
                    [id |-> b, start |-> bookings[b].start, end |-> bookings[b].end]]
<1>1. IsFiniteSet(listed) /\ Cardinality(listed) \in Nat
  BY TakenFinite, FS_Subset, FS_CardinalityType
<1>2. \A b \in BookingIds : bookings[b].start \in Int /\ bookings[b].end \in Int
  BY DEF TypeInv, TypeOK, BookingType
<1>3. f \in [LiveAt(m) -> listed]
  <2> SUFFICES ASSUME NEW b \in LiveAt(m) PROVE f[b] \in listed
    OBVIOUS
  <2> DEFINE row == [id |-> b, start |-> bookings[b].start, end |-> bookings[b].end]
  <2>1. b \in BookingIds /\ Live(b) /\ bookings[b].start <= m /\ m < bookings[b].end
    BY DEF LiveAt
  <2>2. row \in Taken
    BY <2>1 DEF Taken
  <2>3. InDay(row, Zone)
    BY <1>2, <2>1, DayAssumption, BookingAssumption DEF InDay, DayElapsed, ZoneType
  <2>4. Covers(row, m)
    BY <2>1 DEF Covers
  <2> QED
    BY <2>2, <2>3, <2>4
<1>4. \A x, y \in LiveAt(m) : f[x] = f[y] => x = y
  OBVIOUS
<1>5. f \in Injection(LiveAt(m), listed)
  BY <1>3, <1>4 DEF Injection, IsInjective
<1> HIDE DEF f, listed
<1>6. Cardinality(LiveAt(m)) <= Cardinality(listed)
  BY <1>1, <1>5, FS_Injection
<1> QED
  BY <1>1, <1>6 DEF listed

\* A request up to its write has the times of a slot that was asked for, and what
\* it has listed is finite.
RequestTimes ==
    \A h \in Handlers :
        /\ pc[h] \in {"list", "check"} => req[h].kind \in SlotKinds
        /\ pc[h] \in {"list", "check", "write"} /\ req[h].kind \in SlotKinds =>
              /\ req[h].start \in Starts
              /\ req[h].end = req[h].start + req[h].config.duration
        /\ pc[h] = "check" => IsFiniteSet(seen[h])

\* The reads set these times, and no later step changes them.
LEMMA RequestTimesStep ==
    ASSUME TypeInv, RequestTimes, [Next]_vars
    PROVE  RequestTimes'
<1> SUFFICES ASSUME NEW h \in Handlers, pc'[h] \in {"list", "check", "write"}
             PROVE  /\ pc'[h] \in {"list", "check"} => req'[h].kind \in SlotKinds
                    /\ req'[h].kind \in SlotKinds =>
                          /\ req'[h].start \in Starts
                          /\ req'[h].end = req'[h].start + req'[h].config.duration
                    /\ pc'[h] = "check" => IsFiniteSet(seen'[h])
  BY DEF RequestTimes
<1>1. CASE Begin(h)
  <2>1. PICK at \in {"list", "write"}, r \in RequestType :
           /\ Accept(h, at, r)
           /\ \/ /\ at = "list" /\ r.kind \in SlotKinds /\ r.config = event
                 /\ r.start \in Starts /\ r.end = r.start + event.duration
              \/ at = "write" /\ r.kind \in {"cancel", "edit"}
    BY <1>1, BeginAccepts
  <2>2. pc'[h] = at /\ req'[h] = r
    BY <2>1 DEF Accept, TypeInv, TypeOK
  <2> QED
    BY <2>1, <2>2 DEF SlotKinds
<1>2. CASE pc'[h] = pc[h] /\ req'[h] = req[h] /\ seen'[h] = seen[h]
  BY <1>2 DEF RequestTimes
<1>3. CASE pc'[h] = "check" /\ req'[h] = req[h] /\ List(h)
  <2>1. pc[h] = "list" /\ seen'[h] = {t \in Taken : InDay(t, Zone)}
    BY <1>3 DEF List, TypeInv, TypeOK
  <2>2. IsFiniteSet(seen'[h])
    BY <2>1, TakenFinite, FS_Subset
  <2> QED
    BY <1>3, <2>1, <2>2 DEF RequestTimes
<1>4. CASE pc'[h] = "write" /\ req'[h] = req[h] /\ Check(h)
  BY <1>4 DEF Check, RequestTimes
<1> QED
  BY <1>1, <1>2, <1>3, <1>4, RequestStep

\* A slot that calculate_slots offers to a request: it comes from a window of the
\* configuration the request has read, and what the request has seen leaves a free
\* place in every minute of it, except that the last of the date is not looked at.
LEMMA OfferedSlot ==
    ASSUME TypeInv, RequestTimes, Zone.shift = 0,
           NEW h \in Handlers, pc[h] = "check", SlotOffered(h),
           \A w \in Windows(req[h].config, override) :
               WindowCapacity(req[h].config, override, w) <= CountMax
    PROVE  \E w \in Windows(req[h].config, override) :
              /\ req[h].start \in Cursors(req[h].config, w)
              /\ Elapsed(Zone, req[h].start) = req[h].start
              /\ req[h].start >= 0 /\ req[h].end <= DayLen
              /\ WindowCapacity(req[h].config, override, w) \in Int
              /\ \A m \in req[h].start..(req[h].end - 1) : m # DayLen - 1 =>
                    Cardinality({t \in seen[h] : Covers(t, m)})
                        < WindowCapacity(req[h].config, override, w)
<1> DEFINE c == req[h].config
           s == req[h].start
<1>0. /\ c \in EventType /\ override \in OverrideType \cup {NoOverride} /\ Zone \in ZoneType
      /\ req[h].end = s + c.duration /\ c.duration \in Nat
      /\ IsFiniteSet(seen[h]) /\ \A b \in seen[h] : b.start \in Int /\ b.end \in Int
  <2>1. c \in EventConfigs /\ seen[h] \in SUBSET Snapshot
    BY DEF TypeInv, TypeOK, RequestType
  <2>2. c \in EventType
    BY <2>1, BookingAssumption
  <2> QED
    BY <2>1, <2>2, BookingAssumption DEF TypeInv, TypeOK, Snapshot, RequestTimes, EventType
<1> HIDE DEF c
<1>1. PICK w \in Windows(c, override) : \E d \in Cursors(c, w) :
         Elapsed(Zone, d) = s /\ CursorOffered(c, override, seen[h], Zone, now, w, d)
  BY SlotHasCursor DEF SlotOffered, c
<1>2. PICK d \in Cursors(c, w) :
         Elapsed(Zone, d) = s /\ CursorOffered(c, override, seen[h], Zone, now, w, d)
  BY <1>1
<1>3. d \in Nat /\ d + c.duration <= DayLen /\ WindowCapacity(c, override, w) \in Int
  BY <1>0, CursorInDay, WindowTypes
<1>4. \A x \in Int : Elapsed(Zone, x) = x
  BY <1>0 DEF Elapsed, ZoneType
<1>5. d = s
  BY <1>2, <1>3, <1>4
<1>6. ASSUME NEW m \in d..(d + c.duration - 1), m # DayLen - 1
      PROVE  Cardinality({t \in seen[h] : Covers(t, m)}) < WindowCapacity(c, override, w)
  <2>1. WindowCapacity(c, override, w) <= CountMax
    BY DEF c
  <2>2. Cardinality({b \in seen[h] : b.start <= m /\ m < b.end}) < WindowCapacity(c, override, w)
    BY <1>0, <1>2, <1>6, <2>1, OfferedCursorHasRoom
  <2> QED
    BY <2>2 DEF Covers
<1> QED
  BY <1>0, <1>2, <1>3, <1>4, <1>5, <1>6 DEF c

-----------------------------------------------------------------------------
\* Overbooking is limited to races.

\* An event without overrides and window capacities, whose capacity nobody changes
\* and the counters can hold, on a date without a clock change, for which nobody
\* asks for a slot in the last minute of the date (which is not counted).
PlainEvent ==
    /\ IsFiniteSet(Handlers)
    /\ Zone.shift = 0
    /\ OverrideConfigs = {}
    /\ \A e, f \in EventConfigs : e.cap = f.cap
    /\ \A e \in EventConfigs : e.cap <= CountMax /\ \A w \in e.windows : w.cap = NoCap
    /\ \A e \in EventConfigs : \A w \in e.windows : \A c \in Cursors(e, w) \cap Starts :
          c + e.duration < DayLen

\* Request h may still place a booking in minute m: it is about to write, or it is
\* about to calculate the slots from a listing with a free place.
Claims(h, m) ==
    /\ Covers(req[h], m)
    /\ bookings[req[h].id].status \in {"NONE", "CONFIRMED"}
    /\ \/ pc[h] = "write" /\ req[h].kind \in PlaceKinds
       \/ pc[h] = "check" /\ Cardinality({t \in seen[h] : Covers(t, m)}) < event.cap

\* The bookings that are in minute m, or may get there without another listing.
Potential(m) ==
    {b \in BookingIds : b \in LiveAt(m) \/ \E h \in Handlers : req[h].id = b /\ Claims(h, m)}

\* Only the first of several stale listings had a place to give.
RacesBounded ==
    \A m \in 0..DayLen-1 :
        \/ Potential(m) = {}
        \/ Cardinality(Potential(m)) <= event.cap + Cardinality(Handlers) - 1

\* Bookings, and requests about to write them, stay within the date.
WithinDay ==
    /\ \A b \in BookingIds : bookings[b].status # "NONE" =>
          bookings[b].start >= 0 /\ bookings[b].end < DayLen
    /\ \A h \in Handlers : pc[h] = "write" /\ req[h].kind \in PlaceKinds =>
          req[h].start >= 0 /\ req[h].end < DayLen

\* What the event and the override are for a plain event.
LEMMA PlainConfig ==
    ASSUME TypeInv, PlainEvent, NEW h \in Handlers
    PROVE  /\ override = NoOverride /\ req[h].config \in EventConfigs
           /\ Windows(req[h].config, override) = req[h].config.windows
           /\ \A w \in Windows(req[h].config, override) :
                 /\ WindowCapacity(req[h].config, override, w) = event.cap
                 /\ WindowCapacity(req[h].config, override, w) <= CountMax
<1>1. override = NoOverride /\ req[h].config \in EventConfigs /\ event \in EventConfigs
  BY DEF TypeInv, TypeOK, PlainEvent, RequestType
<1>2. req[h].config.cap = event.cap /\ event.cap <= CountMax
  BY <1>1 DEF PlainEvent
<1> QED
  BY <1>1, <1>2 DEF PlainEvent, Windows, WindowCapacity, DayCapacity

\* The check of a plain event: the request keeps to the date, and has seen a free
\* place in every minute.
LEMMA PlainOffered ==
    ASSUME TypeInv, RequestTimes, PlainEvent, NEW h \in Handlers, pc[h] = "check", SlotOffered(h)
    PROVE  /\ req[h].start >= 0 /\ req[h].end < DayLen
           /\ \A m \in 0..DayLen-1 : Covers(req[h], m) =>
                 Cardinality({t \in seen[h] : Covers(t, m)}) < event.cap
<1>0. Zone.shift = 0
  BY DEF PlainEvent
<1>1. PICK w \in Windows(req[h].config, override) :
         /\ req[h].start \in Cursors(req[h].config, w)
         /\ req[h].start >= 0 /\ req[h].end <= DayLen
         /\ \A m \in req[h].start..(req[h].end - 1) : m # DayLen - 1 =>
               Cardinality({t \in seen[h] : Covers(t, m)})
                   < WindowCapacity(req[h].config, override, w)
  BY <1>0, OfferedSlot, PlainConfig
<1>2. req[h].start \in Starts /\ req[h].end = req[h].start + req[h].config.duration
  BY DEF RequestTimes
<1>3. req[h].end < DayLen
  BY <1>1, <1>2, PlainConfig DEF PlainEvent
<1>4. req[h].start \in Int /\ req[h].end \in Int
  BY DEF TypeInv, TypeOK, RequestType
<1>5. WindowCapacity(req[h].config, override, w) = event.cap
  BY PlainConfig
<1>6. ASSUME NEW m \in 0..DayLen-1, Covers(req[h], m)
      PROVE  Cardinality({t \in seen[h] : Covers(t, m)}) < event.cap
  <2>1. m \in req[h].start..(req[h].end - 1) /\ m # DayLen - 1
    BY <1>3, <1>4, <1>6, DayAssumption DEF Covers
  <2> QED
    BY <1>1, <1>5, <2>1
<1> QED
  BY <1>1, <1>3, <1>6

\* Every step keeps bookings and writes within the date.
LEMMA WithinDayStep ==
    ASSUME Inv, RequestTimes, WithinDay, PlainEvent, [Next]_vars
    PROVE  WithinDay'
<1>1. ASSUME NEW b \in BookingIds, bookings'[b].status # "NONE"
      PROVE  bookings'[b].start >= 0 /\ bookings'[b].end < DayLen
  BY <1>1, BookingStep DEF WithinDay
<1>2. ASSUME NEW h \in Handlers, pc'[h] = "write", req'[h].kind \in PlaceKinds
      PROVE  req'[h].start >= 0 /\ req'[h].end < DayLen
  <2>0. TypeInv
    BY DEF Inv
  <2>1. CASE Begin(h)
    <3>1. \A at, r : Accept(h, at, r) => pc'[h] = at /\ req'[h] = r
      BY <2>0 DEF Accept, TypeInv, TypeOK
    <3>2. /\ req'[h].kind = "edit" /\ req'[h].id \in BookingIds /\ Exists(req'[h].id)
          /\ req'[h].start = bookings[req'[h].id].start /\ req'[h].end = bookings[req'[h].id].end
      BY <1>2, <2>0, <2>1, <3>1, BeginAccepts DEF PlaceKinds, SlotKinds
    <3> QED
      BY <3>2 DEF WithinDay, Exists
  <2>2. CASE pc'[h] = pc[h] /\ req'[h] = req[h]
    BY <1>2, <2>2 DEF WithinDay
  <2>3. CASE req'[h] = req[h] /\ Check(h) /\ SlotOffered(h)
    BY <2>0, <2>3, PlainOffered DEF Check
  <2> QED
    BY <1>2, <2>0, <2>1, <2>2, <2>3, RequestStep
<1> QED
  BY <1>1, <1>2 DEF WithinDay

RacesInv == Inv /\ RequestTimes /\ WithinDay /\ RacesBounded

\* A booking that gets into a minute was there or was claimed.
LEMMA LiveStep ==
    ASSUME Inv, [Next]_vars, NEW m \in Int, NEW b \in LiveAt(m)'
    PROVE  b \in Potential(m)
<1>1. /\ b \in BookingIds /\ bookings'[b].status = "CONFIRMED"
      /\ bookings'[b].start <= m /\ m < bookings'[b].end
  BY DEF LiveAt, Live
<1>2. CASE bookings'[b] = bookings[b]
  BY <1>1, <1>2 DEF Potential, LiveAt, Live
<1>3. ASSUME NEW h \in Handlers, pc[h] = "write", req[h].kind \in PlaceKinds, req[h].id = b,
             bookings'[b].start = req[h].start, bookings'[b].end = req[h].end,
             \/ bookings[b].status = "NONE" \/ bookings'[b].status = bookings[b].status
      PROVE  b \in Potential(m)
  BY <1>1, <1>3 DEF Potential, Claims, Covers
<1> QED
  BY <1>1, <1>2, <1>3, BookingStep

\* A claim was there before, or is that of a live booking, or comes from a listing
\* with a free place.
LEMMA ClaimStep ==
    ASSUME Inv, RequestTimes, PlainEvent, [Next]_vars, NEW m \in 0..DayLen-1, NEW h \in Handlers,
           Claims(h, m)'
    PROVE  \/ req'[h].id \in Potential(m)
           \/ List(h) /\ Cardinality(LiveAt(m)) < event.cap
<1>0. TypeInv /\ TypeInv'
  BY NextType DEF Inv
<1>c. event'.cap = event.cap /\ event.cap \in Int
  BY <1>0, BookingAssumption DEF TypeInv, TypeOK, PlainEvent, EventType
<1>1. /\ pc'[h] \in {"check", "write"} /\ req'[h].id \in BookingIds
      /\ bookings'[req'[h].id].status \in {"NONE", "CONFIRMED"} /\ Covers(req'[h], m)
      /\ pc'[h] = "write" => req'[h].kind \in PlaceKinds
      /\ pc'[h] = "check" => Cardinality({t \in seen'[h] : Covers(t, m)}) < event.cap
  BY <1>0, <1>c DEF Claims, TypeInv, RequestOK, Covers
<1>2. bookings[req'[h].id].status \in {"NONE", "CONFIRMED"}
  <2>1. PICK b \in BookingIds : b = req'[h].id
    BY <1>1
  <2> QED
    BY <1>1, <2>1, BookingStep
<1>3. CASE pc'[h] = pc[h] /\ req'[h] = req[h] /\ seen'[h] = seen[h]
  <2>1. Claims(h, m)
    BY <1>1, <1>2, <1>3 DEF Claims
  <2> QED
    BY <1>1, <1>3, <2>1 DEF Potential
<1>4. CASE Begin(h)
  <2>1. \A at, r : Accept(h, at, r) => pc'[h] = at /\ req'[h] = r
    BY <1>0 DEF Accept, TypeInv, TypeOK
  <2>2. /\ Exists(req'[h].id) /\ req'[h].start = bookings[req'[h].id].start
        /\ req'[h].end = bookings[req'[h].id].end
    BY <1>0, <1>1, <1>4, <2>1, BeginAccepts DEF PlaceKinds, SlotKinds
  <2> QED
    BY <1>1, <1>2, <2>2 DEF Potential, LiveAt, Live, Exists, Covers
<1>5. CASE List(h)
  <2>1. seen'[h] = {u \in Taken : InDay(u, Zone)} /\ pc'[h] = "check"
    BY <1>0, <1>5 DEF List, TypeInv, TypeOK
  <2>2. PICK S, T : S = {t \in {u \in Taken : InDay(u, Zone)} : Covers(t, m)} /\ T = LiveAt(m)
    OBVIOUS
  <2>3. Cardinality(S) < event.cap
    BY <1>1, <2>1, <2>2
  <2>4. Cardinality(S) \in Nat /\ Cardinality(T) <= Cardinality(S) /\ Cardinality(T) \in Nat
    BY <1>0, <2>2, ListingComplete, LiveAtFinite DEF PlainEvent
  <2> QED
    BY <1>c, <1>5, <2>2, <2>3, <2>4
<1>6. CASE req'[h] = req[h] /\ Check(h) /\ SlotOffered(h)
  <2>1. Cardinality({t \in seen[h] : Covers(t, m)}) < event.cap /\ pc[h] = "check"
    BY <1>0, <1>1, <1>6, PlainOffered DEF Check
  <2>2. Claims(h, m)
    BY <1>1, <1>2, <1>6, <2>1 DEF Claims
  <2> QED
    BY <1>1, <1>6, <2>2 DEF Potential
<1> QED
  BY <1>0, <1>1, <1>3, <1>4, <1>5, <1>6, RequestStep

\* Every step keeps the bound: a listing that shows a free place finds fewer
\* bookings than the capacity, and every other step adds nothing.
LEMMA RacesStep ==
    ASSUME RacesInv, PlainEvent, [Next]_vars
    PROVE  RacesInv'
<1>0. Inv /\ RequestTimes /\ WithinDay /\ Inv' /\ TypeInv /\ TypeInv'
  BY NextInv DEF RacesInv, Inv
<1>1. RequestTimes' /\ WithinDay'
  BY <1>0, RequestTimesStep, WithinDayStep
<1>2. RacesBounded'
  <2>c. event'.cap = event.cap /\ event.cap \in Int /\ Cardinality(Handlers) \in Nat
    BY <1>0, BookingAssumption, FS_CardinalityType DEF TypeInv, TypeOK, PlainEvent, EventType
  <2> SUFFICES ASSUME NEW m \in 0..DayLen-1
               PROVE  \/ Potential(m)' = {}
                      \/ Cardinality(Potential(m)') <= event.cap + Cardinality(Handlers) - 1
    BY <2>c DEF RacesBounded
  <2>1. PICK P, Q, L : P = Potential(m) /\ Q = Potential(m)' /\ L = LiveAt(m)
    OBVIOUS
  <2>2. P = {} \/ Cardinality(P) <= event.cap + Cardinality(Handlers) - 1
    BY <2>1 DEF RacesInv, RacesBounded
  <2>3. IsFiniteSet(P) /\ IsFiniteSet(Q) /\ IsFiniteSet(L) /\ Cardinality(L) \in Nat
    BY <2>1, BookingAssumption, FS_Subset, LiveAtFinite DEF Potential
  <2>4. CASE \E h \in Handlers : List(h) /\ Cardinality(L) < event.cap
    <3>1. bookings' = bookings
      BY <2>4 DEF List, tables
    <3>2. LiveAt(m)' = L
      BY <2>1, <3>1 DEF LiveAt, Live
    <3>3. PICK R : R = {req'[h].id : h \in Handlers}
      OBVIOUS
    <3>4. IsFiniteSet(R) /\ Cardinality(R) <= Cardinality(Handlers) /\ Cardinality(R) \in Nat
      <4> DEFINE f == [h \in Handlers |-> req'[h].id]
      <4>1. f \in Surjection(Handlers, R)
        BY <3>3 DEF Surjection
      <4> HIDE DEF f
      <4> QED
        BY <4>1, FS_Surjection, FS_CardinalityType DEF PlainEvent
    <3>5. Q \subseteq L \cup R
      BY <2>1, <3>2, <3>3 DEF Potential
    <3>6. IsFiniteSet(L \cup R) /\ Cardinality(L \cup R) <= Cardinality(L) + Cardinality(R)
      <4>1. /\ IsFiniteSet(L \cup R)
            /\ Cardinality(L \cup R) = Cardinality(L) + Cardinality(R) - Cardinality(L \cap R)
        BY <2>3, <3>4, FS_Union
      <4>2. Cardinality(L \cap R) \in Nat
        BY <2>3, FS_Intersection, FS_CardinalityType
      <4> QED
        BY <2>3, <3>4, <4>1, <4>2
    <3>7. Cardinality(Q) <= Cardinality(L \cup R)
      BY <3>5, <3>6, FS_Subset
    <3>8. Cardinality(Q) \in Nat /\ Cardinality(L \cup R) \in Nat
      BY <2>3, <3>6, FS_CardinalityType
    <3> QED
      BY <2>c, <2>1, <2>3, <2>4, <3>4, <3>6, <3>7, <3>8
  <2>5. CASE ~\E h \in Handlers : List(h) /\ Cardinality(L) < event.cap
    <3>1. Q \subseteq P
      <4> SUFFICES ASSUME NEW b \in Q PROVE b \in P
        OBVIOUS
      <4>1. CASE b \in LiveAt(m)'
        BY <1>0, <2>1, <4>1, LiveStep
      <4>2. ASSUME NEW h \in Handlers, req'[h].id = b, Claims(h, m)'
            PROVE  b \in P
        BY <1>0, <2>1, <2>5, <4>2, ClaimStep
      <4> QED
        BY <2>1, <4>1, <4>2 DEF Potential
    <3>2. Cardinality(Q) <= Cardinality(P) /\ Cardinality(Q) \in Nat /\ Cardinality(P) \in Nat
      BY <2>3, <3>1, FS_Subset, FS_CardinalityType
    <3> QED
      BY <2>c, <2>1, <2>2, <3>1, <3>2
  <2> QED
    BY <2>4, <2>5
<1> QED
  BY <1>0, <1>1, <1>2 DEF RacesInv

\* However many requests run at once, and failures included, no minute holds more
\* live bookings than the capacity and one for each further request in flight:
\* a stale listing can be wrong by the placements of the other requests only once.
THEOREM OverbookingBounded ==
    ASSUME PlainEvent
    PROVE  Spec => []OverbookedByRacesOnly
<1>1. Init => RacesInv
  <2> SUFFICES ASSUME Init PROVE RacesInv
    OBVIOUS
  <2>1. /\ \A b \in BookingIds : bookings[b].status = "NONE"
        /\ \A h \in Handlers : pc[h] = "idle"
    BY RowFields DEF Init
  <2>2. \A m \in 0..DayLen-1 : Potential(m) = {}
    BY <2>1 DEF Potential, LiveAt, Live, Claims
  <2> QED
    BY <2>1, <2>2, InitInv DEF RacesInv, RequestTimes, WithinDay, RacesBounded
<1>2. RacesInv /\ [Next]_vars => RacesInv'
  BY RacesStep
<1>3. RacesInv => OverbookedByRacesOnly
  <2> SUFFICES ASSUME RacesInv, NEW b \in BookingIds, Live(b), NEW m \in Minutes(b)
               PROVE  Cardinality(LiveAt(m)) <= event.cap + Cardinality(Handlers) - 1
    BY DEF OverbookedByRacesOnly
  <2>1. TypeInv /\ bookings[b].start \in Int /\ bookings[b].end \in Int
    BY DEF RacesInv, Inv, TypeInv, TypeOK, BookingType
  <2>2. m \in 0..DayLen-1
    BY <2>1, DayAssumption DEF RacesInv, WithinDay, Live, Minutes
  <2>3. b \in LiveAt(m)
    BY <2>1 DEF LiveAt, Minutes
  <2>4. LiveAt(m) \subseteq Potential(m)
    BY DEF Potential, LiveAt
  <2>5. PICK P, L : P = Potential(m) /\ L = LiveAt(m)
    OBVIOUS
  <2>6. IsFiniteSet(P) /\ Cardinality(P) \in Nat
    BY <2>5, BookingAssumption, FS_Subset, FS_CardinalityType DEF Potential
  <2>7. Cardinality(L) <= Cardinality(P) /\ Cardinality(L) \in Nat
    BY <2>4, <2>5, <2>6, FS_Subset, LiveAtFinite
  <2>8. Cardinality(P) <= event.cap + Cardinality(Handlers) - 1
    BY <2>2, <2>3, <2>4, <2>5 DEF RacesInv, RacesBounded
  <2>9. event.cap \in Int /\ Cardinality(Handlers) \in Nat
    BY <2>1, BookingAssumption, FS_CardinalityType DEF TypeInv, TypeOK, PlainEvent, EventType
  <2> QED
    BY <2>5, <2>6, <2>7, <2>8, <2>9
<1> QED
  BY <1>1, <1>2, <1>3, PTL DEF Spec

\* test_double_booking_conflict, where requests follow each other: with one request
\* at a time no minute holds more bookings than the capacity.
THEOREM SerialNeverOverbooked ==
    ASSUME PlainEvent, Cardinality(Handlers) = 1
    PROVE  Spec => []NeverOverbooked
<1>1. TypeOK /\ OverbookedByRacesOnly => NeverOverbooked
  <2>1. TypeOK => event.cap \in Int
    BY BookingAssumption DEF TypeOK, EventType
  <2>2. \A n \in Int : n + 1 - 1 = n
    OBVIOUS
  <2> QED
    BY <2>1, <2>2 DEF OverbookedByRacesOnly, NeverOverbooked
<1>2. Spec => []OverbookedByRacesOnly
  BY OverbookingBounded
<1>3. Spec => []TypeOK
  BY TypeCorrect
<1> QED
  BY <1>1, <1>2, <1>3, PTL

-----------------------------------------------------------------------------
\* One booking request at a time keeps to the capacity it read.

\* One handler, a date without a clock change, and capacities the counters can hold.
SerialServer ==
    /\ \A g, h \in Handlers : g = h
    /\ Zone.shift = 0
    /\ \A e \in EventConfigs, o \in OverrideConfigs \cup {NoOverride} :
          \A w \in Windows(e, o) : WindowCapacity(e, o, w) <= CountMax

\* The times of request h are a slot of a window that it read, which has a free place
\* in every minute but the last of the date.
Fits(h) ==
    \E w \in Windows(req[h].config, rule[h]) :
        /\ req[h].start \in Cursors(req[h].config, w)
        /\ Elapsed(Zone, req[h].start) = req[h].start
        /\ WindowCapacity(req[h].config, rule[h], w) \in Int
        /\ \A m \in req[h].start..(req[h].end - 1) : m # DayLen - 1 =>
              Cardinality(LiveAt(m)) < WindowCapacity(req[h].config, rule[h], w)

\* The listing of the only request in flight may be stale, but only by bookings that
\* have gone since, and so may its check.
StaleByDeletions ==
    \A h \in Handlers :
        /\ pc[h] = "check" => \A m \in 0..DayLen-1 :
              Cardinality(LiveAt(m)) <= Cardinality({t \in seen[h] : Covers(t, m)})
        /\ pc[h] = "write" /\ req[h].kind \in SlotKinds => Fits(h)

\* While the only handler is at an await, bookings can only be cancelled or deleted.
LEMMA NobodyPlaces ==
    ASSUME Inv, SerialServer, [Next]_vars, NEW h \in Handlers, pc'[h] = pc[h],
           pc[h] \in {"check", "write"}, NEW m
    PROVE  Cardinality(LiveAt(m)') <= Cardinality(LiveAt(m)) /\ Cardinality(LiveAt(m)') \in Nat
<1>1. ASSUME NEW g \in Handlers, CreateWithToken(g) \/ Update(g), pc[g] = "write"
      PROVE  FALSE
  <2>1. g = h
    BY DEF SerialServer
  <2> QED
    BY <1>1, <2>1 DEF CreateWithToken, Update, Goto, Return, Inv, TypeInv, TypeOK
<1>2. \A b \in BookingIds :
         \/ bookings'[b] = bookings[b]
         \/ bookings'[b].status \in {"CANCELLED", "DELETED"}
  BY <1>1, BookingStep
<1>3. PICK S, T : S = LiveAt(m) /\ T = LiveAt(m)'
  OBVIOUS
<1>4. T \subseteq S
  BY <1>2, <1>3 DEF LiveAt, Live
<1>5. IsFiniteSet(S)
  BY <1>3, LiveAtFinite
<1>6. IsFiniteSet(T) /\ Cardinality(T) <= Cardinality(S) /\ Cardinality(T) \in Nat
  BY <1>4, <1>5, FS_Subset, FS_CardinalityType
<1> QED
  BY <1>3, <1>6

\* Every step keeps that.
LEMMA StaleByDeletionsStep ==
    ASSUME Inv, RequestTimes, StaleByDeletions, SerialServer, [Next]_vars
    PROVE  StaleByDeletions'
<1>0. TypeInv
  BY DEF Inv
<1> SUFFICES ASSUME NEW h \in Handlers, pc'[h] \in {"check", "write"}
             PROVE  /\ pc'[h] = "check" => \A m \in 0..DayLen-1 :
                          Cardinality(LiveAt(m)') <= Cardinality({t \in seen'[h] : Covers(t, m)})
                    /\ pc'[h] = "write" /\ req'[h].kind \in SlotKinds => Fits(h)'
  BY DEF StaleByDeletions, Covers
<1>1. CASE pc'[h] = pc[h] /\ req'[h] = req[h] /\ seen'[h] = seen[h] /\ rule'[h] = rule[h]
  <2>1. \A m : /\ Cardinality(LiveAt(m)') <= Cardinality(LiveAt(m))
               /\ Cardinality(LiveAt(m)') \in Nat /\ Cardinality(LiveAt(m)) \in Nat
    BY <1>1, NobodyPlaces, LiveAtFinite
  <2>2. ASSUME pc[h] = "check", NEW m \in 0..DayLen-1
        PROVE  Cardinality(LiveAt(m)') <= Cardinality({t \in seen[h] : Covers(t, m)})
    <3>1. IsFiniteSet(seen[h])
      BY <2>2 DEF RequestTimes
    <3>2. PICK C : C = {t \in seen[h] : Covers(t, m)}
      OBVIOUS
    <3>3. Cardinality(C) \in Nat
      BY <3>1, <3>2, FS_Subset, FS_CardinalityType
    <3>4. Cardinality(LiveAt(m)) <= Cardinality(C)
      BY <2>2, <3>2 DEF StaleByDeletions
    <3> QED
      BY <2>1, <3>2, <3>3, <3>4
  <2>3. ASSUME Fits(h)
        PROVE  Fits(h)'
    <3>1. PICK w \in Windows(req[h].config, rule[h]) :
             /\ req[h].start \in Cursors(req[h].config, w)
             /\ Elapsed(Zone, req[h].start) = req[h].start
             /\ WindowCapacity(req[h].config, rule[h], w) \in Int
             /\ \A m \in req[h].start..(req[h].end - 1) : m # DayLen - 1 =>
                   Cardinality(LiveAt(m)) < WindowCapacity(req[h].config, rule[h], w)
      BY <2>3 DEF Fits
    <3>2. \A m \in req[h].start..(req[h].end - 1) : m # DayLen - 1 =>
             Cardinality(LiveAt(m)') < WindowCapacity(req[h].config, rule[h], w)
      BY <2>1, <3>1
    <3>3. PICK r, o : r = req[h] /\ o = rule[h]
      OBVIOUS
    <3>4. \E x \in Windows(req'[h].config, rule'[h]) :
             /\ req'[h].start \in Cursors(req'[h].config, x)
             /\ Elapsed(Zone, req'[h].start) = req'[h].start
             /\ WindowCapacity(req'[h].config, rule'[h], x) \in Int
             /\ \A m \in req'[h].start..(req'[h].end - 1) : m # DayLen - 1 =>
                   Cardinality(LiveAt(m)') < WindowCapacity(req'[h].config, rule'[h], x)
      BY <1>1, <3>1, <3>2
    <3> QED
      BY <3>4 DEF Fits, Windows, WindowCapacity, DayCapacity, Cursors, Elapsed
  <2> QED
    BY <1>1, <2>2, <2>3 DEF StaleByDeletions
<1>2. CASE Begin(h)
  <2>1. PICK at \in {"list", "write"}, r \in RequestType :
           /\ Accept(h, at, r)
           /\ at = "list" \/ (at = "write" /\ r.kind \in {"cancel", "edit"})
    BY <1>0, <1>2, BeginAccepts
  <2>2. pc'[h] = at /\ req'[h] = r
    BY <1>0, <2>1 DEF Accept, TypeInv, TypeOK
  <2> QED
    BY <2>1, <2>2 DEF SlotKinds
<1>3. CASE pc'[h] = "check" /\ req'[h] = req[h] /\ List(h)
  <2>1. seen'[h] = {t \in Taken : InDay(t, Zone)} /\ bookings' = bookings
    BY <1>0, <1>3 DEF List, tables, TypeInv, TypeOK
  <2>2. ASSUME NEW m \in 0..DayLen-1
        PROVE  Cardinality(LiveAt(m)') <= Cardinality({t \in seen'[h] : Covers(t, m)})
    <3>1. LiveAt(m)' = LiveAt(m)
      BY <2>1 DEF LiveAt, Live
    <3> QED
      BY <1>0, <2>1, <3>1, ListingComplete DEF SerialServer
  <2> QED
    BY <1>3, <2>2
<1>4. CASE pc'[h] = "write" /\ req'[h] = req[h] /\ Check(h) /\ SlotOffered(h)
  <2>1. pc[h] = "check" /\ bookings' = bookings /\ rule'[h] = override
    BY <1>0, <1>4 DEF Check, tables, Return, TypeInv, TypeOK
  <2>2. /\ req[h].config \in EventConfigs /\ override \in OverrideConfigs \cup {NoOverride}
        /\ req[h].start \in Int /\ req[h].end \in Int
    BY <1>0 DEF TypeInv, TypeOK, RequestType
  <2>3. PICK c, o : c = req[h].config /\ o = override
    OBVIOUS
  <2>4. PICK w \in Windows(c, o) :
           /\ req[h].start \in Cursors(c, w)
           /\ Elapsed(Zone, req[h].start) = req[h].start
           /\ req[h].start >= 0 /\ req[h].end <= DayLen
           /\ WindowCapacity(c, o, w) \in Int
           /\ \A m \in req[h].start..(req[h].end - 1) : m # DayLen - 1 =>
                 Cardinality({t \in seen[h] : Covers(t, m)}) < WindowCapacity(c, o, w)
    <3>1. \A x \in Windows(c, o) : WindowCapacity(c, o, x) <= CountMax
      BY <2>2, <2>3 DEF SerialServer
    <3>2. Zone.shift = 0
      BY DEF SerialServer
    <3> QED
      BY <1>0, <1>4, <2>1, <2>3, <3>1, <3>2, OfferedSlot
  <2>5. ASSUME NEW m \in req[h].start..(req[h].end - 1), m # DayLen - 1
        PROVE  Cardinality(LiveAt(m)') < WindowCapacity(c, o, w)
    <3>1. m \in 0..DayLen-1
      BY <2>2, <2>4, DayAssumption
    <3>2. LiveAt(m)' = LiveAt(m)
      BY <2>1 DEF LiveAt, Live
    <3>3. PICK C : C = {t \in seen[h] : Covers(t, m)}
      OBVIOUS
    <3>4. Cardinality(C) \in Nat
      BY <2>1, <3>3, FS_Subset, FS_CardinalityType DEF RequestTimes
    <3>5. Cardinality(LiveAt(m)) <= Cardinality(C) /\ Cardinality(LiveAt(m)) \in Nat
      BY <2>1, <3>1, <3>3, LiveAtFinite DEF StaleByDeletions
    <3>6. Cardinality(C) < WindowCapacity(c, o, w)
      BY <2>4, <2>5, <3>3
    <3> QED
      BY <2>4, <3>2, <3>4, <3>5, <3>6
  <2>6. \E x \in Windows(req'[h].config, rule'[h]) :
           /\ req'[h].start \in Cursors(req'[h].config, x)
           /\ Elapsed(Zone, req'[h].start) = req'[h].start
           /\ WindowCapacity(req'[h].config, rule'[h], x) \in Int
           /\ \A m \in req'[h].start..(req'[h].end - 1) : m # DayLen - 1 =>
                 Cardinality(LiveAt(m)') < WindowCapacity(req'[h].config, rule'[h], x)
    BY <1>4, <2>1, <2>3, <2>4, <2>5
  <2>7. Fits(h)'
    BY <2>6 DEF Fits, Windows, WindowCapacity, DayCapacity, Cursors, Elapsed
  <2> QED
    BY <1>4, <2>7
<1> QED
  BY <1>0, <1>1, <1>2, <1>3, <1>4, RequestStep

\* The write of a request puts its booking where it found a place.
LEMMA PlacedStep ==
    ASSUME Inv, StaleByDeletions, SerialServer, [Next]_vars, NEW h \in Handlers, NEW b \in BookingIds,
           pc[h] = "write", req[h].kind \in SlotKinds, req[h].id = b, Placed(b),
           NEW m \in Minutes(b)' \ {DayElapsed(Zone) - 1}
    PROVE  Offers(req[h].config, rule[h], req[h].start, Cardinality(LiveAt(m)'))
<1>1. /\ bookings'[b].start = req[h].start /\ bookings'[b].end = req[h].end
      /\ \A c \in BookingIds \ {b} : bookings'[c] = bookings[c]
  <2>1. PICK g \in Handlers :
           /\ bookings'[b].start = req[g].start /\ bookings'[b].end = req[g].end
           /\ \A c \in BookingIds \ {b} : bookings'[c] = bookings[c]
    BY BookingStep DEF Placed, Live
  <2>2. g = h
    BY DEF SerialServer
  <2> QED
    BY <2>1, <2>2
<1>2. PICK w \in Windows(req[h].config, rule[h]) :
         /\ req[h].start \in Cursors(req[h].config, w)
         /\ Elapsed(Zone, req[h].start) = req[h].start
         /\ WindowCapacity(req[h].config, rule[h], w) \in Int
         /\ \A n \in req[h].start..(req[h].end - 1) : n # DayLen - 1 =>
               Cardinality(LiveAt(n)) < WindowCapacity(req[h].config, rule[h], w)
  BY DEF StaleByDeletions, Fits
<1>3. DayElapsed(Zone) = DayLen
  BY DayAssumption DEF SerialServer, DayElapsed
<1>4. Cardinality(LiveAt(m)) < WindowCapacity(req[h].config, rule[h], w)
  BY <1>1, <1>2, <1>3 DEF Minutes
<1>5. PICK S, T : S = LiveAt(m) /\ T = LiveAt(m)'
  OBVIOUS
<1>6. T \subseteq S \cup {b}
  BY <1>1, <1>5 DEF LiveAt, Live
<1>7. IsFiniteSet(S) /\ Cardinality(S) \in Nat
  BY <1>5, LiveAtFinite
<1>8. Cardinality(T) <= Cardinality(S) + 1 /\ Cardinality(T) \in Nat
  <2>1. IsFiniteSet(S \cup {b}) /\ Cardinality(S \cup {b}) <= Cardinality(S) + 1
    <3>1. /\ IsFiniteSet(S \cup {b})
          /\ Cardinality(S \cup {b}) = IF b \in S THEN Cardinality(S) ELSE Cardinality(S) + 1
      BY <1>7, FS_AddElement
    <3> QED
      BY <1>7, <3>1
  <2>2. IsFiniteSet(T) /\ Cardinality(T) <= Cardinality(S \cup {b})
    BY <1>6, <2>1, FS_Subset
  <2>3. Cardinality(T) \in Nat /\ Cardinality(S \cup {b}) \in Nat
    BY <2>1, <2>2, FS_CardinalityType
  <2> QED
    BY <1>7, <2>1, <2>2, <2>3
<1>9. Cardinality(LiveAt(m)') <= WindowCapacity(req[h].config, rule[h], w)
  BY <1>2, <1>4, <1>5, <1>7, <1>8
<1> QED
  BY <1>2, <1>9 DEF Offers

\* With one booking request at a time, whenever create_booking, reschedule_booking or
\* update_booking places a booking, every minute it occupies but the last of the date
\* holds at most as many bookings as the event and the override that the request read
\* allow, although an admin may delete bookings and change the event and the override
\* between its listing, its check and its write: a stale listing errs by bookings that
\* are gone only.
THEOREM SerialPlacement ==
    ASSUME SerialServer
    PROVE  Spec => PlacedAsOffered
<1> DEFINE I == Inv /\ RequestTimes /\ StaleByDeletions
<1>1. Init => I
  BY InitInv DEF Init, RequestTimes, StaleByDeletions
<1>2. I /\ [Next]_vars => I'
  BY NextInv, RequestTimesStep, StaleByDeletionsStep DEF Inv
<1>3. I /\ [Next]_vars =>
        [\A h \in Handlers, b \in BookingIds :
            pc[h] = "write" /\ pc'[h] # "write" /\ req[h].kind \in SlotKinds
               /\ req[h].id = b /\ Placed(b)
            => \A m \in Minutes(b)' \ {DayElapsed(Zone) - 1} :
                  Offers(req[h].config, rule[h], req[h].start, Cardinality(LiveAt(m)'))]_vars
  BY PlacedStep
<1> QED
  BY <1>1, <1>2, <1>3, PTL DEF Spec, PlacedAsOffered
=============================================================================
