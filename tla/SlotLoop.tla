------------------------------ MODULE SlotLoop ------------------------------
(***************************************************************************)
(* calculate_slots as the code runs it: the per-minute counters are filled *)
(* booking by booking, then every window is walked with a cursor.          *)
(* The bookings come from a query without ORDER BY and the windows from a  *)
(* JSON array; both are taken here in any order.                           *)
(***************************************************************************)
EXTENDS Availability

CONSTANT Inputs   \* the calls: [event, override, existing, zone, now] records

ASSUME InputsAssumption ==
    \A in \in Inputs :
        /\ in.event \in EventType
        /\ in.override \in OverrideType \cup {NoOverride}
        /\ IsFiniteSet(in.existing)
        /\ \A b \in in.existing : b.start \in Int /\ b.end \in Int
        /\ in.zone \in ZoneType
        /\ in.now \in Int

VARIABLES
    input,      \* the arguments of the call, and Utc::now()
    pc,         \* "start", "count", "window", "cursor" or "done"
    todo,       \* bookings not yet counted
    counts,     \* minute_counts
    earliest,   \* earliest_booking_start: a set of at most one minute
    unopened,   \* windows not yet walked
    window,     \* windows being walked: at most one
    cursor,     \* wall minute
    slots       \* valid_slots; a set, since the code sorts and dedups it

vars == <<input, pc, todo, counts, earliest, unopened, window, cursor, slots>>

Minutes == 0..DayLen-1

Init ==
    /\ input \in Inputs
    /\ pc = "start"
    /\ todo = input.existing
    /\ counts = [i \in Minutes |-> 0]
    /\ earliest = {}
    /\ unopened = Windows(input.event, input.override)
    /\ window = {}
    /\ cursor = 0
    /\ slots = {}

\* if override_rule.is_some_and(|r| r.is_unavailable) { return Vec::new(); }
CheckUnavailable ==
    /\ pc = "start"
    /\ pc' = IF Unavailable(input.override) THEN "done" ELSE "count"
    /\ UNCHANGED <<input, todo, counts, earliest, unopened, window, cursor, slots>>

\* The clamps of s_idx and e_idx: both are at most DayLen.
Clamp(i) == IF i < 0 THEN 0 ELSE IF i > DayLen THEN DayLen ELSE i
StartIdx(b) == Clamp(b.start)
\* mutant: the end of a booking is not clamped to day_end
EndIdxUnclamped(b) == Clamp(b.end)

EndIdx(b) == Clamp(IF b.end < DayElapsed(input.zone) - 1
                   THEN b.end ELSE DayElapsed(input.zone) - 1)

\* saturating_add(1)
Incr(n) == IF n = CountMax THEN n ELSE n + 1

\* earliest_booking_start after booking t has been seen
Earliest(known, t) == IF \E e \in known : e <= t THEN known ELSE {t}

CountBooking(b) ==
    /\ pc = "count"
    /\ b \in todo
    /\ todo' = todo \ {b}
    /\ IF InDay(b, input.zone) /\ b.start < b.end
       THEN /\ counts' = [i \in Minutes |->
                    IF StartIdx(b) <= i /\ i < EndIdx(b) THEN Incr(counts[i]) ELSE counts[i]]
            /\ earliest' = Earliest(earliest, b.start)
       ELSE UNCHANGED <<counts, earliest>>
    /\ UNCHANGED <<input, pc, unopened, window, cursor, slots>>

\* mutant: only the duration is tested for zero
StartWindowsAnyInterval ==
    /\ pc = "count"
    /\ todo = {}
    /\ pc' = IF input.event.duration = 0 THEN "done" ELSE "window"
    /\ UNCHANGED <<input, todo, counts, earliest, unopened, window, cursor, slots>>

\* if duration_min == 0 || interval_min == 0 { return Vec::new(); }
StartWindows ==
    /\ pc = "count"
    /\ todo = {}
    /\ pc' = IF input.event.duration = 0 \/ input.event.interval = 0
             THEN "done" ELSE "window"
    /\ UNCHANGED <<input, todo, counts, earliest, unopened, window, cursor, slots>>

OpenWindow(w) ==
    /\ pc = "window"
    /\ w \in unopened
    /\ unopened' = unopened \ {w}
    /\ window' = {w}
    /\ cursor' = w.start
    /\ pc' = "cursor"
    /\ UNCHANGED <<input, todo, counts, earliest, slots>>

RequiredCutoff(slot) ==
    input.now + IF \E first \in earliest : slot > first
                THEN input.event.noticeGeneral ELSE input.event.noticeFirst

\* mutant: a minute that is full is still taken for free
CapacityOkOffByOne(w) ==
    \A i \in cursor..(cursor + input.event.duration - 1) :
        i < DayLen => counts[i] <= WindowCapacity(input.event, input.override, w)

CapacityOk(w) ==
    \A i \in cursor..(cursor + input.event.duration - 1) :
        i < DayLen => counts[i] < WindowCapacity(input.event, input.override, w)

\* One round of the while loop.
TestCursor(w) ==
    LET slot == Elapsed(input.zone, cursor)
    IN  /\ pc = "cursor"
        /\ w \in window
        /\ cursor + input.event.duration <= WindowEnd(w)
        /\ slots' = IF /\ IsSingle(input.zone, cursor)
                       /\ slot > RequiredCutoff(slot)
                       /\ slot >= input.event.activeStart
                       /\ slot + input.event.duration <= input.event.activeEnd
                       /\ CapacityOk(w)
                    THEN slots \cup {slot} ELSE slots
        /\ cursor' = cursor + input.event.interval
        /\ UNCHANGED <<input, pc, todo, counts, earliest, unopened, window>>

CloseWindow(w) ==
    /\ pc = "cursor"
    /\ w \in window
    /\ cursor + input.event.duration > WindowEnd(w)
    /\ window' = {}
    /\ pc' = "window"
    /\ UNCHANGED <<input, todo, counts, earliest, unopened, cursor, slots>>

Return ==
    /\ pc = "window"
    /\ unopened = {}
    /\ pc' = "done"
    /\ UNCHANGED <<input, todo, counts, earliest, unopened, window, cursor, slots>>

Next ==
    \/ CheckUnavailable
    \/ \E b \in todo : CountBooking(b)
    \/ StartWindows
    \/ \E w \in unopened : OpenWindow(w)
    \/ \E w \in window : TestCursor(w)
    \/ \E w \in window : CloseWindow(w)
    \/ Return

Spec == Init /\ [][Next]_vars

\* The call runs on one thread and nothing in it waits.
FairSpec == Spec /\ WF_vars(Next)

-----------------------------------------------------------------------------
\* The loops compute exactly the closed form that the booking handlers are
\* modelled with, whatever the zone, the override and the counters' width.
LoopComputesCalculateSlots ==
    pc = "done" =>
        slots = CalculateSlots(input.event, input.override, input.existing,
                               input.zone, input.now)

\* Bookings that really overlap elapsed minute m.
Overlapping(m) == {b \in input.existing : b.start <= m /\ m < b.end}

\* Some window offers the slot and has room in each of the given minutes.
RoomIn(slot, minutes) ==
    \E w \in Windows(input.event, input.override) :
        /\ \E c \in Cursors(input.event, w) : Elapsed(input.zone, c) = slot
        /\ \A m \in minutes :
              Cardinality(Overlapping(m)) < WindowCapacity(input.event, input.override, w)

SlotMinutes(slot) == slot..(slot + input.event.duration - 1)

\* "Check capacity for this specific slot duration": a slot that is offered has
\* a free place in every minute it covers.  (The last minute of the date, which
\* the code never counts, is left out.)
OfferedHasRoomOnEveryDate ==
    \A s \in slots : RoomIn(s, SlotMinutes(s) \ {DayElapsed(input.zone) - 1})

\* The minute counters are wide enough for the capacities of the date.
CapacitiesFit ==
    \A w \in Windows(input.event, input.override) :
        WindowCapacity(input.event, input.override, w) <= CountMax

\* On a date without a clock change an offered slot has a free place in every
\* minute it covers but the last of the date, whatever windows overlap and
\* whatever lengths and capacities the event had when the bookings were made.
\* This is what keeps the capacity when bookings are made one after the other.
OfferedHasRoom ==
    input.zone.shift = 0 /\ CapacitiesFit => OfferedHasRoomOnEveryDate

\* A call with a positive interval returns.
LoopReturns == <>(pc = "done")
=============================================================================
