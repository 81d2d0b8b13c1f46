---------------------------- MODULE DateListing ----------------------------
(***************************************************************************)
(* The two public listings of api/handlers/event.rs on top of              *)
(* calculate_slots: get_slots for one date, and get_available_dates, which *)
(* reads the bookings of a whole range once and sorts them into its dates. *)
(* Dates are numbered; times are minutes since midnight of date 0, and no  *)
(* date of the range has a clock change.                                   *)
(***************************************************************************)
EXTENDS SlotLoop

NoChange == [shift |-> 0, at |-> 0]

DayStart(d) == d * DayLen
DayEnd(d) == (d + 1) * DayLen   \* 23:59:59, one second earlier, is the same minute

\* list_by_range, from the first to the last date
ListByRange(rows, first, last) ==
    {b \in rows : b.start < DayEnd(last) /\ b.end > DayStart(first)}

ActiveFrom(event, from) == [event EXCEPT !.activeStart = from]
ActiveUntil(event, to) == [event EXCEPT !.activeEnd = to]

\* calculate_slots counts its minutes from midnight of the date.
SlotsOf(event, override, rows, d, now) ==
    LET seen == ActiveUntil(ActiveFrom(event, event.activeStart - DayStart(d)),
                            event.activeEnd - DayStart(d))
        there == {[id |-> b.id, start |-> b.start - DayStart(d), end |-> b.end - DayStart(d)] :
                     b \in rows}
    IN  CalculateSlots(seen, override, there, NoChange, now - DayStart(d))

\* get_slots
GetSlots(event, overrides, rows, d, now) ==
    IF event.access = "CLOSED" THEN {}
    ELSE SlotsOf(event, overrides[d], ListByRange(rows, d, d), d, now)

\* mutant: a booking belongs to the date it begins on
DayBookingsByStart(rows, d) == {b \in rows : b.start < DayEnd(d) /\ b.start >= DayStart(d)}

\* day_bookings
DayBookings(rows, d) == {b \in rows : b.start < DayEnd(d) /\ b.end > DayStart(d)}

\* get_available_dates; unlike get_slots it does not ask whether the event is CLOSED
GetAvailableDates(event, overrides, rows, first, last, now) ==
    LET all == ListByRange(rows, first, last)
    IN  {d \in first..last :
            /\ DayEnd(d) > event.activeStart /\ DayStart(d) <= event.activeEnd
            /\ SlotsOf(event, overrides[d], DayBookings(all, d), d, now) # {}}

-----------------------------------------------------------------------------
Dates == -1..1
Overridden == [d \in Dates |-> IF d = 0 THEN input.override ELSE NoOverride]

\* The calendar and the day view agree: over three dates, with bookings that reach
\* over midnight and an event that begins or ends within the range, a date of an
\* event that is not CLOSED is listed if and only if get_slots shows a slot on it.
CalendarMatchesSlots ==
    pc = "start" /\ input.event.access # "CLOSED" =>
        \A from, to \in {-DayLen, 1, DayLen + 3} :
            LET event == ActiveUntil(ActiveFrom(input.event, from), to)
            IN  GetAvailableDates(event, Overridden, input.existing, -1, 1, input.now) =
                    {d \in Dates : GetSlots(event, Overridden, input.existing, d, input.now) # {}}
=============================================================================
