----------------------------- MODULE MCSlotLoop -----------------------------
(***************************************************************************)
(* Instances of SlotLoop: a date of DayLen = 6 minutes, events that differ *)
(* in duration, interval, capacity and notice, and up to three bookings    *)
(* placed before, across and after midnight.                               *)
(***************************************************************************)
EXTENDS DateListing, TLC

CONSTANTS
    Zones,       \* clocks of the date
    Durations,   \* values of duration_min
    Intervals,   \* values of interval_min
    Caps         \* values of max_participants

\* Windows of the weekday: the whole day (its end is written 23:59), and two
\* overlapping windows of which one has a capacity of its own.
WholeDay == {[start |-> 0, end |-> DayLen - 1, cap |-> NoCap]}
TwoWindows == {[start |-> 1, end |-> 4, cap |-> NoCap],
               [start |-> 2, end |-> 5, cap |-> 2]}

Events ==
    [access : {"OPEN"}, cap : Caps, windows : {WholeDay, TwoWindows},
     duration : Durations, interval : Intervals,
     noticeFirst : {2}, noticeGeneral : {0},
     activeStart : {0}, activeEnd : {DayLen}, allowCancel : {TRUE}, allowReschedule : {TRUE}]

Overrides ==
    {NoOverride,
     [unavailable |-> TRUE, cap |-> NoCap, windows |-> NoWindows],
     [unavailable |-> FALSE, cap |-> 1, windows |-> {[start |-> 2, end |-> 5, cap |-> NoCap]}]}

Row(i, s, e) == [id |-> i, start |-> s, end |-> e]

\* Bookings 1 and 2 of two minutes, one of which may reach over midnight, and
\* one a minute long, made when the event had another duration.
Existing ==
    {r \in SUBSET ({Row(1, s, s + 2) : s \in {-1, 1, 4}} \cup
                   {Row(2, s, s + 2) : s \in {1, 3}} \cup
                   {Row(3, s, s + 1) : s \in {1, 5}}) :
        \A x, y \in r : x.id = y.id => x = y}

MCInputs ==
    [event : Events, override : Overrides, existing : Existing, zone : Zones, now : {-3, 0}]

NoShift == [shift |-> 0, at |-> 0]
Ordinary == {NoShift}
Shifted == {[shift |-> 1, at |-> 2], [shift |-> -1, at |-> 3]}
AllZones == Ordinary \cup Shifted
=============================================================================
