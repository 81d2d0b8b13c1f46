---------------------------- MODULE Availability ----------------------------
(***************************************************************************)
(* The slot calculation of domain/services/availability.rs for one         *)
(* calendar date of a RECURRING event, in closed form.  SlotLoop runs the  *)
(* loops of the code and is checked against these definitions; Booking     *)
(* uses them as the result of calculate_slots.                             *)
(*                                                                         *)
(* Times are minutes.  A "wall" minute is a reading of the local clock on  *)
(* the date, 0..DayLen-1; every other time is "elapsed": UTC minutes since *)
(* local midnight of the date, negative before it.                         *)
(*                                                                         *)
(* The data of a calculation:                                              *)
(*   event     [access, cap, windows, duration, interval, noticeFirst,     *)
(*              noticeGeneral, activeStart, activeEnd, allowCancel,        *)
(*              allowReschedule]; windows are those of the date's weekday  *)
(*   window    [start, end, cap], cap possibly NoCap                       *)
(*   override  NoOverride or [unavailable, cap, windows], cap possibly     *)
(*             NoCap and windows possibly NoWindows                        *)
(*   existing  a set of [id, start, end], the rows list_by_range returns   *)
(*   zone      [shift, at]: on this date the local clock jumps by shift    *)
(*             minutes when it reads at (0 on an ordinary date)            *)
(***************************************************************************)
EXTENDS Integers, FiniteSets

CONSTANTS
    DayLen,      \* TOTAL_MINUTES, 1440 in the code
    CountMax,    \* largest value of a minute counter, u8::MAX in the code
    NoCap,       \* an absent max_participants
    NoWindows,   \* an absent override_config_json
    NoOverride   \* no event_overrides row for the date

ASSUME DayAssumption == DayLen \in Nat /\ DayLen > 1
ASSUME CountMaxAssumption == CountMax \in Nat
ASSUME NoCapAssumption == NoCap \notin Int

\* Window times are read with NaiveTime::parse_from_str(.., "%H:%M").
WindowType == [start : 0..DayLen-1, end : 0..DayLen-1, cap : Int \cup {NoCap}]

\* access "OTHER" is a mode no handler knows, which update_event stores unchecked.
EventType ==
    [access : {"OPEN", "RESTRICTED", "CLOSED", "OTHER"}, cap : Int, windows : SUBSET WindowType,
     duration : Nat, interval : Nat, noticeFirst : Int, noticeGeneral : Int,
     activeStart : Int, activeEnd : Int, allowCancel : BOOLEAN, allowReschedule : BOOLEAN]

OverrideType ==
    [unavailable : BOOLEAN, cap : Int \cup {NoCap}, windows : (SUBSET WindowType) \cup {NoWindows}]

ZoneType == [shift : Int, at : Int]

-----------------------------------------------------------------------------
\* The local clock (chrono_tz, as from_local_datetime(..).single() uses it).

\* single() succeeds: the wall minute exists and is not ambiguous.
IsSingle(zone, wall) ==
    IF zone.shift >= 0 THEN ~(zone.at <= wall /\ wall < zone.at + zone.shift)
                       ELSE ~(zone.at + zone.shift <= wall /\ wall < zone.at)

Elapsed(zone, wall) == IF wall < zone.at THEN wall ELSE wall - zone.shift

\* The date lasts DayElapsed minutes; 23:59:59 falls in the last of them.
DayElapsed(zone) == DayLen - zone.shift

-----------------------------------------------------------------------------
\* Counting existing bookings per minute.

\* list_by_range(day_start, day_end) with day_end at 23:59:59.
InDay(b, zone) == b.start < DayElapsed(zone) /\ b.end > 0

\* minute_counts[s_idx..e_idx]: the end is clamped to 23:59:59, so the last
\* minute of the date is never counted.
Counts(b, zone, i) == b.start <= i /\ i < b.end /\ i < DayElapsed(zone) - 1

CountedAt(existing, zone, i) == {b \in existing : Counts(b, zone, i)}

Saturate(n) == IF n > CountMax THEN CountMax ELSE n

MinuteCount(existing, zone, i) == Saturate(Cardinality(CountedAt(existing, zone, i)))

\* slot_utc > earliest_booking_start, for the earliest booking of the date
AfterFirst(existing, zone, slot) ==
    \E b \in existing : InDay(b, zone) /\ b.start < b.end /\ slot > b.start

-----------------------------------------------------------------------------
\* Windows and capacities.

Windows(event, override) ==
    IF override # NoOverride /\ override.windows # NoWindows
    THEN override.windows ELSE event.windows

DayCapacity(event, override) ==
    IF override # NoOverride /\ override.cap # NoCap THEN override.cap ELSE event.cap

WindowCapacity(event, override, w) ==
    IF w.cap # NoCap THEN w.cap ELSE DayCapacity(event, override)

WindowEnd(w) == IF w.end = DayLen - 1 THEN DayLen ELSE w.end

\* The values the cursor takes in window w.
Cursors(event, w) ==
    {c \in w.start..WindowEnd(w) :
        /\ (c - w.start) % event.interval = 0
        /\ c + event.duration <= WindowEnd(w)}

Cutoff(event, existing, zone, now, slot) ==
    now + IF AfterFirst(existing, zone, slot) THEN event.noticeGeneral
                                              ELSE event.noticeFirst

\* The loop over minute_counts is indexed by wall minutes.
HasRoom(existing, zone, from, duration, cap) ==
    \A i \in from..(from + duration - 1) :
        i < DayLen => MinuteCount(existing, zone, i) < cap

CursorOffered(event, override, existing, zone, now, w, c) ==
    LET slot == Elapsed(zone, c)
    IN  /\ IsSingle(zone, c)
        /\ HasRoom(existing, zone, c, event.duration, WindowCapacity(event, override, w))
        /\ slot > Cutoff(event, existing, zone, now, slot)
        /\ slot >= event.activeStart
        /\ slot + event.duration <= event.activeEnd

Unavailable(override) == override # NoOverride /\ override.unavailable

\* calculate_slots: the elapsed start minutes that may be booked.
CalculateSlots(event, override, existing, zone, now) ==
    IF Unavailable(override) \/ event.duration = 0 \/ event.interval = 0
    THEN {}
    ELSE UNION {{Elapsed(zone, c) : c \in
                    {d \in Cursors(event, w) :
                        CursorOffered(event, override, existing, zone, now, w, d)}} :
                w \in Windows(event, override)}
=============================================================================
