------------------------------ MODULE MCBooking ------------------------------
(***************************************************************************)
(* Instances of Booking: a date of 8 minutes, one window in which two      *)
(* overlapping slots and one disjoint slot can be booked, reminders two    *)
(* minutes and one minute ahead.                                           *)
(***************************************************************************)
EXTENDS Booking

CONSTANTS b1, b2, b3, i1, i2, h1, h2, r1, r2, r3, r4, r5

Window(cap) == [start |-> 2, end |-> 7, cap |-> cap]

Event(access, cap) ==
    [access |-> access, cap |-> cap, windows |-> {Window(NoCap)},
     duration |-> 2, interval |-> 1, noticeFirst |-> 0, noticeGeneral |-> 0,
     activeStart |-> 0, activeEnd |-> 8, allowCancel |-> TRUE, allowReschedule |-> TRUE]

Open1 == {Event("OPEN", 1)}
Restricted2 == {Event("RESTRICTED", 2)}
OpenOrRestricted == {Event("OPEN", 1), Event("RESTRICTED", 1)}

\* An event whose access, capacity, duration and permissions an admin changes.
Edited ==
    {Event("OPEN", 1), Event("OTHER", 2),
     [Event("RESTRICTED", 2) EXCEPT !.duration = 1, !.allowCancel = FALSE,
                                    !.allowReschedule = FALSE]}

NoOverrides == {}
SomeOverrides ==
    {[unavailable |-> TRUE, cap |-> NoCap, windows |-> NoWindows],
     [unavailable |-> FALSE, cap |-> 2, windows |-> {Window(1), [Window(NoCap) EXCEPT !.start = 3]}]}

NoShift == [shift |-> 0, at |-> 0]

MCTrigger ==
    [r \in Rules |-> CASE r = r1 -> "ON_BOOKING"   [] r = r2 -> "REMINDER_24H"
                       [] r = r3 -> "REMINDER_1H"  [] r = r4 -> "ON_CANCEL"
                       [] r = r5 -> "ON_RESCHEDULE"]
MCLead == [r \in Rules |-> CASE r = r2 -> 2 [] r = r3 -> 1 [] OTHER -> 0]

Symmetry == Permutations(BookingIds) \cup Permutations(Handlers)
=============================================================================
