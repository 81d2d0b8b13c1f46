------------------------- MODULE AvailabilityProofs -------------------------
(***************************************************************************)
(* Facts about the slot calculation of Availability, for any length of the *)
(* date, any width of the counters and any configuration of the event.     *)
(***************************************************************************)
EXTENDS Availability, FiniteSetTheorems, TLAPS

-----------------------------------------------------------------------------
\* Multiples of the interval.

\* A remainder of 0 means a multiple.
LEMMA Multiple ==
    ASSUME NEW d \in Nat, d > 0, NEW x \in Nat
    PROVE  x % d = 0 <=> \E k \in Nat : x = d * k
<1>1. x = d * (x \div d) + (x % d) /\ x \div d \in Nat /\ x % d \in 0..d-1
  OBVIOUS
<1>2. ASSUME NEW k \in Nat, x = d * k
      PROVE  x % d = 0
  <2> DEFINE q == x \div d
             r == x % d
  <2>1. q \in Nat /\ r \in Nat /\ r < d /\ d * k = d * q + r
    BY <1>1, <1>2
  <2> HIDE DEF q, r
  <2>2. CASE k <= q
    <3>1. d * k <= d * q
      BY <2>1, <2>2
    <3> QED
      BY <2>1, <3>1 DEF r
  <2>3. CASE k >= q + 1
    <3>1. d * k >= d * (q + 1)
      BY <2>1, <2>3
    <3>2. d * (q + 1) = d * q + d
      BY <2>1
    <3> QED
      BY <2>1, <3>1, <3>2
  <2> QED
    BY <2>1, <2>2, <2>3
<1>3. x % d = 0 => x = d * (x \div d)
  BY <1>1
<1> QED
  BY <1>1, <1>2, <1>3

\* The next multiple of d after x is x + d.
LEMMA NextMultiple ==
    ASSUME NEW d \in Nat, d > 0, NEW x \in Nat, x % d = 0
    PROVE  /\ (x + d) % d = 0
           /\ \A y \in Nat : y % d = 0 /\ x < y => x + d <= y
<1>1. PICK k \in Nat : x = d * k
  BY Multiple
<1>2. d * (k + 1) = d * k + d
  OBVIOUS
<1>3. (x + d) % d = 0
  BY <1>1, <1>2, Multiple, x + d \in Nat, k + 1 \in Nat
<1>4. ASSUME NEW y \in Nat, y % d = 0, x < y
      PROVE  x + d <= y
  <2>1. PICK l \in Nat : y = d * l
    BY <1>4, Multiple
  <2>2. k < l
    <3> SUFFICES ASSUME l <= k PROVE FALSE
      OBVIOUS
    <3>1. d * l <= d * k
      OBVIOUS
    <3> QED
      BY <1>1, <1>4, <2>1, <3>1
  <2>3. d * (k + 1) <= d * l
    BY <2>2
  <2> QED
    BY <1>1, <1>2, <2>1, <2>3
<1> QED
  BY <1>3, <1>4

-----------------------------------------------------------------------------
\* Capacities and counters.

\* A counter that is below a capacity within its range is exact.
LEMMA SaturateBelow ==
    ASSUME NEW n \in Nat, NEW cap \in Int, cap <= CountMax, Saturate(n) < cap
    PROVE  n < cap
BY CountMaxAssumption DEF Saturate

\* The windows and capacities of a date are those of the override or the event.
LEMMA WindowTypes ==
    ASSUME NEW event \in EventType, NEW override \in OverrideType \cup {NoOverride},
           NEW w \in Windows(event, override)
    PROVE  /\ w \in WindowType
           /\ w.start \in 0..DayLen-1
           /\ WindowEnd(w) \in 0..DayLen
           /\ WindowCapacity(event, override, w) \in Int
<1> USE DayAssumption, NoCapAssumption
<1>1. w \in WindowType
  BY DEF Windows, EventType, OverrideType
<1>2. DayCapacity(event, override) \in Int
  BY DEF DayCapacity, EventType, OverrideType
<1> QED
  BY <1>1, <1>2 DEF WindowType, WindowEnd, WindowCapacity

\* A cursor of a window lies in the date, with the whole slot.
LEMMA CursorInDay ==
    ASSUME NEW event \in EventType, NEW override \in OverrideType \cup {NoOverride},
           NEW w \in Windows(event, override), NEW c \in Cursors(event, w)
    PROVE  c \in Nat /\ c + event.duration <= DayLen /\ event.duration \in Nat
<1>1. w.start \in 0..DayLen-1 /\ WindowEnd(w) \in 0..DayLen
  BY WindowTypes
<1>2. event.duration \in Nat
  BY DEF EventType
<1> QED
  BY <1>1, <1>2, DayAssumption DEF Cursors

\* A slot of calculate_slots comes from a cursor of a window that offers it.
LEMMA SlotHasCursor ==
    ASSUME NEW event, NEW override, NEW existing, NEW zone, NEW now,
           NEW slot \in CalculateSlots(event, override, existing, zone, now)
    PROVE  \E w \in Windows(event, override) : \E c \in Cursors(event, w) :
              /\ Elapsed(zone, c) = slot
              /\ CursorOffered(event, override, existing, zone, now, w, c)
BY DEF CalculateSlots

\* On a date without a clock change, a cursor that is offered has a free place in
\* every minute of its slot but the last of the date.
LEMMA OfferedCursorHasRoom ==
    ASSUME NEW event \in EventType, NEW override \in OverrideType \cup {NoOverride},
           NEW existing, IsFiniteSet(existing),
           \A b \in existing : b.start \in Int /\ b.end \in Int,
           NEW zone \in ZoneType, zone.shift = 0, NEW now,
           NEW w \in Windows(event, override), NEW c \in Cursors(event, w),
           WindowCapacity(event, override, w) <= CountMax,
           CursorOffered(event, override, existing, zone, now, w, c),
           NEW m \in c..(c + event.duration - 1), m # DayLen - 1
    PROVE  Cardinality({b \in existing : b.start <= m /\ m < b.end})
              < WindowCapacity(event, override, w)
<1> DEFINE cap == WindowCapacity(event, override, w)
           there == {b \in existing : b.start <= m /\ m < b.end}
<1>1. c \in Nat /\ c + event.duration <= DayLen /\ event.duration \in Nat /\ cap \in Int
  BY CursorInDay, WindowTypes
<1>2. m \in 0..DayLen-2
  BY <1>1, DayAssumption
<1>3. MinuteCount(existing, zone, m) < cap
  BY <1>1, <1>2, DayAssumption DEF CursorOffered, HasRoom
<1>4. CountedAt(existing, zone, m) = there
  BY <1>2, DayAssumption DEF CountedAt, Counts, DayElapsed, ZoneType
<1>5. Cardinality(there) \in Nat
  BY FS_Subset, FS_CardinalityType
<1> HIDE DEF cap, there
<1>6. Saturate(Cardinality(there)) < cap
  BY <1>3, <1>4 DEF MinuteCount
<1> QED
  BY <1>1, <1>5, <1>6, SaturateBelow DEF cap, there
=============================================================================
