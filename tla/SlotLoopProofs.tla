--------------------------- MODULE SlotLoopProofs ---------------------------
(***************************************************************************)
(* Theorems about SlotLoop and DateListing: the loops of calculate_slots   *)
(* compute the closed form of Availability, for any length of the date,    *)
(* any width of the counters, any event, override, clock and finite set of *)
(* bookings, and the two public listings agree about it.                   *)
(***************************************************************************)
EXTENDS DateListing, AvailabilityProofs

-----------------------------------------------------------------------------
\* The inductive invariant.

AllWindows == Windows(input.event, input.override)
Counted == input.existing \ todo

\* minute_counts holds the bookings counted so far.
CountsOK == counts = [i \in Minutes |-> MinuteCount(Counted, input.zone, i)]

\* earliest_booking_start is a lower bound for exactly the same slots.
EarliestOK ==
    /\ earliest \in SUBSET Int
    /\ \A s \in Int : (\E e \in earliest : s > e) <=> AfterFirst(Counted, input.zone, s)

\* The cursors of w at which a slot is pushed.
Pushed(w) ==
    {c \in Cursors(input.event, w) :
        CursorOffered(input.event, input.override, input.existing, input.zone, input.now, w, c)}

\* valid_slots holds the slots of the windows that are closed, and those of the
\* open window before the cursor.
Slots(walked, open, before) ==
    {Elapsed(input.zone, c) : c \in UNION {Pushed(w) : w \in walked}}
        \cup {Elapsed(input.zone, c) : c \in {d \in UNION {Pushed(w) : w \in open} : d < before}}

SlotsOK == slots = Slots(AllWindows \ (unopened \cup window), window, cursor)

\* The cursor stands on the grid of the open window.
CursorOK ==
    \A w \in window : /\ cursor >= w.start
                      /\ (cursor - w.start) % input.event.interval = 0

\* What has been decided when the loops are reached.
Proper ==
    /\ ~Unavailable(input.override)
    /\ input.event.duration # 0 /\ input.event.interval # 0

TypeInv ==
    /\ input \in Inputs
    /\ pc \in {"start", "count", "window", "cursor", "done"}
    /\ todo \in SUBSET input.existing
    /\ unopened \in SUBSET AllWindows
    /\ window \in SUBSET (AllWindows \ unopened)
    /\ cursor \in Nat

PhaseOK ==
    /\ pc \in {"start", "count"} => unopened = AllWindows /\ window = {}
    /\ pc = "count" => ~Unavailable(input.override)
    /\ pc \in {"window", "cursor"} => todo = {} /\ Proper
    /\ pc = "window" => window = {}
    /\ pc = "cursor" => \E w \in AllWindows : window = {w}

Inv ==
    /\ TypeInv /\ PhaseOK /\ CountsOK /\ EarliestOK
    /\ pc # "done" => SlotsOK /\ CursorOK
    /\ LoopComputesCalculateSlots

-----------------------------------------------------------------------------
\* The types of the arguments of the call.
LEMMA InputTypes ==
    ASSUME input \in Inputs
    PROVE  /\ input.event \in EventType /\ input.override \in OverrideType \cup {NoOverride}
           /\ IsFiniteSet(input.existing) /\ input.zone \in ZoneType /\ input.now \in Int
           /\ input.event.duration \in Nat /\ input.event.interval \in Nat
           /\ \A b \in input.existing : b.start \in Int /\ b.end \in Int
           /\ \A w \in AllWindows : w.start \in Nat /\ WindowEnd(w) \in Nat
<1>1. input.event \in EventType /\ input.override \in OverrideType \cup {NoOverride}
  BY InputsAssumption
<1>2. \A w \in AllWindows : w.start \in 0..DayLen-1 /\ WindowEnd(w) \in 0..DayLen
  BY <1>1, WindowTypes DEF AllWindows
<1> QED
  BY <1>1, <1>2, InputsAssumption, DayAssumption DEF EventType

\* The clamped indices of a booking and the minutes it counts for are the same.
LEMMA IndicesCount ==
    ASSUME input.zone \in ZoneType, NEW b, b.start \in Int, b.end \in Int, NEW i \in Minutes
    PROVE  (InDay(b, input.zone) /\ b.start < b.end /\ StartIdx(b) <= i /\ i < EndIdx(b))
              <=> Counts(b, input.zone, i)
BY DayAssumption
   DEF ZoneType, Minutes, InDay, StartIdx, EndIdx, Clamp, Counts, DayElapsed

\* Counting one more booking.
LEMMA CountOne ==
    ASSUME NEW S, IsFiniteSet(S), NEW b, b \notin S, NEW zone, NEW i
    PROVE  MinuteCount(S \cup {b}, zone, i) =
              IF Counts(b, zone, i) THEN Incr(MinuteCount(S, zone, i)) ELSE MinuteCount(S, zone, i)
<1> DEFINE C == CountedAt(S, zone, i)
<1>1. IsFiniteSet(C) /\ Cardinality(C) \in Nat /\ b \notin C
  BY FS_Subset, FS_CardinalityType DEF CountedAt
<1>2. CASE Counts(b, zone, i)
  <2>1. CountedAt(S \cup {b}, zone, i) = C \cup {b}
    BY <1>2 DEF CountedAt
  <2>2. Cardinality(C \cup {b}) = Cardinality(C) + 1
    BY <1>1, FS_AddElement
  <2> HIDE DEF C
  <2>3. Saturate(Cardinality(C) + 1) = Incr(Saturate(Cardinality(C)))
    BY <1>1, CountMaxAssumption DEF Saturate, Incr
  <2> QED
    BY <1>2, <2>1, <2>2, <2>3 DEF MinuteCount, C
<1>3. CASE ~Counts(b, zone, i)
  <2>1. CountedAt(S \cup {b}, zone, i) = C
    BY <1>3 DEF CountedAt
  <2> QED
    BY <1>3, <2>1 DEF MinuteCount
<1> QED
  BY <1>2, <1>3

-----------------------------------------------------------------------------
\* The start of the call.
LEMMA InitInv == Init => Inv
<1> SUFFICES ASSUME Init PROVE Inv
  OBVIOUS
<1> USE DEF Init
<1>1. TypeInv /\ PhaseOK
  BY DEF TypeInv, PhaseOK, AllWindows
<1>2. CountsOK
  <2>1. Counted = {}
    BY DEF Counted
  <2>2. \A i \in Minutes : MinuteCount({}, input.zone, i) = 0
    BY FS_EmptySet, CountMaxAssumption DEF MinuteCount, CountedAt, Saturate
  <2> QED
    BY <2>1, <2>2 DEF CountsOK
<1>3. EarliestOK
  BY DEF EarliestOK, Counted, AfterFirst
<1>4. SlotsOK /\ CursorOK
  BY DEF SlotsOK, Slots, CursorOK, AllWindows
<1>5. LoopComputesCalculateSlots
  BY DEF LoopComputesCalculateSlots
<1> QED
  BY <1>1, <1>2, <1>3, <1>4, <1>5 DEF Inv

\* The early return for an unavailable date.
LEMMA CheckUnavailableKeeps ==
    ASSUME Inv, CheckUnavailable
    PROVE  Inv'
<1> USE DEF Inv, CheckUnavailable
<1>1. TypeInv' /\ PhaseOK'
  BY DEF TypeInv, PhaseOK, AllWindows
<1>2. CountsOK' /\ EarliestOK'
  BY DEF CountsOK, EarliestOK, Counted
<1>3. SlotsOK' /\ CursorOK'
  BY DEF SlotsOK, Slots, CursorOK, AllWindows, Pushed
<1>4. slots' = {}
  BY DEF SlotsOK, Slots, PhaseOK
<1>5. LoopComputesCalculateSlots'
  BY <1>4 DEF LoopComputesCalculateSlots, CalculateSlots
<1> QED
  BY <1>1, <1>2, <1>3, <1>5

\* A booking is counted.
LEMMA CountBookingKeeps ==
    ASSUME Inv, NEW b \in todo, CountBooking(b)
    PROVE  Inv'
<1>0. /\ input' = input /\ pc = "count" /\ pc' = pc /\ unopened' = unopened /\ window' = window
      /\ cursor' = cursor /\ slots' = slots /\ todo' = todo \ {b}
  BY DEF CountBooking
<1>t. TypeInv /\ PhaseOK /\ CountsOK /\ EarliestOK /\ SlotsOK /\ CursorOK
  BY <1>0 DEF Inv
<1>i. /\ IsFiniteSet(input.existing) /\ input.zone \in ZoneType
      /\ b \in input.existing /\ b.start \in Int /\ b.end \in Int
  BY <1>t, InputTypes DEF TypeInv
<1>1. TypeInv' /\ PhaseOK'
  BY <1>0, <1>t DEF TypeInv, PhaseOK, AllWindows
<1>2. SlotsOK' /\ CursorOK'
  BY <1>0, <1>t DEF SlotsOK, Slots, CursorOK, AllWindows, Pushed
<1>3. /\ Counted' = Counted \cup {b} /\ b \notin Counted /\ IsFiniteSet(Counted)
      /\ \A i \in Minutes : MinuteCount(Counted, input.zone, i) = counts[i]
  <2>1. IsFiniteSet(Counted)
    BY <1>i, FS_Subset DEF Counted
  <2> QED
    BY <1>0, <1>t, <1>i, <2>1 DEF Counted, TypeInv, CountsOK
<1>4. CountsOK'
  <2>1. counts' = [i \in Minutes |-> IF Counts(b, input.zone, i) THEN Incr(counts[i]) ELSE counts[i]]
    <3>1. \A i \in Minutes :
             (InDay(b, input.zone) /\ b.start < b.end /\ StartIdx(b) <= i /\ i < EndIdx(b))
                <=> Counts(b, input.zone, i)
      BY <1>i, IndicesCount
    <3>2. CASE InDay(b, input.zone) /\ b.start < b.end
      BY <3>1, <3>2 DEF CountBooking
    <3>3. CASE ~(InDay(b, input.zone) /\ b.start < b.end)
      <4>1. counts' = counts /\ \A i \in Minutes : ~Counts(b, input.zone, i)
        BY <3>1, <3>3 DEF CountBooking
      <4> QED
        BY <1>t, <4>1 DEF CountsOK
    <3> QED
      BY <3>2, <3>3
  <2>2. \A i \in Minutes : MinuteCount(Counted \cup {b}, input.zone, i) = counts'[i]
    BY <1>3, <2>1, CountOne
  <2> QED
    BY <1>0, <1>3, <2>1, <2>2 DEF CountsOK
<1>5. EarliestOK'
  <2>1. CASE InDay(b, input.zone) /\ b.start < b.end
    <3>1. earliest' = IF \E e \in earliest : e <= b.start THEN earliest ELSE {b.start}
      BY <2>1 DEF CountBooking, Earliest
    <3>2. \A s \in Int : AfterFirst(Counted \cup {b}, input.zone, s)
                           <=> (AfterFirst(Counted, input.zone, s) \/ s > b.start)
      BY <2>1 DEF AfterFirst
    <3>3. earliest' \in SUBSET Int
      BY <1>t, <1>i, <3>1 DEF EarliestOK
    <3>4. ASSUME NEW s \in Int
          PROVE  (\E e \in earliest' : s > e) <=> (\E e \in earliest : s > e) \/ s > b.start
      BY <1>t, <1>i, <3>1 DEF EarliestOK
    <3> QED
      BY <1>0, <1>t, <1>3, <3>2, <3>3, <3>4 DEF EarliestOK
  <2>2. CASE ~(InDay(b, input.zone) /\ b.start < b.end)
    <3>1. \A s \in Int : AfterFirst(Counted \cup {b}, input.zone, s)
                           <=> AfterFirst(Counted, input.zone, s)
      BY <2>2 DEF AfterFirst
    <3> QED
      BY <1>0, <1>t, <1>3, <2>2, <3>1 DEF EarliestOK, CountBooking
  <2> QED
    BY <2>1, <2>2
<1>6. LoopComputesCalculateSlots'
  BY <1>0 DEF LoopComputesCalculateSlots
<1> QED
  BY <1>0, <1>1, <1>2, <1>4, <1>5, <1>6 DEF Inv

\* The bookings are counted; a zero duration or interval ends the call.
LEMMA StartWindowsKeeps ==
    ASSUME Inv, StartWindows
    PROVE  Inv'
<1> USE DEF Inv, StartWindows
<1>1. TypeInv' /\ PhaseOK'
  BY DEF TypeInv, PhaseOK, AllWindows, Proper
<1>2. CountsOK' /\ EarliestOK'
  BY DEF CountsOK, EarliestOK, Counted
<1>3. SlotsOK' /\ CursorOK'
  BY DEF SlotsOK, Slots, CursorOK, AllWindows, Pushed
<1>4. slots' = {}
  BY DEF SlotsOK, Slots, PhaseOK
<1>5. LoopComputesCalculateSlots'
  BY <1>4 DEF LoopComputesCalculateSlots, CalculateSlots
<1> QED
  BY <1>1, <1>2, <1>3, <1>5

\* A window is opened: its cursor starts before every slot of the window.
LEMMA OpenWindowKeeps ==
    ASSUME Inv, NEW w \in unopened, OpenWindow(w)
    PROVE  Inv'
<1>0. /\ pc = "window" /\ pc' = "cursor" /\ unopened' = unopened \ {w} /\ window' = {w}
      /\ cursor' = w.start /\ input' = input /\ todo' = todo /\ counts' = counts
      /\ earliest' = earliest /\ slots' = slots
  BY DEF OpenWindow
<1>t. /\ TypeInv /\ PhaseOK /\ CountsOK /\ EarliestOK /\ SlotsOK
      /\ window = {} /\ w \in AllWindows /\ Proper /\ AllWindows' = AllWindows
  BY <1>0 DEF Inv, TypeInv, PhaseOK, AllWindows
<1>i. /\ w.start \in Nat /\ WindowEnd(w) \in Nat
      /\ input.event.interval \in Nat \ {0}
  BY <1>t, InputTypes DEF TypeInv, Proper
<1>1. TypeInv' /\ PhaseOK'
  BY <1>0, <1>t, <1>i DEF TypeInv, PhaseOK, Proper
<1>2. CountsOK' /\ EarliestOK'
  BY <1>0, <1>t DEF CountsOK, EarliestOK, Counted
<1>3. CursorOK'
  <2>1. (w.start - w.start) % input.event.interval = 0
    BY <1>i
  <2> QED
    BY <1>0, <1>i, <2>1 DEF CursorOK
<1>4. SlotsOK'
  <2>1. \A c \in Pushed(w) : ~(c < w.start)
    BY <1>i DEF Pushed, Cursors
  <2>2. AllWindows \ (unopened' \cup window') = AllWindows \ (unopened \cup window)
    BY <1>0, <1>t
  <2>3. Slots(AllWindows \ (unopened \cup window), {w}, w.start)
           = Slots(AllWindows \ (unopened \cup window), {}, cursor)
    BY <2>1 DEF Slots
  <2>4. slots = Slots(AllWindows \ (unopened \cup window), {w}, w.start)
    BY <1>t, <2>3 DEF SlotsOK
  <2> QED
    BY <1>0, <1>t, <2>2, <2>4 DEF SlotsOK, Slots, Pushed
<1>5. LoopComputesCalculateSlots'
  BY <1>0 DEF LoopComputesCalculateSlots
<1> QED
  BY <1>0, <1>1, <1>2, <1>3, <1>4, <1>5 DEF Inv

\* The test of the loop decides as the closed form does.
LEMMA TestDecides ==
    ASSUME Inv, NEW w \in window, TestCursor(w)
    PROVE  /\ cursor \in Cursors(input.event, w)
           /\ slots' = IF cursor \in Pushed(w)
                       THEN slots \cup {Elapsed(input.zone, cursor)} ELSE slots
<1> DEFINE slot == Elapsed(input.zone, cursor)
<1>t. /\ TypeInv /\ PhaseOK /\ CountsOK /\ EarliestOK /\ CursorOK /\ pc = "cursor"
      /\ w \in AllWindows /\ Counted = input.existing
  BY DEF Inv, TestCursor, TypeInv, PhaseOK, Counted
<1>i. /\ input.event.duration \in Nat /\ input.event.interval \in Nat
      /\ w.start \in Nat /\ WindowEnd(w) \in Nat /\ input.zone \in ZoneType /\ cursor \in Nat
  BY <1>t, InputTypes DEF TypeInv
<1>1. cursor \in Cursors(input.event, w)
  BY <1>t, <1>i DEF TestCursor, CursorOK, Cursors
<1>2. slot \in Int
  BY <1>i DEF Elapsed, ZoneType
<1>3. RequiredCutoff(slot) = Cutoff(input.event, input.existing, input.zone, input.now, slot)
  BY <1>t, <1>2 DEF RequiredCutoff, Cutoff, EarliestOK
<1>4. CapacityOk(w) <=> HasRoom(input.existing, input.zone, cursor, input.event.duration,
                                WindowCapacity(input.event, input.override, w))
  <2>1. \A i \in cursor..(cursor + input.event.duration - 1) :
           i < DayLen => counts[i] = MinuteCount(input.existing, input.zone, i)
    BY <1>t, <1>i, DayAssumption DEF CountsOK, Minutes
  <2> QED
    BY <2>1 DEF CapacityOk, HasRoom
<1>5. cursor \in Pushed(w) <=>
         /\ IsSingle(input.zone, cursor)
         /\ slot > RequiredCutoff(slot)
         /\ slot >= input.event.activeStart
         /\ slot + input.event.duration <= input.event.activeEnd
         /\ CapacityOk(w)
  BY <1>1, <1>3, <1>4 DEF Pushed, CursorOffered
<1> QED
  BY <1>1, <1>5 DEF TestCursor

\* One round of the while loop.
LEMMA TestCursorKeeps ==
    ASSUME Inv, NEW w \in window, TestCursor(w)
    PROVE  Inv'
<1> DEFINE d == input.event.interval
           walked == AllWindows \ (unopened \cup window)
<1>0. /\ pc = "cursor" /\ pc' = pc /\ unopened' = unopened /\ window' = window
      /\ cursor' = cursor + d /\ input' = input /\ todo' = todo /\ counts' = counts
      /\ earliest' = earliest
  BY DEF TestCursor
<1>t. /\ TypeInv /\ PhaseOK /\ CountsOK /\ EarliestOK /\ SlotsOK /\ CursorOK
      /\ window = {w} /\ w \in AllWindows /\ Proper /\ AllWindows' = AllWindows
  BY <1>0 DEF Inv, TypeInv, PhaseOK, AllWindows
<1>i. /\ w.start \in Nat /\ WindowEnd(w) \in Nat /\ d \in Nat \ {0}
      /\ cursor \in Nat /\ cursor - w.start \in Nat /\ (cursor - w.start) % d = 0
  BY <1>t, InputTypes DEF TypeInv, Proper, CursorOK
<1> HIDE DEF d
<1>1. TypeInv' /\ PhaseOK'
  BY <1>0, <1>t, <1>i DEF TypeInv, PhaseOK, Proper
<1>2. CountsOK' /\ EarliestOK'
  BY <1>0, <1>t DEF CountsOK, EarliestOK, Counted
<1>n. /\ ((cursor - w.start) + d) % d = 0
      /\ \A y \in Nat : y % d = 0 /\ cursor - w.start < y => (cursor - w.start) + d <= y
  <2>1. PICK x \in Nat : x = cursor - w.start
    BY <1>i
  <2>2. d > 0
    BY <1>i
  <2>3. (x + d) % d = 0 /\ \A y \in Nat : y % d = 0 /\ x < y => x + d <= y
    BY <1>i, <2>1, <2>2, NextMultiple
  <2> QED
    BY <2>1, <2>3
<1>3. CursorOK'
  <2>1. (cursor + d) - w.start = (cursor - w.start) + d
    BY <1>i
  <2> QED
    BY <1>0, <1>t, <1>i, <1>n, <2>1 DEF CursorOK, d
<1>4. SlotsOK'
  <2>1. \A c \in Pushed(w) : c < cursor + d <=> (c < cursor \/ c = cursor)
    <3> SUFFICES ASSUME NEW c \in Pushed(w)
                 PROVE  c < cursor + d <=> (c < cursor \/ c = cursor)
      OBVIOUS
    <3>1. c \in Nat /\ c - w.start \in Nat /\ (c - w.start) % d = 0
      BY <1>i DEF Pushed, Cursors, d
    <3>2. cursor - w.start < c - w.start => (cursor - w.start) + d <= c - w.start
      BY <3>1, <1>n
    <3> QED
      BY <1>i, <3>1, <3>2
  <2>2. Slots(walked, {w}, cursor + d) =
           IF cursor \in Pushed(w)
           THEN Slots(walked, {w}, cursor) \cup {Elapsed(input.zone, cursor)}
           ELSE Slots(walked, {w}, cursor)
    BY <2>1 DEF Slots
  <2>3. slots' = Slots(walked, {w}, cursor + d)
    BY <1>t, <2>2, TestDecides DEF SlotsOK
  <2> QED
    BY <1>0, <1>t, <2>3 DEF SlotsOK, Slots, Pushed
<1>5. LoopComputesCalculateSlots'
  BY <1>0 DEF LoopComputesCalculateSlots
<1> QED
  BY <1>0, <1>1, <1>2, <1>3, <1>4, <1>5 DEF Inv

\* The cursor has passed every slot of the window.
LEMMA CloseWindowKeeps ==
    ASSUME Inv, NEW w \in window, CloseWindow(w)
    PROVE  Inv'
<1>0. /\ pc = "cursor" /\ pc' = "window" /\ unopened' = unopened /\ window' = {}
      /\ cursor' = cursor /\ input' = input /\ todo' = todo /\ counts' = counts
      /\ earliest' = earliest /\ slots' = slots
      /\ cursor + input.event.duration > WindowEnd(w)
  BY DEF CloseWindow
<1>t. /\ TypeInv /\ PhaseOK /\ CountsOK /\ EarliestOK /\ SlotsOK
      /\ window = {w} /\ w \in AllWindows \ unopened /\ Proper /\ AllWindows' = AllWindows
  BY <1>0 DEF Inv, TypeInv, PhaseOK, AllWindows
<1>i. /\ w.start \in Nat /\ WindowEnd(w) \in Nat /\ input.event.duration \in Nat /\ cursor \in Nat
  BY <1>t, InputTypes DEF TypeInv
<1>1. TypeInv' /\ PhaseOK'
  BY <1>0, <1>t DEF TypeInv, PhaseOK, Proper
<1>2. CountsOK' /\ EarliestOK' /\ CursorOK'
  BY <1>0, <1>t DEF CountsOK, EarliestOK, Counted, CursorOK
<1>3. SlotsOK'
  <2>1. \A c \in Pushed(w) : c < cursor
    BY <1>0, <1>i DEF Pushed, Cursors
  <2>2. AllWindows \ unopened = (AllWindows \ (unopened \cup {w})) \cup {w}
    BY <1>t
  <2>3. Slots(AllWindows \ unopened, {}, cursor) = Slots(AllWindows \ (unopened \cup {w}), {w}, cursor)
    BY <2>1, <2>2 DEF Slots
  <2>4. slots = Slots(AllWindows \ unopened, {}, cursor)
    BY <1>t, <2>3 DEF SlotsOK
  <2> QED
    BY <1>0, <1>t, <2>4 DEF SlotsOK, Slots, Pushed
<1>4. LoopComputesCalculateSlots'
  BY <1>0 DEF LoopComputesCalculateSlots
<1> QED
  BY <1>0, <1>1, <1>2, <1>3, <1>4 DEF Inv

\* All windows are walked: what has been pushed is the closed form.
LEMMA ReturnKeeps ==
    ASSUME Inv, Return
    PROVE  Inv'
<1>0. /\ pc = "window" /\ unopened = {} /\ window = {} /\ Proper /\ SlotsOK
      /\ pc' = "done" /\ UNCHANGED <<input, todo, counts, earliest, unopened, window, cursor, slots>>
  BY DEF Inv, Return, PhaseOK
<1>1. TypeInv' /\ PhaseOK'
  BY <1>0 DEF Inv, TypeInv, PhaseOK, AllWindows
<1>2. CountsOK' /\ EarliestOK'
  BY <1>0 DEF Inv, CountsOK, EarliestOK, Counted
<1>3. slots = CalculateSlots(input.event, input.override, input.existing, input.zone, input.now)
  BY <1>0 DEF SlotsOK, Slots, Proper, CalculateSlots, AllWindows, Pushed
<1>4. LoopComputesCalculateSlots'
  BY <1>0, <1>3 DEF LoopComputesCalculateSlots
<1> QED
  BY <1>0, <1>1, <1>2, <1>4 DEF Inv

\* Every step keeps the invariant.
LEMMA NextInv == Inv /\ [Next]_vars => Inv'
<1> SUFFICES ASSUME Inv, [Next]_vars PROVE Inv'
  OBVIOUS
<1>1. CASE UNCHANGED vars
  <2> USE <1>1 DEF vars
  <2>1. TypeInv' = TypeInv /\ PhaseOK' = PhaseOK /\ CursorOK' = CursorOK
    BY DEF TypeInv, PhaseOK, CursorOK, AllWindows, Proper
  <2>2. CountsOK' = CountsOK /\ EarliestOK' = EarliestOK
    BY DEF CountsOK, EarliestOK, Counted
  <2>3. SlotsOK' = SlotsOK
    BY DEF SlotsOK, Slots, AllWindows, Pushed
  <2>4. LoopComputesCalculateSlots' = LoopComputesCalculateSlots
    BY DEF LoopComputesCalculateSlots
  <2> QED
    BY <2>1, <2>2, <2>3, <2>4 DEF Inv
<1> QED
  BY <1>1, CheckUnavailableKeeps, CountBookingKeeps, StartWindowsKeeps, OpenWindowKeeps,
     TestCursorKeeps, CloseWindowKeeps, ReturnKeeps DEF Next

\* The invariant holds throughout the call.
LEMMA Invariance == Spec => []Inv
BY InitInv, NextInv, PTL DEF Spec

-----------------------------------------------------------------------------
\* The loops of calculate_slots return the closed form, whatever the clock, the
\* override, the order of bookings and windows and the width of the counters.
THEOREM LoopIsCorrect == Spec => []LoopComputesCalculateSlots
<1>1. Inv => LoopComputesCalculateSlots
  BY DEF Inv
<1> QED
  BY <1>1, Invariance, PTL

\* valid_slots never holds a slot that the closed form does not have.
LEMMA SlotsSound ==
    ASSUME Inv
    PROVE  slots \subseteq CalculateSlots(input.event, input.override, input.existing,
                                          input.zone, input.now)
<1>1. CASE pc = "done"
  BY <1>1 DEF Inv, LoopComputesCalculateSlots
<1>2. CASE pc \in {"start", "count"}
  BY <1>2 DEF Inv, PhaseOK, SlotsOK, Slots
<1>3. CASE pc \in {"window", "cursor"}
  <2>1. Proper /\ SlotsOK /\ window \subseteq AllWindows
    BY <1>3 DEF Inv, PhaseOK, TypeInv
  <2> QED
    BY <2>1 DEF SlotsOK, Slots, Proper, CalculateSlots, AllWindows, Pushed
<1> QED
  BY <1>1, <1>2, <1>3 DEF Inv, TypeInv

\* On a date without a clock change a slot is offered only if every minute it
\* covers, but the last of the date, has a free place, as long as the capacities
\* fit into the counters.
THEOREM OfferedSlotsHaveRoom == Spec => []OfferedHasRoom
<1>1. ASSUME Inv PROVE OfferedHasRoom
  <2> SUFFICES ASSUME input.zone.shift = 0, CapacitiesFit, NEW s \in slots
               PROVE  RoomIn(s, SlotMinutes(s) \ {DayElapsed(input.zone) - 1})
    BY DEF OfferedHasRoom, OfferedHasRoomOnEveryDate
  <2>i. /\ input.event \in EventType /\ input.override \in OverrideType \cup {NoOverride}
        /\ IsFiniteSet(input.existing) /\ input.zone \in ZoneType
        /\ \A b \in input.existing : b.start \in Int /\ b.end \in Int
    BY <1>1, InputTypes DEF Inv, TypeInv
  <2>1. PICK w \in AllWindows : \E c \in Cursors(input.event, w) :
           /\ Elapsed(input.zone, c) = s
           /\ CursorOffered(input.event, input.override, input.existing, input.zone, input.now, w, c)
    BY <1>1, SlotsSound, SlotHasCursor DEF AllWindows
  <2>2. PICK c \in Cursors(input.event, w) :
           /\ Elapsed(input.zone, c) = s
           /\ CursorOffered(input.event, input.override, input.existing, input.zone, input.now, w, c)
    BY <2>1
  <2>3. c \in Nat /\ c = s /\ DayElapsed(input.zone) = DayLen
    BY <2>i, <2>2, CursorInDay, DayAssumption DEF Elapsed, DayElapsed, ZoneType, AllWindows
  <2>4. \A m \in SlotMinutes(s) \ {DayElapsed(input.zone) - 1} :
           Cardinality(Overlapping(m)) < WindowCapacity(input.event, input.override, w)
    BY <2>i, <2>2, <2>3, OfferedCursorHasRoom
       DEF SlotMinutes, Overlapping, CapacitiesFit, AllWindows
  <2> QED
    BY <2>2, <2>4 DEF RoomIn, AllWindows
<1> QED
  BY <1>1, Invariance, PTL

-----------------------------------------------------------------------------
\* The public listings.

\* The dates follow one another, each DayLen minutes long.
LEMMA DateOrder ==
    ASSUME NEW c \in Int, NEW d \in Int, c <= d
    PROVE  /\ DayStart(c) \in Int /\ DayEnd(c) = DayStart(c) + DayLen
           /\ DayStart(c) <= DayStart(d) /\ DayEnd(c) <= DayEnd(d)
<1>1. DayLen \in Int /\ DayLen > 0
  BY DayAssumption
<1>2. c * DayLen \in Int /\ d * DayLen \in Int
  BY <1>1
<1>3. (c + 1) * DayLen = c * DayLen + DayLen /\ (d + 1) * DayLen = d * DayLen + DayLen
  BY <1>1
<1>4. PICK n \in Nat : d = c + n
  <2>1. d - c \in Nat /\ d = c + (d - c)
    OBVIOUS
  <2> QED
    BY <2>1
<1>5. d * DayLen = c * DayLen + n * DayLen /\ n * DayLen \in Nat
  BY <1>1, <1>4
<1> QED
  BY <1>1, <1>2, <1>3, <1>5 DEF DayStart, DayEnd

\* Sorting the bookings of a range into its dates gives what the database returns for
\* each of them.
LEMMA DayBookingsOfRange ==
    ASSUME NEW rows, \A b \in rows : b.start \in Int /\ b.end \in Int,
           NEW first \in Int, NEW last \in Int, NEW d \in first..last
    PROVE  DayBookings(ListByRange(rows, first, last), d) = ListByRange(rows, d, d)
<1>1. /\ DayStart(first) \in Int /\ DayStart(d) \in Int /\ DayEnd(d) \in Int /\ DayEnd(last) \in Int
      /\ DayStart(first) <= DayStart(d) /\ DayEnd(d) <= DayEnd(last)
  BY DateOrder, DayAssumption
<1> QED
  BY <1>1 DEF DayBookings, ListByRange

\* A slot of a date without a clock change lies in the date and in the active range
\* of the event.
LEMMA SlotWithin ==
    ASSUME NEW e \in EventType, NEW o \in OverrideType \cup {NoOverride}, NEW rows, NEW t,
           NEW slot \in CalculateSlots(e, o, rows, NoChange, t)
    PROVE  /\ slot \in Int /\ 0 <= slot /\ slot < DayLen
           /\ slot >= e.activeStart /\ slot < e.activeEnd
<1>1. PICK w \in Windows(e, o) : \E c \in Cursors(e, w) :
         Elapsed(NoChange, c) = slot /\ CursorOffered(e, o, rows, NoChange, t, w, c)
  BY SlotHasCursor
<1>2. PICK c \in Cursors(e, w) :
         Elapsed(NoChange, c) = slot /\ CursorOffered(e, o, rows, NoChange, t, w, c)
  BY <1>1
<1>3. c \in Nat /\ c + e.duration <= DayLen /\ e.duration \in Nat
  BY CursorInDay
<1>4. e.duration # 0
  BY DEF CalculateSlots
<1>5. slot = c
  BY <1>2, <1>3 DEF Elapsed, NoChange
<1>6. slot >= e.activeStart /\ slot + e.duration <= e.activeEnd
  BY <1>2 DEF CursorOffered
<1>7. e.activeStart \in Int /\ e.activeEnd \in Int
  BY DEF EventType
<1> QED
  BY <1>3, <1>4, <1>5, <1>6, <1>7, DayAssumption

\* An event with another active range.
LEMMA ActiveType ==
    ASSUME NEW event \in EventType, NEW from \in Int, NEW to \in Int
    PROVE  /\ ActiveUntil(ActiveFrom(event, from), to) \in EventType
           /\ ActiveUntil(ActiveFrom(event, from), to).activeStart = from
           /\ ActiveUntil(ActiveFrom(event, from), to).activeEnd = to
           /\ ActiveUntil(ActiveFrom(event, from), to).access = event.access
<1>1. PICK e : e = ActiveFrom(event, from)
  OBVIOUS
<1>2. e \in EventType /\ e.activeStart = from /\ e.access = event.access
  BY <1>1 DEF ActiveFrom, EventType
<1>3. /\ ActiveUntil(e, to) \in EventType /\ ActiveUntil(e, to).activeStart = e.activeStart
      /\ ActiveUntil(e, to).activeEnd = to /\ ActiveUntil(e, to).access = e.access
  BY <1>2 DEF ActiveUntil, EventType
<1> QED
  BY <1>1, <1>2, <1>3

\* A date that shows a slot passes the test of get_available_dates against the active
\* range.
LEMMA SlotInRange ==
    ASSUME NEW event \in EventType, NEW o \in OverrideType \cup {NoOverride}, NEW rows,
           NEW d \in Int, NEW t, NEW slot \in SlotsOf(event, o, rows, d, t)
    PROVE  DayEnd(d) > event.activeStart /\ DayStart(d) <= event.activeEnd
<1> DEFINE moved == ActiveUntil(ActiveFrom(event, event.activeStart - DayStart(d)),
                                event.activeEnd - DayStart(d))
<1>1. DayStart(d) \in Int /\ DayEnd(d) = DayStart(d) + DayLen
  BY DateOrder
<1>2. event.activeStart \in Int /\ event.activeEnd \in Int
  BY DEF EventType
<1>3. /\ moved \in EventType
      /\ moved.activeStart = event.activeStart - DayStart(d)
      /\ moved.activeEnd = event.activeEnd - DayStart(d)
  BY <1>1, <1>2, ActiveType
<1>4. PICK there, u : slot \in CalculateSlots(moved, o, there, NoChange, u)
  BY DEF SlotsOf
<1> HIDE DEF moved
<1>5. /\ slot \in Int /\ 0 <= slot /\ slot < DayLen
      /\ slot >= moved.activeStart /\ slot < moved.activeEnd
  BY <1>3, <1>4, SlotWithin
<1> QED
  BY <1>1, <1>2, <1>3, <1>5, DayAssumption

\* The two listings agree about the dates from first to last.
ListingsAgree(event, overrides, rows, first, last, t) ==
    GetAvailableDates(event, overrides, rows, first, last, t) =
        {d \in first..last : GetSlots(event, overrides, rows, d, t) # {}}

\* For any range of dates, any event that is not CLOSED, any overrides and bookings:
\* get_available_dates lists a date if and only if get_slots shows a slot on it.
THEOREM CalendarAgrees ==
    ASSUME NEW event \in EventType, event.access # "CLOSED",
           NEW first \in Int, NEW last \in Int,
           NEW overrides \in [first..last -> OverrideType \cup {NoOverride}],
           NEW rows, \A b \in rows : b.start \in Int /\ b.end \in Int, NEW t
    PROVE  ListingsAgree(event, overrides, rows, first, last, t)
<1>1. ASSUME NEW d \in first..last
      PROVE  /\ DayBookings(ListByRange(rows, first, last), d) = ListByRange(rows, d, d)
             /\ SlotsOf(event, overrides[d], ListByRange(rows, d, d), d, t) # {} =>
                   DayEnd(d) > event.activeStart /\ DayStart(d) <= event.activeEnd
  BY DayBookingsOfRange, SlotInRange
<1> QED
  BY <1>1 DEF ListingsAgree, GetAvailableDates, GetSlots

\* The same of the calls of SlotLoop, on the three dates around theirs.
THEOREM CalendarCorrect == Spec => []CalendarMatchesSlots
<1>1. ASSUME Inv PROVE CalendarMatchesSlots
  <2> SUFFICES ASSUME input.event.access # "CLOSED",
                      NEW from \in {-DayLen, 1, DayLen + 3}, NEW to \in {-DayLen, 1, DayLen + 3}
               PROVE  LET event == ActiveUntil(ActiveFrom(input.event, from), to)
                      IN  GetAvailableDates(event, Overridden, input.existing, -1, 1, input.now) =
                            {d \in Dates : GetSlots(event, Overridden, input.existing, d, input.now) # {}}
    BY DEF CalendarMatchesSlots
  <2> DEFINE event == ActiveUntil(ActiveFrom(input.event, from), to)
  <2>1. /\ input.event \in EventType /\ input.override \in OverrideType \cup {NoOverride}
        /\ \A b \in input.existing : b.start \in Int /\ b.end \in Int
    BY <1>1, InputTypes DEF Inv, TypeInv
  <2>2. event \in EventType /\ event.access # "CLOSED"
    BY <2>1, DayAssumption, ActiveType
  <2>3. Overridden \in [(-1)..1 -> OverrideType \cup {NoOverride}]
    BY <2>1 DEF Overridden, Dates
  <2>4. PICK ov, rows, t, e, first, last :
           /\ ov = Overridden /\ rows = input.existing /\ t = input.now /\ e = event
           /\ first = -1 /\ last = 1
    OBVIOUS
  <2> HIDE DEF event
  <2>5. ListingsAgree(e, ov, rows, first, last, t)
    <3>1. /\ e \in EventType /\ e.access # "CLOSED" /\ first \in Int /\ last \in Int
          /\ ov \in [first..last -> OverrideType \cup {NoOverride}]
          /\ \A b \in rows : b.start \in Int /\ b.end \in Int
      BY <2>1, <2>2, <2>3, <2>4
    <3> QED
      BY <3>1, CalendarAgrees
  <2> QED
    BY <2>4, <2>5 DEF ListingsAgree, event, Dates
<1> QED
  BY <1>1, Invariance, PTL
=============================================================================
