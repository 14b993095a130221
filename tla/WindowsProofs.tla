--------------------------- MODULE WindowsProofs ---------------------------
(***************************************************************************)
(* Facts about the arithmetic of Windows, for every resolution, interval   *)
(* and lag.                                                                *)
(***************************************************************************)
EXTENDS Windows, TLAPS

\* math.floor loses less than a second.
LEMMA FloorBounds ==
    ASSUME NEW t \in Nat
    PROVE  /\ Second(t) \in Nat
           /\ Second(t) * TicksPerSecond <= t
           /\ t < Second(t) * TicksPerSecond + TicksPerSecond
BY WindowsAssumption DEF WindowsAssumption, Second

LEMMA WindowTyped ==
    ASSUME NEW t \in Nat
    PROVE  Window(t) \in WindowType
BY FloorBounds, WindowsAssumption DEF WindowsAssumption, Window, WindowType

\* The product of a difference of seconds, spread out for the prover.
LEMMA SecondsScaled ==
    ASSUME NEW x \in Int, NEW y \in Int
    PROVE  /\ (x - y + TestInterval) * TicksPerSecond
                = x * TicksPerSecond - y * TicksPerSecond + IntervalTicks
           /\ (x - y - TestInterval) * TicksPerSecond
                = x * TicksPerSecond - y * TicksPerSecond - IntervalTicks
BY WindowsAssumption DEF WindowsAssumption, IntervalTicks

\* Two clock readings at least an interval less d ticks apart open windows
\* that overlap by less than one second and d ticks.
LEMMA OverlapOfWindows ==
    ASSUME NEW a \in Nat, NEW b \in Nat, NEW d \in Int,
           b >= a + IntervalTicks - d
    PROVE  (Window(a).end - Window(b).start) * TicksPerSecond < TicksPerSecond + d
<1>1. Window(a).end - Window(b).start = Second(a) - Second(b) + TestInterval
  BY FloorBounds, WindowsAssumption DEF Window, WindowsAssumption
<1>2. (Window(a).end - Window(b).start) * TicksPerSecond
        = Second(a) * TicksPerSecond - Second(b) * TicksPerSecond + IntervalTicks
  BY <1>1, SecondsScaled, FloorBounds
<1>3. /\ IntervalTicks \in Int /\ TicksPerSecond \in Int
      /\ Second(a) * TicksPerSecond \in Int /\ Second(b) * TicksPerSecond \in Int
  BY FloorBounds, WindowsAssumption DEF WindowsAssumption, IntervalTicks
<1> QED
  BY <1>2, <1>3, FloorBounds

\* Two clock readings at most an interval and d ticks apart open windows with
\* a gap of less than one second and d ticks between them.
LEMMA GapBetweenWindows ==
    ASSUME NEW a \in Nat, NEW b \in Nat, NEW d \in Int,
           b <= a + IntervalTicks + d
    PROVE  (Window(b).start - Window(a).end) * TicksPerSecond < TicksPerSecond + d
<1>1. Window(b).start - Window(a).end = Second(b) - Second(a) - TestInterval
  BY FloorBounds, WindowsAssumption DEF Window, WindowsAssumption
<1>2. (Window(b).start - Window(a).end) * TicksPerSecond
        = Second(b) * TicksPerSecond - Second(a) * TicksPerSecond - IntervalTicks
  BY <1>1, SecondsScaled, FloorBounds
<1>3. /\ IntervalTicks \in Int /\ TicksPerSecond \in Int
      /\ Second(a) * TicksPerSecond \in Int /\ Second(b) * TicksPerSecond \in Int
  BY FloorBounds, WindowsAssumption DEF WindowsAssumption, IntervalTicks
<1> QED
  BY <1>2, <1>3, FloorBounds
=============================================================================
