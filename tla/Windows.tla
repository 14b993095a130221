------------------------------ MODULE Windows ------------------------------
(***************************************************************************)
(* Test windows and deadlines of SCGRep: the arithmetic at the head of     *)
(* run_cycle (scgrep/test_cycle.py) and the half-open ZCOUNT ranges of     *)
(* scgrep/redis_store.py.                                                  *)
(*                                                                         *)
(* An instant is a number of ticks; TicksPerSecond of them make the second *)
(* that math.floor and epoch_to_iso truncate to.  A window is kept, as in  *)
(* the code, in whole seconds.                                             *)
(***************************************************************************)
EXTENDS Integers

CONSTANTS
    TicksPerSecond,  \* resolution of the clocks below one second
    TestInterval,    \* TEST_INTERVAL, in seconds
    TimeLag          \* TIME_LAG, in seconds

\* Config.from_env rejects a non-positive interval and a negative lag.
ASSUME WindowsAssumption ==
    /\ TicksPerSecond \in Nat \ {0}
    /\ TestInterval \in Nat \ {0}
    /\ TimeLag \in Nat

IntervalTicks == TestInterval * TicksPerSecond

\* 0.95 * TEST_INTERVAL: the tick in which the shared deadline falls.
DeadlineTicks == (95 * IntervalTicks) \div 100

\* math.floor / the truncation of epoch_to_iso.
Second(t) == t \div TicksPerSecond

\* Mutant: an interval one second too long.
WindowTooLong(now) ==
    LET end == Second(now) - TimeLag
    IN  [start |-> end - TestInterval - 1, end |-> end]

\* The window of a cycle that reads `now` from the wall clock.
Window(now) ==
    LET end == Second(now) - TimeLag
    IN  [start |-> end - TestInterval, end |-> end]

WindowType == {w \in [start : Int, end : Int] : w.end = w.start + TestInterval}

\* Mutant: the closed range the service itself uses.
InWindowClosed(w, t) == /\ w.start <= Second(t)
                        /\ Second(t) <= w.end

\* ZCOUNT start (end: is an instant inside the half-open window [start, end)?
InWindow(w, t) == /\ w.start * TicksPerSecond <= t
                  /\ t < w.end * TicksPerSecond

\* The closed interval a Global Replay service answers for: it takes in the
\* whole boundary second.
Requested(w, t) == /\ w.start <= Second(t)
                   /\ Second(t) <= w.end
=============================================================================
