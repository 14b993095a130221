----------------------------- MODULE Scheduler -----------------------------
(***************************************************************************)
(* The main thread of SCGRep: Scheduler.run (scgrep/main.py) and the shell *)
(* of run_cycle it calls (scgrep/test_cycle.py), reduced to the clock      *)
(* readings that place a cycle, the instant it may publish and how it      *)
(* ends.  TestCycle is shown to implement this module.                     *)
(*                                                                         *)
(* The thread reads two clocks at three points: time.monotonic() into      *)
(* `started`, then time.time() into `now` and time.monotonic() into        *)
(* `cycle_start` inside run_cycle.  It can be held up between any two of   *)
(* them and after a wait; StartLag and WakeLag bound for how long.         *)
(***************************************************************************)
EXTENDS Windows, Sequences

CONSTANTS
    WakeLag,      \* ticks the thread may lose between a due time and `started`
    StartLag,     \* ticks it may lose between `started` and `now`
    Adjustments,  \* steps an operator or NTP may make the wall clock take
    MaxSkew,      \* bound on how far the wall clock is ahead of the monotonic one
    MaxClock      \* bound on the monotonic clock

ASSUME SchedulerAssumption ==
    /\ WakeLag \in Nat
    /\ StartLag \in Nat
    /\ Adjustments \subseteq Int
    /\ MaxSkew \in Nat
    /\ MaxClock \in Nat

VARIABLES
    clock,      \* time.monotonic()
    wall,       \* time.time()
    pc,         \* where Scheduler.run is
    wakeAt,     \* when the wait in progress times out
    startedAt,  \* the local `started`
    stop,       \* the _stop event
    begun,      \* history: one record per cycle begun
    ended,      \* history: one record per cycle that has returned or raised
    late        \* history: cycles begun after _stop was set

vars == <<clock, wall, pc, wakeAt, startedAt, stop, begun, ended, late>>

BegunType ==
    [startedAt : Nat, skew : Int, window : WindowType, deadlineAt : Nat]

EndedType == [at : Nat, published : BOOLEAN]

TypeOK ==
    /\ clock \in Nat
    /\ wall \in Nat
    /\ pc \in {"waiting", "woken", "starting", "cycle", "stopped"}
    /\ wakeAt \in Nat
    /\ startedAt \in Nat
    /\ stop \in BOOLEAN
    /\ begun \in Seq(BegunType)
    /\ ended \in Seq(EndedType)
    /\ late \in Nat

-----------------------------------------------------------------------------
(* The steps of the scheduler thread.                                      *)

\* The first wait, one full interval; stop.wait(interval).
Init ==
    /\ clock = 0
    /\ wall \in 0 .. MaxSkew
    /\ pc = "waiting"
    /\ wakeAt = IntervalTicks
    /\ startedAt = 0
    /\ stop = FALSE
    /\ begun = << >>
    /\ ended = << >>
    /\ late = 0

\* _stop.wait returns False: the timeout passed and the flag was not set.
WaitTimesOut ==
    /\ pc = "waiting"
    /\ clock >= wakeAt
    /\ ~stop
    /\ pc' = "woken"
    /\ UNCHANGED <<clock, wall, wakeAt, startedAt, stop, begun, ended, late>>

\* _stop.wait returns True, at once when the flag is set.
WaitStopped ==
    /\ pc = "waiting"
    /\ stop
    /\ pc' = "stopped"
    /\ UNCHANGED <<clock, wall, wakeAt, startedAt, stop, begun, ended, late>>

\* Mutant: the loop clears the stop event at the start of an iteration.
ReadStartedClearsStop ==
    /\ pc = "woken"
    /\ startedAt' = clock
    /\ pc' = "starting"
    /\ stop' = FALSE
    /\ UNCHANGED <<clock, wall, wakeAt, begun, ended, late>>

\* started = time.monotonic()
ReadStarted ==
    /\ pc = "woken"
    /\ startedAt' = clock
    /\ pc' = "starting"
    /\ UNCHANGED <<clock, wall, wakeAt, stop, begun, ended, late>>

\* run_cycle opens its window and fixes its deadline.
BeginCycle ==
    /\ pc = "starting"
    /\ begun' = Append(begun, [startedAt  |-> startedAt,
                               skew       |-> wall - clock,
                               window     |-> Window(wall),
                               deadlineAt |-> clock + DeadlineTicks])
    /\ late' = IF stop THEN late + 1 ELSE late
    /\ pc' = "cycle"
    /\ UNCHANGED <<clock, wall, wakeAt, startedAt, stop, ended>>

\* Mutant: the remainder is a full interval (the double wait of
\* tests/test_scheduler.py).
AfterCycleDoubleWait ==
    /\ UNCHANGED startedAt
    /\ wakeAt' = clock + IntervalTicks
    /\ pc' = "waiting"

\* Mutant: the overrun test also takes the branch without a wait when the
\* cycle was short.
AfterCycleNoWait ==
    /\ UNCHANGED startedAt
    /\ wakeAt' = clock
    /\ pc' = IF stop THEN "stopped" ELSE "woken"

\* Mutant: the overrun branch forgets to look at the stop event.
AfterCycleDeaf ==
    LET elapsed == clock - startedAt
    IN  /\ UNCHANGED startedAt
        /\ IF elapsed > IntervalTicks
             THEN wakeAt' = clock /\ pc' = "woken"
             ELSE wakeAt' = clock + (IntervalTicks - elapsed) /\ pc' = "waiting"

\* elapsed is measured; an overrun starts over unless stopped, otherwise the
\* remainder of the interval is waited for.
AfterCycle ==
    LET elapsed == clock - startedAt
    IN  /\ UNCHANGED startedAt
        /\ \/ /\ elapsed > IntervalTicks
              /\ wakeAt' = clock
              /\ pc' = IF stop THEN "stopped" ELSE "woken"
           \/ /\ elapsed <= IntervalTicks
              /\ wakeAt' = clock + (IntervalTicks - elapsed)
              /\ pc' = "waiting"

\* run_cycle publishes, never before its deadline, and returns.
Complete ==
    /\ pc = "cycle"
    /\ clock >= begun[Len(begun)].deadlineAt
    /\ ended' = Append(ended, [at |-> clock, published |-> TRUE])
    /\ AfterCycle
    /\ UNCHANGED <<clock, wall, stop, begun, late>>

\* run_cycle raises, at any moment; the exception is logged and swallowed.
Fail ==
    /\ pc = "cycle"
    /\ ended' = Append(ended, [at |-> clock, published |-> FALSE])
    /\ AfterCycle
    /\ UNCHANGED <<clock, wall, stop, begun, late>>

\* The SIGTERM/SIGINT handler.
Stop ==
    /\ ~stop
    /\ pc # "stopped"
    /\ stop' = TRUE
    /\ UNCHANGED <<clock, wall, pc, wakeAt, startedAt, begun, ended, late>>

-----------------------------------------------------------------------------
(* The clocks.                                                             *)

\* The thread is not held up beyond its lags.
OnTime ==
    /\ pc \in {"waiting", "woken"} => clock < wakeAt + WakeLag
    /\ pc = "starting" => clock < startedAt + StartLag

Tick ==
    /\ pc # "stopped"
    /\ clock < MaxClock
    /\ OnTime
    /\ clock' = clock + 1
    /\ wall' = wall + 1
    /\ UNCHANGED <<pc, wakeAt, startedAt, stop, begun, ended, late>>

AdjustWall(d) ==
    /\ pc # "stopped"
    /\ wall + d \in clock .. clock + MaxSkew
    /\ wall' = wall + d
    /\ UNCHANGED <<clock, pc, wakeAt, startedAt, stop, begun, ended, late>>

\* run has returned; the process ends.
Terminated ==
    /\ pc = "stopped"
    /\ UNCHANGED vars

Next ==
    \/ WaitTimesOut
    \/ WaitStopped
    \/ ReadStarted
    \/ BeginCycle
    \/ Complete
    \/ Fail
    \/ Stop
    \/ Tick
    \/ \E d \in Adjustments : AdjustWall(d)
    \/ Terminated

Spec == Init /\ [][Next]_vars

\* The thread keeps running; a cycle ends, one way or the other (every fetch
\* has a deadline, which TestCycle accounts for).
Fairness ==
    /\ WF_vars(WaitTimesOut)
    /\ WF_vars(WaitStopped)
    /\ WF_vars(ReadStarted)
    /\ WF_vars(BeginCycle)
    /\ WF_vars(Complete \/ Fail)

FairSpec == Spec /\ Fairness

-----------------------------------------------------------------------------
(* Properties.                                                             *)

\* Cycles never overlap (docstring of Scheduler): a cycle starts no sooner
\* than one full interval after the previous one started, after a failure or
\* an overrun too, the first one an interval after start-up, and never while
\* the previous one is still running.
CyclesSpaced ==
    \A i \in DOMAIN begun :
        IF i = 1
          THEN begun[1].startedAt >= IntervalTicks
          ELSE /\ begun[i].startedAt >= begun[i - 1].startedAt + IntervalTicks
               /\ i - 1 \in DOMAIN ended
               /\ begun[i].startedAt >= ended[i - 1].at

\* By how many seconds the window of a cycle reaches into the next one is
\* less than one plus what the thread was held up between `started` and `now`
\* and what the wall clock was set back: with neither, windows are disjoint
\* and a message is counted in at most one of them.
OverlapBounded ==
    \A i \in DOMAIN begun \ {1} :
        (begun[i - 1].window.end - begun[i].window.start) * TicksPerSecond
          < TicksPerSecond + StartLag + (begun[i - 1].skew - begun[i].skew)

\* After a cycle that did not overrun, the seconds no window covers are fewer
\* than one plus what the thread lost to its lags and what the wall clock was
\* set forward: a cycle loses at most a second of messages to drift.
GapBounded ==
    \A i \in DOMAIN begun \ {1} :
        ended[i - 1].at <= begun[i - 1].startedAt + IntervalTicks =>
          (begun[i].window.start - begun[i - 1].window.end) * TicksPerSecond
            < TicksPerSecond + WakeLag + StartLag
                + (begun[i].skew - begun[i - 1].skew)

\* A stop request that arrives at the worst moment (the wait has just timed
\* out, or an overrun has just looked at the event) lets one more cycle
\* start, never two.
AtMostOneCycleAfterStop == late <= 1

\* A stop request ends Scheduler.run, from any point of its loop.
StopEndsRun == stop ~> (pc = "stopped")

\* ARCHITECTURE.md:225-226: "consecutive windows partition messages exactly
\* once"; here, each window begins where the last one ended.
WindowsPartition ==
    \A i \in DOMAIN begun \ {1} :
        ended[i - 1].at <= begun[i - 1].startedAt + IntervalTicks =>
            begun[i].window.start = begun[i - 1].window.end
=============================================================================
