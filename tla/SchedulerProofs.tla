-------------------------- MODULE SchedulerProofs --------------------------
(***************************************************************************)
(* Scheduler keeps its cycles an interval apart and its windows within the *)
(* bounds stated there, for every resolution, interval, lag and wall clock *)
(* adjustment.                                                             *)
(***************************************************************************)
EXTENDS Scheduler, WindowsProofs

-----------------------------------------------------------------------------
(* The inductive invariant, in parts.                                      *)

\* Every cycle but the one running has ended.
EndedMatches ==
    /\ Len(ended) = IF pc = "cycle" THEN Len(begun) - 1 ELSE Len(begun)
    /\ pc = "cycle" => begun # << >>

\* Between cycles, wakeAt is the earliest the next cycle may start.
NextIsDue ==
    pc \in {"waiting", "woken", "starting"} =>
        /\ begun = << >> => wakeAt = IntervalTicks
        /\ begun # << >> =>
             LET n == Len(begun)
                 due == begun[n].startedAt + IntervalTicks
             IN  /\ wakeAt >= due
                 /\ wakeAt >= ended[n].at
                 /\ ended[n].at <= due => wakeAt = due

\* How far the clock can be from the instants the thread has in hand.
WithinLags ==
    /\ pc \in {"waiting", "woken"} => clock <= wakeAt + WakeLag
    /\ pc = "woken" => clock >= wakeAt
    /\ pc = "starting" =>
         /\ wakeAt <= startedAt /\ startedAt <= wakeAt + WakeLag
         /\ startedAt <= clock /\ clock <= startedAt + StartLag
    /\ pc = "cycle" =>
         startedAt = begun[Len(begun)].startedAt /\ startedAt <= clock

\* When run_cycle read its clocks.
ReadAt(i) == begun[i].deadlineAt - DeadlineTicks

\* A window is the one of a reading made within StartLag of the start.
WindowsAreRead ==
    \A i \in DOMAIN begun :
        /\ begun[i].startedAt <= ReadAt(i)
        /\ ReadAt(i) <= begun[i].startedAt + StartLag
        /\ ReadAt(i) + begun[i].skew \in Nat
        /\ begun[i].window = Window(ReadAt(i) + begun[i].skew)

\* After a cycle that did not overrun the next starts on time.
StartsOnTime ==
    \A i \in DOMAIN begun \ {1} :
        ended[i - 1].at <= begun[i - 1].startedAt + IntervalTicks =>
            begun[i].startedAt <= begun[i - 1].startedAt + IntervalTicks + WakeLag

IInv ==
    /\ TypeOK
    /\ EndedMatches
    /\ NextIsDue
    /\ WithinLags
    /\ WindowsAreRead
    /\ StartsOnTime
    /\ CyclesSpaced

LEMMA TicksTyped ==
    /\ TicksPerSecond \in Nat /\ TicksPerSecond > 0
    /\ IntervalTicks \in Nat /\ IntervalTicks > 0
    /\ DeadlineTicks \in Nat
<1>1. IntervalTicks \in Nat /\ IntervalTicks > 0
  BY WindowsAssumption DEF WindowsAssumption, IntervalTicks
<1> QED
  BY <1>1, WindowsAssumption DEF WindowsAssumption, DeadlineTicks

-----------------------------------------------------------------------------
LEMMA InitIInv == Init => IInv
<1> SUFFICES ASSUME Init PROVE IInv
  OBVIOUS
<1>1. TypeOK
  <2>1. wall \in Nat
    BY SchedulerAssumption DEF Init, SchedulerAssumption
  <2>2. begun \in Seq(BegunType) /\ ended \in Seq(EndedType)
    BY DEF Init
  <2> QED
    BY <2>1, <2>2, TicksTyped DEF Init, TypeOK
<1> QED
  BY <1>1, TicksTyped, SchedulerAssumption
  DEF Init, IInv, EndedMatches, NextIsDue, WithinLags, WindowsAreRead,
      StartsOnTime, CyclesSpaced, SchedulerAssumption

\* A step that leaves the records of the cycles alone keeps what is said of
\* them alone.
LEMMA RecordsUntouched ==
    ASSUME WindowsAreRead, StartsOnTime, CyclesSpaced, UNCHANGED <<begun, ended>>
    PROVE  WindowsAreRead' /\ StartsOnTime' /\ CyclesSpaced'
BY DEF WindowsAreRead, StartsOnTime, CyclesSpaced, ReadAt

\* Opening a cycle: its start is due, its window is read on time.
LEMMA BeginKeeps ==
    ASSUME IInv, BeginCycle
    PROVE  IInv'
<1> USE TicksTyped, SchedulerAssumption DEF SchedulerAssumption
<1> DEFINE n == Len(begun)
           c == [startedAt  |-> startedAt, skew |-> wall - clock,
                 window     |-> Window(wall), deadlineAt |-> clock + DeadlineTicks]
<1>1. /\ TypeOK /\ EndedMatches /\ NextIsDue /\ WithinLags
      /\ WindowsAreRead /\ StartsOnTime /\ CyclesSpaced
  BY DEF IInv
<1>2. /\ pc = "starting" /\ pc' = "cycle" /\ begun' = Append(begun, c)
      /\ UNCHANGED <<clock, wall, wakeAt, startedAt, stop, ended>>
  BY DEF BeginCycle
<1>3. c \in BegunType
  BY <1>1, WindowTyped DEF TypeOK, BegunType
<1>4. TypeOK'
  BY <1>1, <1>2, <1>3 DEF TypeOK, BeginCycle
<1>5. /\ n \in Nat /\ Len(begun') = n + 1 /\ Len(ended) = n
      /\ begun'[n + 1] = c
      /\ \A i \in 1 .. n : begun'[i] = begun[i]
      /\ DOMAIN begun = 1 .. n /\ DOMAIN begun' = 1 .. n + 1
      /\ DOMAIN ended = 1 .. n
  BY <1>1, <1>2, <1>3 DEF TypeOK, EndedMatches
<1>6. EndedMatches' /\ NextIsDue' /\ WithinLags'
  BY <1>1, <1>2, <1>5 DEF EndedMatches, NextIsDue, WithinLags
<1>7. WindowsAreRead'
  <2> SUFFICES ASSUME NEW i \in 1 .. n + 1
               PROVE  /\ begun'[i].startedAt <= ReadAt(i)'
                      /\ ReadAt(i)' <= begun'[i].startedAt + StartLag
                      /\ ReadAt(i)' + begun'[i].skew \in Nat
                      /\ begun'[i].window = Window(ReadAt(i)' + begun'[i].skew)
    BY <1>5 DEF WindowsAreRead
  <2>1. CASE i \in 1 .. n
    BY <2>1, <1>1, <1>5 DEF WindowsAreRead, ReadAt
  <2>2. CASE i = n + 1
    <3>1. ReadAt(i)' = clock
      BY <2>2, <1>1, <1>2, <1>5 DEF ReadAt, TypeOK
    <3>2. ReadAt(i)' + begun'[i].skew = wall
      BY <2>2, <3>1, <1>1, <1>5 DEF TypeOK
    <3> QED
      BY <2>2, <3>1, <3>2, <1>1, <1>2, <1>5 DEF TypeOK, WithinLags
  <2> QED
    BY <2>1, <2>2, <1>5
<1>8. StartsOnTime'
  <2> SUFFICES ASSUME NEW i \in 2 .. n + 1,
                      ended[i - 1].at <= begun'[i - 1].startedAt + IntervalTicks
               PROVE  begun'[i].startedAt
                        <= begun'[i - 1].startedAt + IntervalTicks + WakeLag
    BY <1>2, <1>5 DEF StartsOnTime
  <2>1. CASE i \in 2 .. n
    <3>1. i \in DOMAIN begun \ {1} /\ i - 1 \in 1 .. n
      BY <2>1, <1>5
    <3>2. begun'[i] = begun[i] /\ begun'[i - 1] = begun[i - 1]
      BY <2>1, <3>1, <1>5
    <3> QED
      BY <3>1, <3>2, <1>1 DEF StartsOnTime
  <2>2. CASE i = n + 1
    <3>1. n > 0 /\ i - 1 = n
      BY <2>2, <1>5
    <3>2. begun # << >> /\ begun[n] \in BegunType /\ begun'[n] = begun[n]
      BY <3>1, <1>1, <1>5 DEF TypeOK
    <3>3. ended[n].at <= begun[n].startedAt + IntervalTicks
      BY <3>1, <3>2
    <3>4. wakeAt = begun[n].startedAt + IntervalTicks
      BY <3>2, <3>3, <1>1, <1>2 DEF NextIsDue
    <3>5. startedAt <= wakeAt + WakeLag
      BY <1>1, <1>2 DEF WithinLags
    <3>6. begun'[i].startedAt = startedAt
      BY <2>2, <1>5
    <3> QED
      BY <3>1, <3>2, <3>4, <3>5, <3>6
  <2> QED
    BY <2>1, <2>2, <1>5
<1>9. CyclesSpaced'
  <2> SUFFICES ASSUME NEW i \in 1 .. n + 1
               PROVE  IF i = 1
                        THEN begun'[1].startedAt >= IntervalTicks
                        ELSE /\ begun'[i].startedAt
                                  >= begun'[i - 1].startedAt + IntervalTicks
                             /\ i - 1 \in DOMAIN ended
                             /\ begun'[i].startedAt >= ended[i - 1].at
    BY <1>2, <1>5 DEF CyclesSpaced
  <2>1. CASE i \in 1 .. n
    BY <2>1, <1>1, <1>5 DEF CyclesSpaced
  <2>2. CASE i = n + 1 /\ n = 0
    <3>1. begun = << >>
      BY <2>2, <1>1, <1>5 DEF TypeOK
    <3> QED
      BY <2>2, <3>1, <1>1, <1>2, <1>5 DEF NextIsDue, WithinLags, TypeOK
  <2>3. CASE i = n + 1 /\ n > 0
    <3>1. i - 1 = n /\ i # 1 /\ n \in DOMAIN ended
      BY <2>3, <1>5
    <3>2. begun # << >> /\ begun[n] \in BegunType /\ begun'[n] = begun[n]
          /\ ended[n] \in EndedType
      BY <2>3, <1>1, <1>5 DEF TypeOK
    <3>3. wakeAt >= begun[n].startedAt + IntervalTicks /\ wakeAt >= ended[n].at
      BY <3>2, <1>1, <1>2 DEF NextIsDue
    <3>4. begun'[i].startedAt = startedAt /\ startedAt >= wakeAt
      BY <2>3, <1>1, <1>2, <1>5 DEF WithinLags
    <3>5. /\ startedAt \in Nat /\ wakeAt \in Nat
          /\ begun[n].startedAt \in Nat /\ ended[n].at \in Nat
      BY <3>2, <1>1 DEF TypeOK, BegunType, EndedType
    <3> QED
      BY <3>1, <3>2, <3>3, <3>4, <3>5
  <2> QED
    BY <2>1, <2>2, <2>3, <1>5
<1> QED
  BY <1>4, <1>6, <1>7, <1>8, <1>9 DEF IInv

\* Ending a cycle, either way: the next one is due an interval after its
\* start or, after an overrun, now.
LEMMA EndKeeps ==
    ASSUME IInv, Complete \/ Fail
    PROVE  IInv'
<1> USE TicksTyped, SchedulerAssumption DEF SchedulerAssumption
<1> DEFINE n == Len(begun)
<1>1. /\ TypeOK /\ EndedMatches /\ WithinLags
      /\ WindowsAreRead /\ StartsOnTime /\ CyclesSpaced
  BY DEF IInv
<1>2. PICK e \in EndedType : e.at = clock /\ ended' = Append(ended, e)
  BY <1>1 DEF Complete, Fail, TypeOK, EndedType
<1>3. /\ pc = "cycle" /\ AfterCycle
      /\ UNCHANGED <<clock, wall, stop, begun, late>>
  BY DEF Complete, Fail
<1>4. /\ n \in Nat \ {0} /\ Len(ended) = n - 1 /\ Len(ended') = n
      /\ DOMAIN begun = 1 .. n /\ DOMAIN ended = 1 .. n - 1 /\ DOMAIN ended' = 1 .. n
      /\ ended'[n] = e
      /\ \A i \in 1 .. n - 1 : ended'[i] = ended[i]
      /\ begun[n] \in BegunType
  BY <1>1, <1>2, <1>3 DEF TypeOK, EndedMatches
<1>5. startedAt = begun[n].startedAt /\ startedAt <= clock /\ UNCHANGED startedAt
  BY <1>1, <1>3 DEF WithinLags, AfterCycle
<1>6. /\ clock \in Nat /\ startedAt \in Nat /\ begun[n].startedAt \in Nat
      /\ n = Len(begun) /\ begun # << >>
  BY <1>1, <1>4 DEF TypeOK, BegunType
<1>7. WindowsAreRead' /\ StartsOnTime' /\ CyclesSpaced'
  <2>1. WindowsAreRead'
    BY <1>1, <1>3 DEF WindowsAreRead, ReadAt
  <2>2. \A i \in DOMAIN begun \ {1} :
          i - 1 \in DOMAIN ended /\ i - 1 \in DOMAIN ended'
            /\ ended'[i - 1] = ended[i - 1]
    BY <1>4
  <2>3. StartsOnTime' /\ CyclesSpaced'
    BY <1>1, <1>3, <2>2 DEF StartsOnTime, CyclesSpaced
  <2> QED
    BY <2>1, <2>3
<1>8. CASE clock - startedAt > IntervalTicks
  <2>1. wakeAt' = clock /\ pc' \in {"woken", "stopped"}
    BY <1>3, <1>8, <1>6 DEF AfterCycle
  <2>2. TypeOK'
    BY <1>1, <1>2, <1>3, <1>5, <2>1 DEF TypeOK
  <2>3. EndedMatches' /\ NextIsDue' /\ WithinLags'
    BY <1>1, <1>2, <1>3, <1>4, <1>5, <1>8, <2>1
    DEF EndedMatches, NextIsDue, WithinLags, TypeOK, BegunType
  <2> QED
    BY <1>7, <2>2, <2>3 DEF IInv
<1>9. CASE clock - startedAt <= IntervalTicks
  <2>1. wakeAt' = startedAt + IntervalTicks /\ pc' = "waiting"
    <3>1. wakeAt' = clock + (IntervalTicks - (clock - startedAt)) /\ pc' = "waiting"
      BY <1>3, <1>9, <1>6 DEF AfterCycle
    <3> QED
      BY <3>1, <1>6
  <2>2. TypeOK'
    BY <1>1, <1>2, <1>3, <1>5, <2>1 DEF TypeOK
  <2>3. EndedMatches'
    BY <1>3, <1>4, <2>1 DEF EndedMatches
  <2>4. NextIsDue'
    <3>1. wakeAt' >= ended'[n].at
      BY <1>2, <1>4, <1>9, <1>6, <2>1
    <3> QED
      BY <3>1, <1>3, <1>5, <1>6, <2>1 DEF NextIsDue
  <2>5. WithinLags'
    BY <1>3, <1>9, <1>6, <2>1 DEF WithinLags
  <2> QED
    BY <1>7, <2>2, <2>3, <2>4, <2>5 DEF IInv
<1> QED
  BY <1>1, <1>8, <1>9 DEF TypeOK

LEMMA NextKeeps ==
    ASSUME IInv, [Next]_vars
    PROVE  IInv'
<1> USE TicksTyped, SchedulerAssumption DEF SchedulerAssumption
<1>0. /\ TypeOK /\ EndedMatches /\ NextIsDue /\ WithinLags
      /\ WindowsAreRead /\ StartsOnTime /\ CyclesSpaced
  BY DEF IInv
<1>1. CASE WaitTimesOut
  <2>1. UNCHANGED <<begun, ended>>
    BY <1>1 DEF WaitTimesOut
  <2>2. TypeOK'
    BY <1>0, <1>1 DEF WaitTimesOut, TypeOK
  <2>3. EndedMatches' /\ NextIsDue' /\ WithinLags'
    BY <1>0, <1>1 DEF WaitTimesOut, EndedMatches, NextIsDue, WithinLags
  <2> QED
    BY <1>0, <2>1, <2>2, <2>3, RecordsUntouched DEF IInv
<1>2. CASE WaitStopped
  <2>1. UNCHANGED <<begun, ended>>
    BY <1>2 DEF WaitStopped
  <2>2. TypeOK'
    BY <1>0, <1>2 DEF WaitStopped, TypeOK
  <2>3. EndedMatches' /\ NextIsDue' /\ WithinLags'
    BY <1>0, <1>2 DEF WaitStopped, EndedMatches, NextIsDue, WithinLags
  <2> QED
    BY <1>0, <2>1, <2>2, <2>3, RecordsUntouched DEF IInv
<1>3. CASE ReadStarted
  <2>1. UNCHANGED <<begun, ended>>
    BY <1>3 DEF ReadStarted
  <2>2. TypeOK'
    BY <1>0, <1>3 DEF ReadStarted, TypeOK
  <2>3. EndedMatches' /\ NextIsDue' /\ WithinLags'
    BY <1>0, <1>3 DEF ReadStarted, EndedMatches, NextIsDue, WithinLags, TypeOK
  <2> QED
    BY <1>0, <2>1, <2>2, <2>3, RecordsUntouched DEF IInv
<1>4. CASE BeginCycle
  BY <1>4, BeginKeeps
<1>5. CASE Complete \/ Fail
  BY <1>5, EndKeeps
<1>6. CASE Stop
  <2>1. UNCHANGED <<begun, ended>>
    BY <1>6 DEF Stop
  <2>2. TypeOK'
    BY <1>0, <1>6 DEF Stop, TypeOK
  <2>3. EndedMatches' /\ NextIsDue' /\ WithinLags'
    BY <1>0, <1>6 DEF Stop, EndedMatches, NextIsDue, WithinLags
  <2> QED
    BY <1>0, <2>1, <2>2, <2>3, RecordsUntouched DEF IInv
<1>7. CASE Tick
  <2>1. UNCHANGED <<begun, ended>>
    BY <1>7 DEF Tick
  <2>2. TypeOK'
    BY <1>0, <1>7 DEF Tick, TypeOK
  <2>3. EndedMatches' /\ NextIsDue'
    BY <1>0, <1>7 DEF Tick, EndedMatches, NextIsDue
  <2>4. WithinLags'
    <3>1. pc = "cycle" => begun[Len(begun)] \in BegunType
      BY <1>0 DEF TypeOK, EndedMatches
    <3> QED
      BY <1>0, <1>7, <3>1 DEF Tick, OnTime, WithinLags, TypeOK, BegunType
  <2> QED
    BY <1>0, <2>1, <2>2, <2>3, <2>4, RecordsUntouched DEF IInv
<1>8. CASE \E d \in Adjustments : AdjustWall(d)
  <2>1. /\ UNCHANGED <<clock, pc, wakeAt, startedAt, stop, begun, ended, late>>
        /\ wall' \in Nat
    BY <1>0, <1>8 DEF AdjustWall, TypeOK
  <2>2. TypeOK'
    BY <1>0, <2>1 DEF TypeOK
  <2>3. EndedMatches' /\ NextIsDue' /\ WithinLags'
    BY <1>0, <2>1 DEF EndedMatches, NextIsDue, WithinLags
  <2> QED
    BY <1>0, <2>1, <2>2, <2>3, RecordsUntouched DEF IInv
<1>9. CASE Terminated \/ UNCHANGED vars
  <2>1. UNCHANGED vars
    BY <1>9 DEF Terminated
  <2>2. TypeOK' /\ EndedMatches' /\ NextIsDue' /\ WithinLags'
    BY <1>0, <2>1 DEF vars, TypeOK, EndedMatches, NextIsDue, WithinLags
  <2> QED
    BY <1>0, <2>1, <2>2, RecordsUntouched DEF IInv, vars
<1> QED
  BY <1>1, <1>2, <1>3, <1>4, <1>5, <1>6, <1>7, <1>8, <1>9 DEF Next

\* The inductive invariant holds of every behaviour.
THEOREM SchedulerInductive == Spec => []IInv
<1>1. Init => IInv
  BY InitIInv
<1>2. IInv /\ [Next]_vars => IInv'
  BY NextKeeps
<1> QED
  BY <1>1, <1>2, PTL DEF Spec

-----------------------------------------------------------------------------
(* What it implies.                                                        *)

LEMMA IInvOverlap == IInv => OverlapBounded
<1> USE TicksTyped, SchedulerAssumption DEF SchedulerAssumption
<1> SUFFICES ASSUME IInv, NEW i \in DOMAIN begun \ {1}
             PROVE  (begun[i - 1].window.end - begun[i].window.start)
                        * TicksPerSecond
                      < TicksPerSecond + StartLag
                          + (begun[i - 1].skew - begun[i].skew)
  BY DEF OverlapBounded
<1> DEFINE a == ReadAt(i - 1) + begun[i - 1].skew
           b == ReadAt(i) + begun[i].skew
           d == StartLag + (begun[i - 1].skew - begun[i].skew)
<1>1. /\ i \in DOMAIN begun /\ i - 1 \in DOMAIN begun
      /\ begun[i] \in BegunType /\ begun[i - 1] \in BegunType
  BY DEF IInv, TypeOK
<1>2. /\ a \in Nat /\ begun[i - 1].window = Window(a)
      /\ b \in Nat /\ begun[i].window = Window(b)
  BY <1>1 DEF IInv, WindowsAreRead
<1>3. /\ ReadAt(i) >= begun[i].startedAt
      /\ ReadAt(i - 1) <= begun[i - 1].startedAt + StartLag
      /\ begun[i].startedAt >= begun[i - 1].startedAt + IntervalTicks
  BY <1>1 DEF IInv, WindowsAreRead, CyclesSpaced
<1>4. d \in Int /\ b >= a + IntervalTicks - d
  BY <1>1, <1>3 DEF BegunType, ReadAt
<1>5. (Window(a).end - Window(b).start) * TicksPerSecond < TicksPerSecond + d
  BY <1>2, <1>4, OverlapOfWindows
<1> QED
  BY <1>1, <1>2, <1>5 DEF BegunType

LEMMA IInvGap == IInv => GapBounded
<1> USE TicksTyped, SchedulerAssumption DEF SchedulerAssumption
<1> SUFFICES ASSUME IInv, NEW i \in DOMAIN begun \ {1},
                    ended[i - 1].at <= begun[i - 1].startedAt + IntervalTicks
             PROVE  (begun[i].window.start - begun[i - 1].window.end)
                        * TicksPerSecond
                      < TicksPerSecond + WakeLag + StartLag
                          + (begun[i].skew - begun[i - 1].skew)
  BY DEF GapBounded
<1> DEFINE a == ReadAt(i - 1) + begun[i - 1].skew
           b == ReadAt(i) + begun[i].skew
           d == WakeLag + StartLag + (begun[i].skew - begun[i - 1].skew)
<1>1. /\ i \in DOMAIN begun /\ i - 1 \in DOMAIN begun
      /\ begun[i] \in BegunType /\ begun[i - 1] \in BegunType
  BY DEF IInv, TypeOK
<1>2. /\ a \in Nat /\ begun[i - 1].window = Window(a)
      /\ b \in Nat /\ begun[i].window = Window(b)
  BY <1>1 DEF IInv, WindowsAreRead
<1>3. /\ ReadAt(i) <= begun[i].startedAt + StartLag
      /\ ReadAt(i - 1) >= begun[i - 1].startedAt
      /\ begun[i].startedAt <= begun[i - 1].startedAt + IntervalTicks + WakeLag
  BY <1>1 DEF IInv, WindowsAreRead, StartsOnTime
<1>4. d \in Int /\ b <= a + IntervalTicks + d
  BY <1>1, <1>3 DEF BegunType, ReadAt
<1>5. (Window(b).start - Window(a).end) * TicksPerSecond < TicksPerSecond + d
  BY <1>2, <1>4, GapBetweenWindows
<1> QED
  BY <1>1, <1>2, <1>5 DEF BegunType

\* Every state of Scheduler.run has the types the code gives it, and a window
\* is always one interval long.
THEOREM SchedulerTypeCorrect == Spec => []TypeOK
<1>1. IInv => TypeOK
  BY DEF IInv
<1> QED
  BY <1>1, SchedulerInductive, PTL

\* Cycles never overlap and start at least an interval apart, whatever fails
\* or overruns.
THEOREM SchedulerSpacesCycles == Spec => []CyclesSpaced
<1>1. IInv => CyclesSpaced
  BY DEF IInv
<1> QED
  BY <1>1, SchedulerInductive, PTL

\* Consecutive windows overlap by no more than the delay between the two
\* clock readings and a backward step of the wall clock account for.
THEOREM SchedulerBoundsOverlap == Spec => []OverlapBounded
BY IInvOverlap, SchedulerInductive, PTL

\* Without an overrun, the gap between consecutive windows is bounded by the
\* delays of the thread and a forward step of the wall clock.
THEOREM SchedulerBoundsGap == Spec => []GapBounded
BY IInvGap, SchedulerInductive, PTL

\* When the two readings cannot be told apart and the wall clock is never set
\* back between them, consecutive windows are disjoint: no message is counted
\* in two of them.
THEOREM SchedulerPunctualDisjoint ==
    ASSUME StartLag = 0
    PROVE  Spec => [](\A i \in DOMAIN begun \ {1} :
                        begun[i - 1].skew <= begun[i].skew =>
                          begun[i - 1].window.end <= begun[i].window.start)
<1> USE TicksTyped, SchedulerAssumption DEF SchedulerAssumption
<1> DEFINE D == \A i \in DOMAIN begun \ {1} :
                  begun[i - 1].skew <= begun[i].skew =>
                    begun[i - 1].window.end <= begun[i].window.start
<1>1. IInv => D
  <2> SUFFICES ASSUME IInv, NEW i \in DOMAIN begun \ {1},
                      begun[i - 1].skew <= begun[i].skew
               PROVE  begun[i - 1].window.end <= begun[i].window.start
    OBVIOUS
  <2>1. begun[i] \in BegunType /\ begun[i - 1] \in BegunType
    BY DEF IInv, TypeOK
  <2> DEFINE g == begun[i - 1].window.end - begun[i].window.start
  <2>2. g \in Int /\ g * TicksPerSecond < TicksPerSecond
    BY <2>1, IInvOverlap DEF OverlapBounded, BegunType, WindowType
  <2>3. g < 1
    BY <2>2
  <2> QED
    BY <2>1, <2>3 DEF BegunType, WindowType
<1> QED
  BY <1>1, SchedulerInductive, PTL

-----------------------------------------------------------------------------
(* A stop request.                                                         *)

\* Once a cycle has begun after the stop request, the thread is in that cycle
\* or on its way out.
OneLateCycle ==
    /\ late \in {0, 1}
    /\ late = 1 => stop /\ pc \in {"cycle", "waiting", "stopped"}

\* A stop request lets one more cycle start, never two, wherever it finds the
\* thread in Scheduler.run.
THEOREM SchedulerStops == Spec => []AtMostOneCycleAfterStop
<1>1. Init => OneLateCycle
  BY DEF Init, OneLateCycle
<1>2. OneLateCycle /\ [Next]_vars => OneLateCycle'
  <2> SUFFICES ASSUME OneLateCycle, [Next]_vars PROVE OneLateCycle'
    OBVIOUS
  <2>1. CASE WaitTimesOut \/ WaitStopped \/ ReadStarted
    BY <2>1 DEF OneLateCycle, WaitTimesOut, WaitStopped, ReadStarted
  <2>2. CASE BeginCycle
    BY <2>2 DEF OneLateCycle, BeginCycle
  <2>3. CASE Complete \/ Fail
    BY <2>3 DEF OneLateCycle, Complete, Fail, AfterCycle
  <2>4. CASE Stop \/ Tick \/ \E d \in Adjustments : AdjustWall(d)
    BY <2>4 DEF OneLateCycle, Stop, Tick, AdjustWall
  <2>5. CASE Terminated \/ UNCHANGED vars
    BY <2>5 DEF OneLateCycle, Terminated, vars
  <2> QED
    BY <2>1, <2>2, <2>3, <2>4, <2>5 DEF Next
<1>3. OneLateCycle => AtMostOneCycleAfterStop
  BY DEF OneLateCycle, AtMostOneCycleAfterStop
<1> QED
  BY <1>1, <1>2, <1>3, PTL DEF Spec
=============================================================================
