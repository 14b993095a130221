-------------------------- MODULE TestCycleProofs --------------------------
(***************************************************************************)
(* TestCycle implements Scheduler, counts no message twice, and credits    *)
(* each to what brought it in: for every list of topics and services, set  *)
(* of messages and of brokers, and bound.                                  *)
(***************************************************************************)
EXTENDS TestCycle, WindowsProofs, SequenceTheorems, FiniteSetTheorems

-----------------------------------------------------------------------------
(* Which steps leave what alone.                                           *)

\* The fetches, the MQTT threads and what is outside the process change
\* neither the scheduler's variables nor the locals of run_cycle's own loops.
Elsewhere ==
    \/ \E k \in Pairs : SyncFetch(k) \/ AsyncFetch(k)
    \/ \E b \in Brokers : MqttThread(b)
    \/ \E m \in Messages : BrokerMessage(m)
    \/ \E k \in Pairs : /\ async[k].st = "post"
                        /\ \E page \in SUBSET Answers(k) : ServiceReplays(k, page)
    \/ BoundReached
    \/ Terminated
    \/ UNCHANGED vars

LEMMA ElsewhereFrame == Elsewhere => UNCHANGED <<schedVars, loopVars, metrics>>
<1> USE DEF vars, cycleVars, localVars, fetchVars, sharedVars, redisVars, registryVars,
            brokerVars, reportVars, historyVars
<1>1. ASSUME NEW k \in Pairs, SyncFetch(k)
      PROVE  UNCHANGED <<schedVars, loopVars, metrics>>
  BY <1>1 DEF SyncFetch, SyncAborts, SyncInvalid, SyncRaises, SyncStopsPaging, SyncStoreFails,
              SyncNextPage, SyncFirstPage, ProcessPage
<1>2. ASSUME NEW k \in Pairs, AsyncFetch(k)
      PROVE  UNCHANGED <<schedVars, loopVars, metrics>>
  BY <1>2 DEF AsyncFetch, Register, PostReturns, DecideNone, DecideWait, Snapshot, Leave
<1>3. ASSUME NEW b \in Brokers, MqttThread(b)
      PROVE  UNCHANGED <<schedVars, loopVars, metrics>>
  BY <1>3 DEF MqttThread, ReplayArrives, RecordArrival, StoreReplay, DropReplay, PayloadRaises,
              StoreReplayFails
<1> QED
  BY <1>1, <1>2, <1>3 DEF Elsewhere, BrokerMessage, ServiceReplays, BoundReached, Terminated

\* Between two cycles, and as time passes, run_cycle has no say.
Outside ==
    WaitTimesOut \/ WaitStopped \/ ReadStarted \/ Stop \/ Tick

LEMMA OutsideFrame == Outside => UNCHANGED cycleVars
BY DEF Outside, WaitTimesOut, WaitStopped, ReadStarted, Stop, Tick

\* The steps of run_cycle between its start and its end.
Inside ==
    \/ ReadBaseline \/ ClearReplay \/ ClearSync \/ Collect \/ CollectFails \/ Hold
    \/ PublishReceived \/ PublishResult

Leaving == PreparationFails \/ Unwound \/ Published

LEMMA NextSplit ==
    [Next]_vars => Elsewhere \/ Outside \/ OpenWindow \/ Inside \/ Leaving
BY DEF Next, SchedulerThread, Environment, Elsewhere, Outside, Inside, Leaving

-----------------------------------------------------------------------------
(* The times of the cycles, as every step of Scheduler keeps them.         *)

LEMMA SameWindows ==
    /\ S!IntervalTicks = IntervalTicks /\ S!DeadlineTicks = DeadlineTicks
    /\ \A t : S!Window(t) = Window(t)
    /\ S!BegunType = [startedAt : Nat, skew : Int, window : WindowType, deadlineAt : Nat]
BY DEF S!IntervalTicks, IntervalTicks, S!DeadlineTicks, DeadlineTicks, S!Window, Window,
       S!Second, Second, S!BegunType, S!WindowType, WindowType

Timed ==
    /\ clock \in Nat /\ wakeAt \in Nat /\ startedAt \in Nat
    /\ begun \in Seq(S!BegunType)
    /\ pc = "cycle" => Cycle # 0

\* The thread is punctual, so a window is the one of the start of its cycle,
\* and cycles start an interval apart, whichever two are compared.
Spaced ==
    /\ \A i \in DOMAIN begun : begun[i].window = Window(begun[i].startedAt)
    /\ \A i, j \in DOMAIN begun :
         i < j => begun[i].startedAt + IntervalTicks <= begun[j].startedAt
    /\ pc \in {"waiting", "woken"} =>
         \A i \in DOMAIN begun : begun[i].startedAt + IntervalTicks <= wakeAt
    /\ pc = "woken" => wakeAt <= clock
    /\ pc = "starting" =>
         /\ clock = startedAt
         /\ \A i \in DOMAIN begun : begun[i].startedAt + IntervalTicks <= startedAt
    /\ pc = "cycle" => startedAt = begun[Cycle].startedAt

LEMMA TicksTyped ==
    IntervalTicks \in Nat /\ DeadlineTicks \in Nat
<1>1. IntervalTicks \in Nat
  BY WindowsAssumption DEF WindowsAssumption, IntervalTicks
<1> QED
  BY <1>1 DEF DeadlineTicks

LEMMA BegunTyped ==
    ASSUME Timed
    PROVE  /\ Cycle \in Nat /\ DOMAIN begun = 1 .. Cycle
           /\ \A i \in DOMAIN begun :
                /\ begun[i].startedAt \in Nat /\ begun[i].deadlineAt \in Nat
                /\ begun[i].window \in WindowType
<1>1. begun \in Seq(S!BegunType)
  BY DEF Timed
<1>2. /\ Cycle \in Nat /\ DOMAIN begun = 1 .. Cycle
      /\ \A i \in DOMAIN begun : begun[i] \in S!BegunType
  BY <1>1 DEF Cycle
<1>3. \A c \in S!BegunType :
        c.startedAt \in Nat /\ c.deadlineAt \in Nat /\ c.window \in WindowType
  BY SameWindows
<1> QED
  BY <1>2, <1>3

LEMMA BeginTimed ==
    ASSUME Timed, Spaced, S!BeginCycle
    PROVE  Timed' /\ Spaced'
<1> DEFINE n == Len(begun)
           c == [startedAt |-> startedAt, skew |-> clock - clock, window |-> Window(clock),
                 deadlineAt |-> clock + DeadlineTicks]
<1>1. /\ pc = "starting" /\ pc' = "cycle" /\ begun' = Append(begun, c)
      /\ UNCHANGED <<clock, wakeAt, startedAt>>
  BY SameWindows DEF S!BeginCycle
<1>2. c \in S!BegunType
  BY WindowTyped, TicksTyped, SameWindows DEF Timed
<1>3. /\ n \in Nat /\ Len(begun') = n + 1 /\ begun'[n + 1] = c
      /\ DOMAIN begun = 1 .. n /\ DOMAIN begun' = 1 .. n + 1
      /\ \A i \in 1 .. n : begun'[i] = begun[i]
      /\ begun' \in Seq(S!BegunType)
  BY <1>1, <1>2 DEF Timed
<1>4. c.startedAt = startedAt /\ c.window = Window(startedAt)
  BY <1>1 DEF Spaced
<1> HIDE DEF c
<1>5. Timed'
  BY <1>1, <1>3 DEF Timed, Cycle
<1>6. \A i, j \in DOMAIN begun' :
        i < j => begun'[i].startedAt + IntervalTicks <= begun'[j].startedAt
  <2> SUFFICES ASSUME NEW i \in 1 .. n + 1, NEW j \in 1 .. n + 1, i < j
               PROVE  begun'[i].startedAt + IntervalTicks <= begun'[j].startedAt
    BY <1>3
  <2>1. i \in 1 .. n
    BY <1>3
  <2>2. CASE j \in 1 .. n
    BY <1>3, <2>1, <2>2 DEF Spaced
  <2>3. CASE j = n + 1
    BY <1>1, <1>3, <1>4, <2>1, <2>3 DEF Spaced
  <2> QED
    BY <1>3, <2>2, <2>3
<1>7. \A i \in DOMAIN begun' : begun'[i].window = Window(begun'[i].startedAt)
  BY <1>3, <1>4 DEF Spaced
<1>8. startedAt' = begun'[Len(begun')].startedAt
  BY <1>1, <1>3, <1>4
<1> QED
  BY <1>1, <1>5, <1>6, <1>7, <1>8 DEF Spaced, Cycle

LEMMA EndTimed ==
    ASSUME Timed, Spaced, S!Complete \/ S!Fail
    PROVE  Timed' /\ Spaced'
<1>1. pc = "cycle" /\ S!AfterCycle /\ UNCHANGED <<clock, begun, startedAt>>
  BY DEF S!Complete, S!Fail, S!AfterCycle
<1>2. Cycle \in DOMAIN begun /\ startedAt = begun[Cycle].startedAt
  BY <1>1 DEF Timed, Spaced, Cycle
<1>3. /\ clock \in Nat /\ startedAt \in Nat /\ IntervalTicks \in Nat
      /\ DOMAIN begun = 1 .. Cycle
      /\ \A i \in DOMAIN begun : begun[i].startedAt \in Nat
  BY TicksTyped, BegunTyped DEF Timed
<1>4. \A i \in DOMAIN begun : begun[i].startedAt <= startedAt
  <2> TAKE i \in DOMAIN begun
  <2>1. i = Cycle \/ begun[i].startedAt + IntervalTicks <= begun[Cycle].startedAt
    BY <1>2, <1>3 DEF Spaced
  <2> QED
    BY <1>2, <1>3, <2>1
<1>5. /\ wakeAt' \in Nat /\ startedAt + IntervalTicks <= wakeAt'
      /\ pc' \in {"waiting", "woken", "stopped"}
      /\ pc' = "woken" => wakeAt' <= clock
  <2>1. CASE clock - startedAt > IntervalTicks
    BY <1>1, <1>3, <2>1, SameWindows DEF S!AfterCycle
  <2>2. CASE clock - startedAt <= IntervalTicks
    BY <1>1, <1>3, <2>2, SameWindows DEF S!AfterCycle
  <2> QED
    BY <1>3, <2>1, <2>2
<1>6. \A i \in DOMAIN begun : begun[i].startedAt + IntervalTicks <= wakeAt'
  BY <1>3, <1>4, <1>5
<1>7. Timed'
  BY <1>1, <1>5 DEF Timed, Cycle
<1> QED
  BY <1>1, <1>5, <1>6, <1>7 DEF Spaced, Cycle

LEMMA SchedulerKeeps ==
    ASSUME Timed, Spaced, [S!Next]_(S!vars)
    PROVE  Timed' /\ Spaced'
<1>1. CASE S!WaitTimesOut
  BY <1>1 DEF S!WaitTimesOut, Timed, Spaced, Cycle
<1>2. CASE S!WaitStopped
  BY <1>2 DEF S!WaitStopped, Timed, Spaced, Cycle
<1>3. CASE S!ReadStarted
  <2>1. \A i \in DOMAIN begun : begun[i].startedAt \in Nat
    BY BegunTyped
  <2> QED
    BY <1>3, <2>1, TicksTyped DEF S!ReadStarted, Timed, Spaced, Cycle
<1>4. CASE S!BeginCycle
  BY <1>4, BeginTimed
<1>5. CASE S!Complete \/ S!Fail
  BY <1>5, EndTimed
<1>6. CASE S!Stop
  BY <1>6 DEF S!Stop, Timed, Spaced, Cycle
<1>7. CASE S!Tick
  BY <1>7 DEF S!Tick, S!OnTime, Timed, Spaced, Cycle
<1>8. CASE S!Terminated \/ UNCHANGED S!vars
  BY <1>8 DEF S!Terminated, S!vars, Timed, Spaced, Cycle
<1> QED
  BY <1>1, <1>2, <1>3, <1>4, <1>5, <1>6, <1>7, <1>8 DEF S!Next

-----------------------------------------------------------------------------
(* TestCycle implements Scheduler.                                         *)

\* run_cycle runs when the scheduler is in a cycle, and publishes no earlier
\* than the deadline.
Held ==
    /\ phase # "none" <=> pc = "cycle"
    /\ phase = "publish" => clock >= Deadline

LEMMA InsideFrame == Inside => UNCHANGED schedVars
BY DEF Inside, ReadBaseline, ClearReplay, ClearSync, Collect, CollectFails, Hold,
       PublishReceived, PublishResult

LEMMA LeavingEnds ==
    ASSUME Held, Leaving
    PROVE  (S!Complete \/ S!Fail) /\ phase' = "none"
<1>1. PICK p \in BOOLEAN : LeaveCycle(p) /\ phase # "none" /\ (p => phase = "publish")
  BY DEF Leaving, PreparationFails, Unwound, Published
<1>2. /\ pc = "cycle"
      /\ ended' = Append(ended, [at |-> clock, published |-> p])
      /\ S!AfterCycle
      /\ UNCHANGED <<clock, stop, begun, late>> /\ phase' = "none"
  BY <1>1 DEF LeaveCycle, Held
<1>3. CASE p
  BY <1>1, <1>2, <1>3 DEF Held, Deadline, Cycle, S!Complete
<1>4. CASE ~p
  BY <1>1, <1>2, <1>4 DEF S!Fail
<1> QED
  BY <1>3, <1>4

\* Every step is one of Scheduler's or leaves its variables alone.
LEMMA StepImplements == Held /\ [Next]_vars => [S!Next]_(S!vars)
<1> SUFFICES ASSUME Held, [Next]_vars PROVE [S!Next]_(S!vars)
  OBVIOUS
<1>1. CASE Elsewhere
  BY <1>1, ElsewhereFrame DEF schedVars, S!vars
<1>2. CASE Outside
  BY <1>2 DEF Outside, WaitTimesOut, WaitStopped, ReadStarted, Stop, Tick, S!Next
<1>3. CASE OpenWindow
  BY <1>3 DEF OpenWindow, S!Next
<1>4. CASE Inside
  BY <1>4, InsideFrame DEF schedVars, S!vars
<1>5. CASE Leaving
  BY <1>5, LeavingEnds DEF S!Next
<1> QED
  BY <1>1, <1>2, <1>3, <1>4, <1>5, NextSplit

LEMMA HeldKept == Timed /\ Held /\ [Next]_vars => Held'
<1> SUFFICES ASSUME Timed, Held, [Next]_vars PROVE Held'
  OBVIOUS
<1>1. CASE Elsewhere
  BY <1>1, ElsewhereFrame DEF schedVars, loopVars, Held, Deadline, Cycle
<1>2. CASE Outside
  <2>1. UNCHANGED phase
    BY <1>2, OutsideFrame DEF cycleVars, localVars, loopVars
  <2>2. CASE WaitTimesOut \/ WaitStopped \/ ReadStarted \/ Stop
    BY <2>1, <2>2 DEF WaitTimesOut, WaitStopped, ReadStarted, Stop, S!WaitTimesOut,
          S!WaitStopped, S!ReadStarted, S!Stop, Held, Deadline, Cycle
  <2>3. CASE Tick
    <3>1. phase = "publish" => Deadline \in Nat
      BY BegunTyped DEF Timed, Held, Deadline
    <3> QED
      BY <2>1, <2>3, <3>1 DEF Tick, S!Tick, Held, Deadline, Cycle, Timed
  <2> QED
    BY <1>2, <2>2, <2>3 DEF Outside
<1>3. CASE OpenWindow
  BY <1>3 DEF OpenWindow, S!BeginCycle, Held
<1>4. CASE Inside
  <2>1. UNCHANGED <<pc, clock, begun>>
    BY <1>4, InsideFrame DEF schedVars
  <2>2. phase # "none" /\ phase' # "none"
    BY <1>4 DEF Inside, ReadBaseline, ClearReplay, ClearSync, Collect, CollectFails, Hold,
       PublishReceived, PublishResult
  <2>3. phase' = "publish" => phase = "publish" \/ clock >= Deadline
    BY <1>4 DEF Inside, ReadBaseline, ClearReplay, ClearSync, Collect, CollectFails, Hold,
       PublishReceived, PublishResult
  <2> QED
    BY <2>1, <2>2, <2>3 DEF Held, Deadline, Cycle
<1>5. CASE Leaving
  BY <1>5, LeavingEnds DEF S!Complete, S!Fail, S!AfterCycle, Held
<1> QED
  BY <1>1, <1>2, <1>3, <1>4, <1>5, NextSplit

SchedInv == Timed /\ Spaced /\ Held

LEMMA SchedInductive ==
    /\ Init => S!Init /\ SchedInv
    /\ SchedInv /\ [Next]_vars => SchedInv' /\ [S!Next]_(S!vars)
<1>1. Init => S!Init /\ SchedInv
  BY TicksTyped, SameWindows DEF Init, S!Init, SchedInv, Timed, Spaced, Held, Cycle
<1>2. SchedInv /\ [Next]_vars => SchedInv' /\ [S!Next]_(S!vars)
  BY StepImplements, SchedulerKeeps, HeldKept DEF SchedInv
<1> QED
  BY <1>1, <1>2

\* Whatever fetches, services, brokers and Redis do, a cycle opens its window,
\* publishes no earlier than its deadline or raises, and returns to the loop
\* of Scheduler.run.
THEOREM TestCycleImplements == Spec => ImplementsScheduler
BY SchedInductive, PTL DEF Spec, ImplementsScheduler, S!Spec

-----------------------------------------------------------------------------
(* No message is counted twice.                                            *)

\* The windows of two cycles are disjoint.
LEMMA WindowsDisjoint ==
    ASSUME Timed, Spaced, NEW i \in DOMAIN begun, NEW j \in DOMAIN begun, i < j,
           NEW t \in Int, InWindow(begun[i].window, t)
    PROVE  ~InWindow(begun[j].window, t)
<1> DEFINE a == begun[i].startedAt
           b == begun[j].startedAt
<1>1. /\ a \in Nat /\ b \in Nat /\ b >= a + IntervalTicks - 0
      /\ begun[i].window = Window(a) /\ begun[j].window = Window(b)
  BY BegunTyped, TicksTyped DEF Spaced
<1>2. /\ begun[i].window.end \in Int /\ begun[j].window.start \in Int
  BY BegunTyped DEF WindowType
<1> HIDE DEF a, b
<1>3. (Window(a).end - Window(b).start) * TicksPerSecond < TicksPerSecond + 0
  BY <1>1, OverlapOfWindows
<1> DEFINE e == begun[i].window.end
           s == begun[j].window.start
<1>4. e \in Int /\ s \in Int /\ (e - s) * TicksPerSecond < TicksPerSecond
  BY <1>1, <1>2, <1>3, WindowsAssumption DEF WindowsAssumption
<1>5. t < e * TicksPerSecond /\ (InWindow(begun[j].window, t) => s * TicksPerSecond <= t)
  BY DEF InWindow
<1> HIDE DEF e, s
<1>6. e <= s
  BY <1>4, WindowsAssumption DEF WindowsAssumption
<1>7. e * TicksPerSecond <= s * TicksPerSecond
  BY <1>4, <1>6, WindowsAssumption DEF WindowsAssumption
<1>8. e * TicksPerSecond \in Int /\ s * TicksPerSecond \in Int
  BY <1>4, WindowsAssumption DEF WindowsAssumption
<1> QED
  BY <1>5, <1>7, <1>8

\* What run_cycle holds was counted in the window of this cycle.
CountedInWindow ==
    /\ \A topic \in TopicSet : \A m \in baseline[topic] :
         phase # "none" /\ InWindow(CurrentWindow, PubTime[m])
    /\ \A t \in Tasks : results[t] # Missing =>
         phase # "none" /\ \A m \in results[t].counted : InWindow(CurrentWindow, PubTime[m])

\* The counters of a topic or fetch are touched once in a cycle.
NotYet ==
    /\ \A topic \in TopicSet : metrics.receivedIn[topic] <= Cycle
    /\ \A t \in Tasks : metrics.fetchedIn[t] <= Cycle
    /\ phase = "publish" => step \in Nat
    /\ phase # "none" =>
         /\ \A i \in DOMAIN TopicList :
              metrics.receivedIn[TopicList[i]] = Cycle => phase = "publish" /\ i < step
         /\ \A t \in Tasks :
              metrics.fetchedIn[t] = Cycle => phase = "publish" /\ t < step - Len(TopicList)

\* A counter with the number of the cycle that last added to it: what it has
\* counted, once, lay in the window of that cycle or an earlier one.
Once(counter, cycle) ==
    \A m \in Messages :
        counter[m] # 0 =>
            /\ counter[m] = 1
            /\ \E c \in DOMAIN begun : c <= cycle /\ InWindow(begun[c].window, PubTime[m])

CountedOnce ==
    /\ \A topic \in TopicSet : Once(metrics.received[topic], metrics.receivedIn[topic])
    /\ \A t \in Tasks : Once(metrics.fetched[t], metrics.fetchedIn[t])

CountersTyped ==
    /\ DOMAIN metrics = {"received", "fetched", "gauges", "receivedIn", "fetchedIn"}
    /\ metrics.received \in [TopicSet -> [Messages -> Nat]]
    /\ metrics.fetched \in [Tasks -> [Messages -> Nat]]
    /\ metrics.receivedIn \in [TopicSet -> Nat]
    /\ metrics.fetchedIn \in [Tasks -> Nat]
    /\ DOMAIN baseline = TopicSet
    /\ DOMAIN results = Tasks

CountInv == CountersTyped /\ CountedInWindow /\ NotYet /\ CountedOnce

LEMMA ListsTyped ==
    /\ Len(TopicList) \in Nat \ {0} /\ DOMAIN TopicList = 1 .. Len(TopicList)
    /\ \A i \in DOMAIN TopicList : TopicList[i] \in TopicSet
    /\ \A topic \in TopicSet : \E i \in DOMAIN TopicList : topic = TopicList[i]
    /\ \A i, j \in DOMAIN TopicList : TopicList[i] = TopicList[j] => i = j
    /\ Tasks \subseteq Nat
    /\ \A m \in Messages : PubTime[m] \in Nat
BY TestCycleAssumption DEF TestCycleAssumption, TopicSet, Tasks

\* Adding the messages of this cycle's window to a counter that has not been
\* added to in this cycle.
LEMMA TallyOnce ==
    ASSUME Timed, Spaced, Cycle # 0,
           NEW counter \in [Messages -> Nat], NEW cycle \in Nat, cycle < Cycle,
           Once(counter, cycle),
           NEW set, \A m \in set : InWindow(CurrentWindow, PubTime[m])
    PROVE  Once(Tally(counter, set), Cycle) /\ Tally(counter, set) \in [Messages -> Nat]
<1>1. Cycle \in DOMAIN begun /\ Cycle \in Nat
  BY BegunTyped
<1>2. Tally(counter, set) \in [Messages -> Nat]
  BY DEF Tally
<1>3. ASSUME NEW m \in Messages, Tally(counter, set)[m] # 0
      PROVE  /\ Tally(counter, set)[m] = 1
             /\ \E c \in DOMAIN begun : c <= Cycle /\ InWindow(begun[c].window, PubTime[m])
  <2>1. CASE m \notin set
    <3>1. Tally(counter, set)[m] = counter[m]
      BY <2>1 DEF Tally
    <3>2. PICK c \in DOMAIN begun : c <= cycle /\ InWindow(begun[c].window, PubTime[m])
      BY <1>3, <3>1 DEF Once
    <3>3. c <= Cycle
      BY <1>1, <3>2, BegunTyped
    <3> QED
      BY <1>3, <3>1, <3>2, <3>3 DEF Once
  <2>2. CASE m \in set
    <3>1. InWindow(begun[Cycle].window, PubTime[m])
      BY <2>2 DEF CurrentWindow
    <3>2. counter[m] = 0
      <4> SUFFICES ASSUME counter[m] # 0 PROVE FALSE
        OBVIOUS
      <4>1. PICK c \in DOMAIN begun : c <= cycle /\ InWindow(begun[c].window, PubTime[m])
        BY DEF Once
      <4>2. c < Cycle /\ PubTime[m] \in Int
        BY <1>1, <4>1, BegunTyped, ListsTyped
      <4> QED
        BY <1>1, <3>1, <4>1, <4>2, WindowsDisjoint
    <3>3. Tally(counter, set)[m] = 1
      BY <2>2, <3>2 DEF Tally
    <3> QED
      BY <1>1, <3>1, <3>3
  <2> QED
    BY <2>1, <2>2
<1> QED
  BY <1>2, <1>3 DEF Once

LEMMA InitCount == Init => CountInv
<1> SUFFICES ASSUME Init PROVE CountInv
  OBVIOUS
<1>1. Cycle = 0 /\ phase = "none"
  BY DEF Init, S!Init, Cycle
<1> QED
  BY <1>1, ListsTyped
  DEF Init, CountInv, CountersTyped, CountedInWindow, NotYet, CountedOnce, Once

\* A step that leaves the counts alone, opening a window included.
LEMMA CountsKept ==
    ASSUME Timed, CountInv, UNCHANGED <<metrics, baseline, results>>,
           \/ UNCHANGED <<begun, phase, step>>
           \/ /\ phase = "none" /\ phase' = "baseline"
              /\ \E c \in S!BegunType : begun' = Append(begun, c)
    PROVE  CountInv'
<1>1. CASE UNCHANGED <<begun, phase, step>>
  BY <1>1 DEF CountInv, CountersTyped, CountedInWindow, NotYet, CountedOnce, Once,
              CurrentWindow, Cycle
<1>2. CASE /\ phase = "none" /\ phase' = "baseline"
           /\ \E c \in S!BegunType : begun' = Append(begun, c)
  <2>1. /\ Cycle \in Nat /\ Cycle' = Cycle + 1
        /\ DOMAIN begun \subseteq DOMAIN begun'
        /\ \A c \in DOMAIN begun : begun'[c] = begun[c]
    BY <1>2 DEF Timed, Cycle
  <2>2. CountersTyped'
    BY DEF CountInv, CountersTyped
  <2>3. CountedInWindow'
    BY <1>2 DEF CountInv, CountedInWindow
  <2>4. NotYet'
    <3>1. /\ \A topic \in TopicSet :
               metrics.receivedIn[topic] \in Nat /\ metrics.receivedIn[topic] <= Cycle
          /\ \A t \in Tasks : metrics.fetchedIn[t] \in Nat /\ metrics.fetchedIn[t] <= Cycle
      BY DEF CountInv, CountersTyped, NotYet
    <3> QED
      BY <1>2, <2>1, <3>1, ListsTyped DEF NotYet
  <2>5. CountedOnce'
    BY <2>1 DEF CountInv, CountedOnce, Once
  <2> QED
    BY <2>2, <2>3, <2>4, <2>5 DEF CountInv
<1> QED
  BY <1>1, <1>2

LEMMA ReceivedCount ==
    ASSUME SchedInv, CountInv, PublishReceived
    PROVE  CountInv'
<1> DEFINE n == Len(TopicList)
<1>1. /\ phase = "publish" /\ step \in DOMAIN TopicList /\ step' = step + 1
      /\ UNCHANGED <<begun, phase, baseline, results>>
  BY DEF PublishReceived, schedVars
<1>2. PICK topic \in TopicSet : topic = TopicList[step]
  BY <1>1, ListsTyped
<1>3. metrics' = [metrics EXCEPT !.received[topic] = Tally(@, baseline[topic]),
                                 !.receivedIn[topic] = Cycle]
  BY <1>2 DEF PublishReceived
<1>4. /\ metrics'.received = [metrics.received EXCEPT ![topic] = Tally(@, baseline[topic])]
      /\ metrics'.receivedIn = [metrics.receivedIn EXCEPT ![topic] = Cycle]
      /\ metrics'.fetched = metrics.fetched /\ metrics'.fetchedIn = metrics.fetchedIn
      /\ DOMAIN metrics' = DOMAIN metrics
  BY <1>3 DEF CountInv, CountersTyped
<1>5. Timed /\ Spaced /\ Cycle # 0 /\ Cycle \in Nat /\ Cycle' = Cycle
  BY <1>1, BegunTyped DEF SchedInv, Timed, Held, Cycle
<1>6. metrics.receivedIn[topic] \in Nat /\ metrics.receivedIn[topic] < Cycle
  BY <1>1, <1>2, <1>5, ListsTyped DEF CountInv, CountersTyped, NotYet
<1>7. /\ metrics.received[topic] \in [Messages -> Nat]
      /\ Once(metrics.received[topic], metrics.receivedIn[topic])
      /\ \A m \in baseline[topic] : InWindow(CurrentWindow, PubTime[m])
  BY DEF CountInv, CountersTyped, CountedOnce, CountedInWindow
<1>8. /\ Once(Tally(metrics.received[topic], baseline[topic]), Cycle)
      /\ Tally(metrics.received[topic], baseline[topic]) \in [Messages -> Nat]
  BY <1>5, <1>6, <1>7, TallyOnce
<1>9. CountersTyped'
  BY <1>1, <1>4, <1>5, <1>8 DEF CountInv, CountersTyped
<1>10. CountedInWindow'
  BY <1>1 DEF CountInv, CountedInWindow, CurrentWindow, Cycle
<1>11. NotYet'
  <2>1. step \in Nat /\ step' \in Nat
    BY <1>1, ListsTyped
  <2>2. /\ \A o \in TopicSet : metrics'.receivedIn[o] <= Cycle
        /\ \A i \in DOMAIN TopicList :
             metrics'.receivedIn[TopicList[i]] = Cycle => i < step'
    <3>1. \A o \in TopicSet :
            metrics'.receivedIn[o] = IF o = topic THEN Cycle ELSE metrics.receivedIn[o]
      BY <1>4 DEF CountInv, CountersTyped
    <3> QED
      BY <1>1, <1>2, <1>5, <2>1, <3>1, ListsTyped DEF CountInv, NotYet
  <2>3. \A t \in Tasks : metrics'.fetchedIn[t] = Cycle => t < step' - Len(TopicList)
    BY <1>1, <1>4, <2>1, ListsTyped DEF CountInv, NotYet
  <2> QED
    BY <1>1, <1>4, <1>5, <2>1, <2>2, <2>3 DEF CountInv, NotYet
<1>12. CountedOnce'
  <2>1. \A o \in TopicSet :
          /\ o = topic => /\ metrics'.received[o] = Tally(metrics.received[o], baseline[o])
                          /\ metrics'.receivedIn[o] = Cycle
          /\ o # topic => /\ metrics'.received[o] = metrics.received[o]
                          /\ metrics'.receivedIn[o] = metrics.receivedIn[o]
    BY <1>4 DEF CountInv, CountersTyped
  <2>2. \A o \in TopicSet : Once(metrics'.received[o], metrics'.receivedIn[o])
    BY <1>8, <2>1 DEF CountInv, CountedOnce
  <2>3. \A t \in Tasks : Once(metrics'.fetched[t], metrics'.fetchedIn[t])
    BY <1>4 DEF CountInv, CountedOnce
  <2> QED
    BY <1>1, <2>2, <2>3 DEF CountedOnce, Once
<1> QED
  BY <1>9, <1>10, <1>11, <1>12 DEF CountInv

LEMMA ResultCount ==
    ASSUME SchedInv, CountInv, PublishResult
    PROVE  CountInv'
<1>1. /\ phase = "publish" /\ step' = step + 1 /\ step \in Nat /\ step' \in Nat
      /\ UNCHANGED <<begun, phase, baseline, results>>
  BY DEF PublishResult, schedVars, CountInv, NotYet
<1>2. PICK t \in Tasks : t = step - Len(TopicList)
  BY DEF PublishResult
<1>3. CASE results[t] = Missing
  <2>1. metrics' = metrics
    BY <1>2, <1>3 DEF PublishResult
  <2>2. NotYet'
    <3>1. Len(TopicList) \in Nat /\ Tasks \subseteq Nat
      BY ListsTyped
    <3>2. \A u \in Tasks : metrics.fetchedIn[u] = Cycle => u < step' - Len(TopicList)
      BY <1>1, <3>1 DEF CountInv, NotYet
    <3>3. \A i \in DOMAIN TopicList : metrics.receivedIn[TopicList[i]] = Cycle => i < step'
      BY <1>1, ListsTyped DEF CountInv, NotYet
    <3> QED
      BY <1>1, <2>1, <3>2, <3>3 DEF CountInv, NotYet, Cycle
  <2> QED
    BY <1>1, <2>1, <2>2 DEF CountInv, CountersTyped, CountedInWindow, CountedOnce, Once,
                            CurrentWindow, Cycle
<1>4. CASE results[t] # Missing
  <2> DEFINE set == results[t].counted
  <2>1. metrics' = [metrics EXCEPT !.fetched[t] = Tally(@, set),
                      !.gauges[t] = [aborted |-> results[t].aborted,
                                     flagged |-> results[t].flagged],
                      !.fetchedIn[t] = Cycle]
    BY <1>2, <1>4 DEF PublishResult
  <2>2. /\ metrics'.fetched = [metrics.fetched EXCEPT ![t] = Tally(@, set)]
        /\ metrics'.fetchedIn = [metrics.fetchedIn EXCEPT ![t] = Cycle]
        /\ metrics'.received = metrics.received /\ metrics'.receivedIn = metrics.receivedIn
        /\ DOMAIN metrics' = DOMAIN metrics
    BY <2>1 DEF CountInv, CountersTyped
  <2>3. Timed /\ Spaced /\ Cycle # 0 /\ Cycle \in Nat /\ Cycle' = Cycle
    BY <1>1, BegunTyped DEF SchedInv, Timed, Held, Cycle
  <2>4. metrics.fetchedIn[t] \in Nat /\ metrics.fetchedIn[t] < Cycle
    BY <1>1, <1>2, <2>3, ListsTyped DEF CountInv, CountersTyped, NotYet
  <2>5. /\ metrics.fetched[t] \in [Messages -> Nat]
        /\ Once(metrics.fetched[t], metrics.fetchedIn[t])
        /\ \A m \in set : InWindow(CurrentWindow, PubTime[m])
    BY <1>4 DEF CountInv, CountersTyped, CountedOnce, CountedInWindow
  <2> HIDE DEF set
  <2>6. /\ Once(Tally(metrics.fetched[t], set), Cycle)
        /\ Tally(metrics.fetched[t], set) \in [Messages -> Nat]
    BY <2>3, <2>4, <2>5, TallyOnce
  <2>7. CountersTyped'
    BY <1>1, <2>2, <2>3, <2>6 DEF CountInv, CountersTyped
  <2>8. CountedInWindow'
    BY <1>1 DEF CountInv, CountedInWindow, CurrentWindow, Cycle
  <2>9. NotYet'
    <3>1. \A u \in Tasks :
            metrics'.fetchedIn[u] = IF u = t THEN Cycle ELSE metrics.fetchedIn[u]
      BY <2>2 DEF CountInv, CountersTyped
    <3>2. Len(TopicList) \in Nat /\ Tasks \subseteq Nat
      BY ListsTyped
    <3>3. /\ \A u \in Tasks : metrics'.fetchedIn[u] <= Cycle
          /\ \A u \in Tasks : metrics'.fetchedIn[u] = Cycle => u < step' - Len(TopicList)
      BY <1>1, <1>2, <2>3, <3>1, <3>2 DEF CountInv, NotYet
    <3>4. \A i \in DOMAIN TopicList :
            metrics'.receivedIn[TopicList[i]] = Cycle => i < step'
      BY <1>1, <2>2, ListsTyped DEF CountInv, NotYet
    <3> QED
      BY <1>1, <2>2, <2>3, <3>3, <3>4 DEF CountInv, NotYet
  <2>10. CountedOnce'
    <3>1. \A u \in Tasks :
            /\ u = t => /\ metrics'.fetched[u] = Tally(metrics.fetched[u], set)
                        /\ metrics'.fetchedIn[u] = Cycle
            /\ u # t => /\ metrics'.fetched[u] = metrics.fetched[u]
                        /\ metrics'.fetchedIn[u] = metrics.fetchedIn[u]
      BY <2>2 DEF CountInv, CountersTyped
    <3>2. \A u \in Tasks : Once(metrics'.fetched[u], metrics'.fetchedIn[u])
      BY <2>6, <3>1 DEF CountInv, CountedOnce
    <3>3. \A o \in TopicSet : Once(metrics'.received[o], metrics'.receivedIn[o])
      BY <2>2 DEF CountInv, CountedOnce
    <3> QED
      BY <1>1, <3>2, <3>3 DEF CountedOnce, Once
  <2> QED
    BY <2>7, <2>8, <2>9, <2>10 DEF CountInv
<1> QED
  BY <1>3, <1>4

\* The steps of run_cycle before it publishes.
LEMMA GatherCount ==
    ASSUME SchedInv, CountInv,
           ReadBaseline \/ ClearReplay \/ ClearSync \/ Collect \/ CollectFails \/ Hold
    PROVE  CountInv'
<1>1. /\ UNCHANGED <<begun, metrics>> /\ phase # "none" /\ phase # "publish"
      /\ phase' # "none" /\ (phase' = "publish" => step' = 1)
  BY DEF ReadBaseline, ClearReplay, ClearSync, Collect, CollectFails, Hold, schedVars,
         reportVars
<1>2. DOMAIN baseline' = TopicSet /\ DOMAIN results' = Tasks
  BY DEF CountInv, CountersTyped, ReadBaseline, ClearReplay, ClearSync, Collect, CollectFails,
         Hold
<1>3. CountersTyped'
  BY <1>1, <1>2 DEF CountInv, CountersTyped
<1>4. NotYet'
  BY <1>1 DEF CountInv, NotYet, Cycle
<1>5. CountedOnce'
  BY <1>1 DEF CountInv, CountedOnce, Once
<1>6. CountedInWindow'
  <2>1. CASE ReadBaseline
    <3>1. /\ results' = results
          /\ baseline' = [baseline EXCEPT ![TopicList[step]] =
                            ZCount({m \in indexed : TopicList[step] \in Indexed[m]})]
      BY <2>1 DEF ReadBaseline
    <3>2. \A topic \in TopicSet : \A m \in baseline'[topic] :
            InWindow(CurrentWindow, PubTime[m])
      BY <3>1 DEF ZCount, CountInv, CountersTyped, CountedInWindow
    <3> QED
      BY <1>1, <3>1, <3>2 DEF CountInv, CountedInWindow, CurrentWindow, Cycle
  <2>2. CASE Collect
    <3>1. PICK r : /\ results' = [results EXCEPT ![step] = r]
                   /\ r # Missing => r = Recount(step)
      BY <2>2 DEF Collect
    <3>2. \A m \in Recount(step).counted : InWindow(CurrentWindow, PubTime[m])
      BY DEF Recount, ZCount
    <3>3. \A t \in Tasks : results'[t] # Missing =>
            \A m \in results'[t].counted : InWindow(CurrentWindow, PubTime[m])
      BY <3>1, <3>2 DEF CountInv, CountersTyped, CountedInWindow
    <3>4. baseline' = baseline
      BY <2>2 DEF Collect
    <3> QED
      BY <1>1, <3>3, <3>4 DEF CountInv, CountedInWindow, CurrentWindow, Cycle
  <2>3. CASE ClearReplay \/ ClearSync \/ CollectFails \/ Hold
    <3>1. UNCHANGED <<baseline, results>>
      BY <2>3 DEF ClearReplay, ClearSync, CollectFails, Hold
    <3> QED
      BY <1>1, <3>1 DEF CountInv, CountedInWindow, CurrentWindow, Cycle
  <2> QED
    BY <2>1, <2>2, <2>3
<1> QED
  BY <1>3, <1>4, <1>5, <1>6 DEF CountInv

LEMMA LeavingCount ==
    ASSUME CountInv, Leaving
    PROVE  CountInv'
<1>1. /\ UNCHANGED <<begun, metrics>> /\ phase' = "none"
      /\ baseline' = [t \in TopicSet |-> {}] /\ results' = [t \in Tasks |-> Missing]
  BY DEF Leaving, PreparationFails, Unwound, Published, LeaveCycle
<1>2. CountedInWindow'
  BY <1>1 DEF CountedInWindow
<1> QED
  BY <1>1, <1>2 DEF CountInv, CountersTyped, NotYet, CountedOnce, Once, Cycle

LEMMA CountKept == SchedInv /\ CountInv /\ [Next]_vars => CountInv'
<1> SUFFICES ASSUME SchedInv, CountInv, [Next]_vars PROVE CountInv'
  OBVIOUS
<1>0. Timed
  BY DEF SchedInv
<1>1. CASE Elsewhere
  <2>1. UNCHANGED <<begun, phase, step, baseline, results, metrics>>
    BY <1>1, ElsewhereFrame DEF schedVars, loopVars
  <2> QED
    BY <1>0, <2>1, CountsKept
<1>2. CASE Outside
  <2>1. UNCHANGED <<phase, step, baseline, results, metrics>>
    BY <1>2, OutsideFrame DEF cycleVars, localVars, loopVars, reportVars
  <2>2. UNCHANGED begun
    BY <1>2 DEF Outside, WaitTimesOut, WaitStopped, ReadStarted, Stop, Tick, S!WaitTimesOut,
                S!WaitStopped, S!ReadStarted, S!Stop, S!Tick
  <2> QED
    BY <1>0, <2>1, <2>2, CountsKept
<1>3. CASE OpenWindow
  <2>1. /\ phase = "none" /\ phase' = "baseline" /\ UNCHANGED <<metrics, baseline, results>>
    BY <1>3 DEF OpenWindow, S!BeginCycle, SchedInv, Held, reportVars
  <2>2. \E c \in S!BegunType : begun' = Append(begun, c)
    <3> DEFINE c == [startedAt |-> startedAt, skew |-> clock - clock,
                     window |-> Window(clock), deadlineAt |-> clock + DeadlineTicks]
    <3>1. begun' = Append(begun, c)
      BY <1>3, SameWindows DEF OpenWindow, S!BeginCycle
    <3>2. c \in S!BegunType
      BY <1>0, WindowTyped, TicksTyped, SameWindows DEF Timed
    <3> QED
      BY <3>1, <3>2
  <2> QED
    BY <1>0, <2>1, <2>2, CountsKept
<1>4. CASE Inside
  BY <1>4, GatherCount, ReceivedCount, ResultCount DEF Inside
<1>5. CASE Leaving
  BY <1>5, LeavingCount
<1> QED
  BY <1>1, <1>2, <1>3, <1>4, <1>5, NextSplit

\* A message is added to a counter at most once, however often and in
\* whichever cycles it is received, paged or replayed: the counter is touched
\* once a cycle, with messages of that cycle's window, and windows are
\* disjoint.
THEOREM TestCycleCountsOnce == Spec => []CountedAtMostOnce
<1>1. Init => SchedInv /\ CountInv
  BY SchedInductive, InitCount
<1>2. SchedInv /\ CountInv /\ [Next]_vars => (SchedInv /\ CountInv)'
  BY SchedInductive, CountKept
<1>3. CountInv => CountedAtMostOnce
  BY DEF CountInv, CountersTyped, CountedOnce, Once, CountedAtMostOnce
<1> QED
  BY <1>1, <1>2, <1>3, PTL DEF Spec

-----------------------------------------------------------------------------
(* Pairs and tasks.                                                        *)

LEMMA PairCount ==
    \E p \in Nat : Pairs = 1 .. p /\ Tasks = 1 .. 2 * p
<1>1. Len(TopicList) \in Nat /\ Len(TargetList) \in Nat
  BY TestCycleAssumption DEF TestCycleAssumption
<1>2. ASSUME NEW a \in Nat, NEW b \in Nat
      PROVE  a * b \in Nat /\ 2 * a * b = 2 * (a * b)
  BY SMT
<1> QED
  BY <1>1, <1>2 DEF Pairs, Tasks

LEMMA SomePair == 1 \in Pairs
<1>1. Len(TopicList) \in Nat \ {0} /\ Len(TargetList) \in Nat \ {0}
  BY TestCycleAssumption DEF TestCycleAssumption
<1>2. ASSUME NEW a \in Nat \ {0}, NEW b \in Nat \ {0}
      PROVE  1 \in 1 .. a * b
  BY SMT
<1> QED
  BY <1>1, <1>2 DEF Pairs

LEMMA PairTasks ==
    ASSUME NEW k \in Pairs
    PROVE  /\ SyncTask(k) \in Tasks /\ IsSync(SyncTask(k)) /\ PairOf(SyncTask(k)) = k
           /\ AsyncTask(k) \in Tasks /\ ~IsSync(AsyncTask(k)) /\ PairOf(AsyncTask(k)) = k
BY PairCount DEF SyncTask, AsyncTask, IsSync, PairOf

LEMMA TaskPair ==
    ASSUME NEW t \in Tasks
    PROVE  /\ PairOf(t) \in Pairs
           /\ IsSync(t) => t = SyncTask(PairOf(t))
           /\ ~IsSync(t) => t = AsyncTask(PairOf(t))
BY PairCount DEF SyncTask, AsyncTask, IsSync, PairOf

LEMMA TaskCount ==
    Cardinality(Tasks) \in Nat /\ Tasks = 1 .. Cardinality(Tasks)
<1>1. PICK p \in Nat : Tasks = 1 .. 2 * p
  BY PairCount
<1>2. 2 * p \in Int /\ 1 \in Int
  OBVIOUS
<1>3. Cardinality(1 .. 2 * p) = IF 1 > 2 * p THEN 0 ELSE 2 * p - 1 + 1
  BY <1>2, FS_Interval
<1> QED
  BY <1>1, <1>3

LEMMA QuotientBounds ==
    ASSUME NEW n \in Nat \ {0}, NEW a \in Nat
    PROVE  a \div n \in Nat /\ (a \div n) * n <= a /\ a % n \in 0 .. n - 1
OBVIOUS

LEMMA QuotientRemainder ==
    ASSUME NEW n \in Nat \ {0}, NEW a \in Nat, NEW b \in Nat,
           a \div n = b \div n, a % n = b % n
    PROVE  a = b
OBVIOUS

\* No two pairs have the same topic and service.
LEMMA PairsDistinct ==
    ASSUME NEW j \in Pairs, NEW k \in Pairs,
           TopicOf(j) = TopicOf(k), TargetOf(j) = TargetOf(k)
    PROVE  j = k
<1> DEFINE n == Len(TargetList)
           l == Len(TopicList)
<1>1. /\ n \in Nat \ {0} /\ DOMAIN TargetList = 1 .. n
      /\ l \in Nat \ {0} /\ DOMAIN TopicList = 1 .. l
  BY TestCycleAssumption DEF TestCycleAssumption
<1>2. ASSUME NEW i \in Pairs
      PROVE  /\ i \in Nat /\ i - 1 \in Nat
             /\ (i - 1) \div n \in Nat /\ ((i - 1) \div n) + 1 \in DOMAIN TopicList
             /\ (i - 1) % n \in Nat /\ ((i - 1) % n) + 1 \in DOMAIN TargetList
  <2> DEFINE q == (i - 1) \div n
  <2>1. i \in Nat /\ i - 1 \in Nat /\ i - 1 < l * n
    BY <1>1 DEF Pairs
  <2>2. q \in Nat /\ q * n <= i - 1 /\ (i - 1) % n \in 0 .. n - 1
    BY <1>1, <2>1, QuotientBounds
  <2> HIDE DEF q, n, l
  <2>3. q < l
    <3>1. SUFFICES ASSUME q >= l PROVE FALSE
      BY <1>1, <2>2
    <3>2. q * n >= l * n
      BY <1>1, <2>2, <3>1, SMT
    <3> QED
      BY <1>1, <2>1, <2>2, <3>2
  <2> QED
    BY <1>1, <2>1, <2>2, <2>3 DEF q
<1>3. (j - 1) \div n = (k - 1) \div n /\ (j - 1) % n = (k - 1) % n
  <2>1. ((j - 1) \div n) + 1 = ((k - 1) \div n) + 1
    BY <1>2, TestCycleAssumption DEF TopicOf, TestCycleAssumption
  <2>2. ((j - 1) % n) + 1 = ((k - 1) % n) + 1
    BY <1>2, TestCycleAssumption DEF TargetOf, TestCycleAssumption
  <2>3. ASSUME NEW a \in Nat, NEW b \in Nat, a + 1 = b + 1
        PROVE  a = b
    BY <2>3
  <2> HIDE DEF n
  <2> QED
    BY <1>2, <2>1, <2>2, <2>3
<1>4. j \in Nat /\ k \in Nat /\ j - 1 = k - 1
  <2> HIDE DEF n
  <2> QED
    BY <1>1, <1>2, <1>3, QuotientRemainder
<1> QED
  BY <1>4

-----------------------------------------------------------------------------
(* What a fetch is credited with was brought in during its cycle.          *)

KeysKept ==
    /\ DOMAIN replayed = Pairs /\ DOMAIN paged = Pairs
    /\ DOMAIN brought = Tasks /\ DOMAIN results = Tasks

\* Once cleared, the Redis sets hold nothing that was not brought in since.
BroughtIn ==
    /\ phase \notin {"none", "baseline", "clear"} =>
         \A k \in Pairs : replayed[k] \subseteq brought[AsyncTask(k)]
    /\ phase \notin {"none", "baseline", "clear", "clear_sync"} =>
         \A k \in Pairs : paged[k] \subseteq brought[SyncTask(k)]

BroughtInv == KeysKept /\ BroughtIn /\ CountedIsBrought

\* What a fetch of this cycle brings in.
LEMMA PageBrought ==
    ASSUME BroughtInv, NEW k \in Pairs, NEW page,
           paged' = [paged EXCEPT ![k] = @ \cup page],
           brought' = [brought EXCEPT ![SyncTask(k)] = @ \cup page],
           UNCHANGED <<phase, results, replayed>>
    PROVE  BroughtInv'
<1>1. SyncTask(k) \in Tasks
  BY PairTasks
<1>2. /\ \A j \in Pairs : paged'[j] = IF j = k THEN paged[j] \cup page ELSE paged[j]
      /\ \A t \in Tasks :
           brought'[t] = IF t = SyncTask(k) THEN brought[t] \cup page ELSE brought[t]
  BY <1>1 DEF BroughtInv, KeysKept
<1>3. \A j \in Pairs : AsyncTask(j) \in Tasks /\ SyncTask(j) \in Tasks
  BY PairTasks
<1>4. KeysKept'
  BY DEF BroughtInv, KeysKept
<1>5. BroughtIn'
  BY <1>2, <1>3 DEF BroughtInv, BroughtIn
<1>6. CountedIsBrought'
  BY <1>2 DEF BroughtInv, CountedIsBrought
<1> QED
  BY <1>4, <1>5, <1>6 DEF BroughtInv

\* What the MQTT threads bring in.
LEMMA ReplayBrought ==
    ASSUME BroughtInv, NEW r, NEW n, StoreUnder(r, n),
           UNCHANGED <<phase, results, paged>>
    PROVE  BroughtInv'
<1> DEFINE keys == {k \in Pairs : /\ TargetOf(k) = r.centre
                                  /\ \E i \in 1 .. n : TopicOf(k) = TopicList[i]
                                  /\ TopicOf(k) \in Indexed[r.msg]}
<1>1. /\ replayed' = [k \in Pairs |-> IF k \in keys THEN replayed[k] \cup {r.msg}
                                                    ELSE replayed[k]]
      /\ brought' = [t \in Tasks |-> IF ~IsSync(t) /\ PairOf(t) \in keys
                                       THEN brought[t] \cup {r.msg} ELSE brought[t]]
  BY DEF StoreUnder
<1> HIDE DEF keys
<1>2. \A t \in Tasks : brought[t] \subseteq brought'[t]
  BY <1>1
<1>3. \A k \in Pairs : AsyncTask(k) \in Tasks /\ SyncTask(k) \in Tasks
  BY PairTasks
<1>4. ASSUME NEW k \in Pairs, replayed[k] \subseteq brought[AsyncTask(k)]
      PROVE  replayed'[k] \subseteq brought'[AsyncTask(k)]
  <2>1. AsyncTask(k) \in Tasks /\ ~IsSync(AsyncTask(k)) /\ PairOf(AsyncTask(k)) = k
    BY PairTasks
  <2> QED
    BY <1>1, <1>4, <2>1
<1>5. KeysKept'
  BY <1>1 DEF BroughtInv, KeysKept
<1>6. BroughtIn'
  BY <1>2, <1>3, <1>4 DEF BroughtInv, BroughtIn
<1>7. CountedIsBrought'
  BY <1>2 DEF BroughtInv, CountedIsBrought
<1> QED
  BY <1>5, <1>6, <1>7 DEF BroughtInv

\* A step that brings in nothing and does not change the phase.
LEMMA NothingBrought ==
    ASSUME BroughtInv, UNCHANGED <<phase, results, replayed, paged, brought>>
    PROVE  BroughtInv'
BY DEF BroughtInv, KeysKept, BroughtIn, CountedIsBrought

LEMMA ElsewhereBrought ==
    ASSUME BroughtInv, Elsewhere
    PROVE  BroughtInv'
<1>1. UNCHANGED <<phase, results>>
  BY ElsewhereFrame DEF loopVars
<1> USE DEF sharedVars, redisVars, reportVars, historyVars
<1>2. ASSUME NEW k \in Pairs, SyncFetch(k)
      PROVE  BroughtInv'
  <2>1. CASE SyncAborts(k) \/ SyncInvalid(k) \/ SyncRaises(k) \/ SyncStopsPaging(k)
    <3>1. UNCHANGED <<replayed, paged, brought>>
      BY <2>1 DEF SyncAborts, SyncInvalid, SyncRaises, SyncStopsPaging
    <3> QED
      BY <1>1, <3>1, NothingBrought
  <2>2. ASSUME NEW page,
               \/ SyncStoreFails(k, page)
               \/ \E f, junk, more : ProcessPage(k, f, page, junk, more)
        PROVE  BroughtInv'
    <3>1. /\ paged' = [paged EXCEPT ![k] = @ \cup page]
          /\ brought' = [brought EXCEPT ![SyncTask(k)] = @ \cup page]
          /\ UNCHANGED replayed
      BY <2>2 DEF SyncStoreFails, ProcessPage
    <3> QED
      BY <1>1, <3>1, PageBrought
  <2> QED
    BY <1>2, <2>1, <2>2 DEF SyncFetch, SyncFirstPage, SyncNextPage
<1>3. ASSUME NEW b \in Brokers, MqttThread(b)
      PROVE  BroughtInv'
  <2>1. CASE \/ \E r \in replays : ReplayArrives(b, r)
             \/ RecordArrival(b) \/ DropReplay(b) \/ PayloadRaises(b)
    <3>1. UNCHANGED <<replayed, paged, brought>>
      BY <2>1 DEF ReplayArrives, RecordArrival, DropReplay, PayloadRaises
    <3> QED
      BY <1>1, <3>1, NothingBrought
  <2>2. CASE StoreReplay(b)
    <3>1. StoreUnder(handler[b], Len(TopicList)) /\ UNCHANGED paged
      BY <2>2 DEF StoreReplay
    <3> QED
      BY <1>1, <3>1, ReplayBrought
  <2>3. ASSUME NEW n \in 0 .. Len(TopicList) - 1, StoreReplayFails(b, n)
        PROVE  BroughtInv'
    <3>1. StoreUnder(handler[b], n) /\ UNCHANGED paged
      BY <2>3 DEF StoreReplayFails
    <3> QED
      BY <1>1, <3>1, ReplayBrought
  <2> QED
    BY <1>3, <2>1, <2>2, <2>3 DEF MqttThread
<1>4. CASE \/ \E k \in Pairs : AsyncFetch(k)
           \/ \E m \in Messages : BrokerMessage(m)
           \/ \E k \in Pairs : \E page \in SUBSET Answers(k) : ServiceReplays(k, page)
           \/ BoundReached \/ Terminated \/ UNCHANGED vars
  <2>1. UNCHANGED <<replayed, paged, brought>>
    BY <1>4 DEF AsyncFetch, Register, PostReturns, DecideNone, DecideWait, Snapshot, Leave,
                BrokerMessage, ServiceReplays, BoundReached, Terminated, vars, cycleVars
  <2> QED
    BY <1>1, <2>1, NothingBrought
<1> QED
  BY <1>2, <1>3, <1>4 DEF Elsewhere

LEMMA InsideBrought ==
    ASSUME BroughtInv, Inside
    PROVE  BroughtInv'
<1> USE DEF sharedVars, redisVars, reportVars, historyVars
<1>1. UNCHANGED brought /\ phase # "none" /\ phase' # "none"
  BY DEF Inside, ReadBaseline, ClearReplay, ClearSync, Collect, CollectFails, Hold,
         PublishReceived, PublishResult
<1>2. KeysKept'
  BY DEF Inside, ReadBaseline, ClearReplay, ClearSync, Collect, CollectFails, Hold,
         PublishReceived, PublishResult, BroughtInv, KeysKept
<1>3. CASE ClearReplay
  BY <1>1, <1>2, <1>3 DEF ClearReplay, BroughtInv, BroughtIn, CountedIsBrought
<1>4. CASE ClearSync
  BY <1>1, <1>2, <1>4 DEF ClearSync, BroughtInv, BroughtIn, CountedIsBrought
<1>5. CASE ReadBaseline \/ CollectFails \/ Hold \/ PublishReceived \/ PublishResult
  <2>1. /\ UNCHANGED <<replayed, paged, results>>
        /\ \/ phase' \in {"baseline", "clear"}
           \/ phase \notin {"none", "baseline", "clear", "clear_sync"}
    BY <1>5 DEF ReadBaseline, CollectFails, Hold, PublishReceived, PublishResult
  <2> QED
    BY <1>1, <1>2, <2>1 DEF BroughtInv, BroughtIn, CountedIsBrought
<1>6. CASE Collect
  <2>1. /\ UNCHANGED <<replayed, paged>> /\ phase = "collect" /\ phase' \in {"collect", "hold"}
    BY <1>6 DEF Collect
  <2>2. PICK r : /\ results' = [results EXCEPT ![step] = r]
                 /\ r # Missing => r = Recount(step)
    BY <1>6 DEF Collect
  <2>3. ASSUME step \in Tasks
        PROVE  Recount(step).counted \subseteq brought[step]
    <3> DEFINE k == PairOf(step)
    <3>1. /\ k \in Pairs
          /\ IsSync(step) => step = SyncTask(k)
          /\ ~IsSync(step) => step = AsyncTask(k)
      BY <2>3, TaskPair
    <3>2. paged[k] \subseteq brought[SyncTask(k)] /\ replayed[k] \subseteq brought[AsyncTask(k)]
      BY <2>1, <3>1 DEF BroughtInv, BroughtIn
    <3>3. Recount(step).counted \subseteq IF IsSync(step) THEN paged[k] ELSE replayed[k]
      BY DEF Recount, ZCount
    <3> HIDE DEF k
    <3> QED
      BY <3>1, <3>2, <3>3
  <2>4. CountedIsBrought'
    BY <1>1, <2>2, <2>3 DEF BroughtInv, KeysKept, CountedIsBrought
  <2>5. BroughtIn'
    BY <1>1, <2>1 DEF BroughtInv, BroughtIn
  <2> QED
    BY <1>2, <2>4, <2>5 DEF BroughtInv
<1> QED
  BY <1>3, <1>4, <1>5, <1>6 DEF Inside

LEMMA BroughtKept == BroughtInv /\ [Next]_vars => BroughtInv'
<1> SUFFICES ASSUME BroughtInv, [Next]_vars PROVE BroughtInv'
  OBVIOUS
<1>1. CASE Outside
  <2>1. UNCHANGED <<phase, results, replayed, paged, brought>>
    BY <1>1, OutsideFrame
    DEF cycleVars, localVars, loopVars, sharedVars, redisVars, reportVars, historyVars
  <2> QED
    BY <2>1, NothingBrought
<1>2. CASE OpenWindow
  BY <1>2 DEF OpenWindow, sharedVars, redisVars, reportVars, historyVars,
              BroughtInv, KeysKept, BroughtIn, CountedIsBrought
<1>3. CASE Leaving
  BY <1>3 DEF Leaving, PreparationFails, Unwound, Published, LeaveCycle, redisVars,
              BroughtInv, KeysKept, BroughtIn, CountedIsBrought
<1> QED
  BY <1>1, <1>2, <1>3, ElsewhereBrought, InsideBrought, NextSplit

\* A fetch is credited only with what it has paged or a replay message has put
\* there during this cycle: what earlier cycles left in Redis was deleted before.
THEOREM TestCycleCreditsBrought == Spec => []CountedIsBrought
<1>1. Init => BroughtInv
  BY DEF Init, BroughtInv, KeysKept, BroughtIn, CountedIsBrought
<1>2. BroughtInv => CountedIsBrought
  BY DEF BroughtInv
<1> QED
  BY <1>1, <1>2, BroughtKept, PTL DEF Spec
=============================================================================
