----------------------------- MODULE TestCycle -----------------------------
(***************************************************************************)
(* A test cycle of SCGRep in full: run_cycle (scgrep/test_cycle.py), the   *)
(* synchronous and asynchronous fetches it fans out                        *)
(* (scgrep/replay_tester.py), the registry and the MQTT threads that feed  *)
(* it (scgrep/replay_registry.py, MessageHandler in scgrep/mqtt_client.py) *)
(* and the Redis sets they share (scgrep/redis_store.py), over several     *)
(* cycles timed by Scheduler.                                              *)
(*                                                                         *)
(* A count is kept as the set of messages counted, so that a property can  *)
(* tell which message was counted when; the code keeps its cardinality.    *)
(* The wall clock runs with the monotonic one and the scheduler thread is  *)
(* punctual here: what either can do to the windows is Scheduler's subject.*)
(***************************************************************************)
EXTENDS Windows, SequencesExt

CONSTANTS
    TopicList,   \* SUBSCRIPTION_TOPICS, in order
    TargetList,  \* the Global Replay services, in order
    Messages,    \* the message ids
    PubTime,     \* [Messages -> Nat]: publication instant
    Indexed,     \* [Messages -> SUBSET topics] topic_matches puts it under
    Routed,      \* [Messages -> SUBSET topics] a query or channel prefix takes it in
    Brokers,     \* the replay brokers, one MQTT thread each
    Missing,     \* no result: the task raised or was not collected
    Idle, Dead,  \* an MQTT thread waiting for a message; one that has ended
    MaxPages,    \* _MAX_PAGES
    MaxClaim,    \* bound on numberMatched
    MaxJunk,     \* bound on the features of a page that lack an id or a time
    Signals,     \* whether SIGTERM may arrive
    RedisFails,  \* whether Redis calls may fail
    Overshoot,   \* bound: ticks a cycle may run on past its deadline
    MaxCycles,   \* bound on the cycles begun
    MaxClock     \* bound on the clock

TopicSet == {TopicList[i] : i \in DOMAIN TopicList}
TargetSet == {TargetList[i] : i \in DOMAIN TargetList}

ASSUME TestCycleAssumption ==
    /\ TopicList \in Seq(TopicSet) /\ TopicList # << >>
    /\ \A i, j \in DOMAIN TopicList : TopicList[i] = TopicList[j] => i = j
    /\ TargetList \in Seq(TargetSet) /\ TargetList # << >>
    /\ \A i, j \in DOMAIN TargetList : TargetList[i] = TargetList[j] => i = j
    /\ IsFiniteSet(Messages) /\ PubTime \in [Messages -> Nat]
    /\ Indexed \in [Messages -> SUBSET TopicSet]
    /\ Routed \in [Messages -> SUBSET TopicSet]
    /\ MaxPages \in Nat \ {0} /\ MaxClaim \in Nat /\ MaxJunk \in Nat
    /\ Signals \in BOOLEAN /\ RedisFails \in BOOLEAN
    /\ Overshoot \in Nat /\ MaxCycles \in Nat /\ MaxClock \in Nat

(* The (topic, service) pairs in the order of the nested loops.  Pair k has *)
(* two tasks: its synchronous fetch is submitted just before its            *)
(* asynchronous one.                                                        *)
Pairs == 1 .. Len(TopicList) * Len(TargetList)
TopicOf(k) == TopicList[((k - 1) \div Len(TargetList)) + 1]
TargetOf(k) == TargetList[((k - 1) % Len(TargetList)) + 1]

Tasks == 1 .. 2 * Len(TopicList) * Len(TargetList)
IsSync(t) == t % 2 = 1
PairOf(t) == (t + 1) \div 2
SyncTask(k) == 2 * k - 1
AsyncTask(k) == 2 * k

VARIABLES
    clock, pc, wakeAt, startedAt, stop, begun, ended, late,  \* as in Scheduler
    phase,     \* where run_cycle is
    step,      \* the topic, task or metric its current loop is at
    baseline,  \* the local `baselines`
    sync,      \* per pair, its synchronous fetch
    async,     \* per pair, its asynchronous fetch
    results,   \* `fetch_results`, by task
    indexed,   \* Redis: the messages under scgrep:topic:*
    replayed,  \* Redis: scgrep:replay:<centre>:<topic>, per pair
    paged,     \* Redis: scgrep:sync:<centre>:<topic>, per pair
    active,    \* the registry's channels, in registration order
    first,     \* per pair, whether its last ReplayCounter has a first arrival
    handler,   \* per replay broker, what its thread is handling
    replays,   \* replay messages the services have published
    metrics,   \* the Prometheus registry
    heard,     \* history: pairs handle_replay has told of a message in time
    fresh,     \* history: of those, the ones this cycle's replay brought
    brought    \* history: what each task has brought in this cycle

schedVars == <<clock, pc, wakeAt, startedAt, stop, begun, ended, late>>
loopVars == <<phase, step, baseline, results>>
fetchVars == <<sync, async>>
localVars == <<loopVars, fetchVars>>
redisVars == <<indexed, replayed, paged>>
registryVars == <<active, first>>
brokerVars == <<handler, replays>>
sharedVars == <<redisVars, registryVars, brokerVars>>
historyVars == <<heard, fresh, brought>>
reportVars == <<metrics, historyVars>>
cycleVars == <<localVars, sharedVars, reportVars>>
vars == <<schedVars, cycleVars>>

S == INSTANCE Scheduler
       WITH wall <- clock, WakeLag <- 0, StartLag <- 0,
            Adjustments <- {}, MaxSkew <- 0

Cycle == Len(begun)
CurrentWindow == begun[Cycle].window
Deadline == begun[Cycle].deadlineAt

-----------------------------------------------------------------------------
(* Types.                                                                  *)

SyncType ==
    [st : {"get", "next", "done", "raised"}, aborted : BOOLEAN, valid : BOOLEAN,
     claimed : 0 .. MaxClaim, seen : Nat, pages : 0 .. MaxPages]

AsyncType ==
    [st : {"register", "post", "decide", "await", "leave", "done"},
     aborted : BOOLEAN]

\* A fetch that an arrival can still make a difference to.
Waiting == {"post", "decide", "await"}

\* A fetch whose verdict is reached.
Decided == {"leave", "done"}

ResultType ==
    [aborted : BOOLEAN, counted : SUBSET Messages, claimed : 0 .. MaxClaim,
     flagged : BOOLEAN]

ASSUME MissingAssumption == Missing \notin ResultType

GaugesType == [aborted : BOOLEAN, flagged : BOOLEAN]

ReplayType == [centre : TargetSet, msg : Messages, cycle : 1 .. MaxCycles]

\* A thread inside handle_replay: the message, whether `now` is before the
\* deadline, and the counter to record it on (0 if no channel matched), which
\* is that of a pair's fetch in one cycle.  History: the fetches that were
\* waiting for such a message when it came in.
ArrivalType ==
    [replay : ReplayType, inTime : BOOLEAN, counter : Pairs \cup {0},
     cycle : 0 .. MaxCycles, waiting : SUBSET Pairs]

ASSUME HandlerAssumption ==
    \A h \in {Idle, Dead} : h \notin ArrivalType /\ h \notin ReplayType

TypeOK ==
    /\ clock \in 0 .. MaxClock
    /\ phase \in {"none", "baseline", "clear", "clear_sync", "collect",
                  "unwind", "hold", "publish"}
    /\ (phase # "none") <=> (pc = "cycle")
    /\ step \in 0 .. Len(TopicList) + Cardinality(Tasks) + 1
    /\ baseline \in [TopicSet -> SUBSET Messages]
    /\ sync \in [Pairs -> SyncType]
    /\ async \in [Pairs -> AsyncType]
    /\ results \in [Tasks -> ResultType \cup {Missing}]
    /\ indexed \subseteq Messages
    /\ replayed \in [Pairs -> SUBSET Messages]
    /\ paged \in [Pairs -> SUBSET Messages]
    /\ active \in Seq(Pairs) /\ Len(active) <= Cardinality(Pairs)
    /\ \A i, j \in DOMAIN active : active[i] = active[j] => i = j
    /\ first \in [Pairs -> BOOLEAN]
    /\ handler \in [Brokers -> ArrivalType \cup ReplayType \cup {Idle, Dead}]
    /\ replays \subseteq ReplayType
    /\ metrics.received \in [TopicSet -> [Messages -> Nat]]
    /\ metrics.fetched \in [Tasks -> [Messages -> Nat]]
    /\ metrics.gauges \in [Tasks -> GaugesType \cup {Missing}]
    /\ metrics.receivedIn \in [TopicSet -> 0 .. MaxCycles]
    /\ metrics.fetchedIn \in [Tasks -> 0 .. MaxCycles]

-----------------------------------------------------------------------------
(* Redis ranges.                                                           *)

\* Mutant: the closed range of the service.
ZCountClosed(set) == {m \in set : Requested(CurrentWindow, PubTime[m])}

\* count_messages, count_replay_messages and count_sync_messages.
ZCount(set) == {m \in set : InWindow(CurrentWindow, PubTime[m])}

NewSync == [st |-> "get", aborted |-> FALSE, valid |-> FALSE, claimed |-> 0,
            seen |-> 0, pages |-> 0]
NewAsync == [st |-> "register", aborted |-> FALSE]

Init ==
    /\ S!Init
    /\ phase = "none"
    /\ step = 0
    /\ baseline = [t \in TopicSet |-> {}]
    /\ sync = [k \in Pairs |-> NewSync]
    /\ async = [k \in Pairs |-> NewAsync]
    /\ results = [t \in Tasks |-> Missing]
    /\ indexed = {}
    /\ replayed = [k \in Pairs |-> {}]
    /\ paged = [k \in Pairs |-> {}]
    /\ active = << >>
    /\ first = [k \in Pairs |-> FALSE]
    /\ handler = [b \in Brokers |-> Idle]
    /\ replays = {}
    /\ metrics = [received   |-> [t \in TopicSet |-> [m \in Messages |-> 0]],
                  fetched    |-> [t \in Tasks |-> [m \in Messages |-> 0]],
                  gauges     |-> [t \in Tasks |-> Missing],
                  receivedIn |-> [t \in TopicSet |-> 0],
                  fetchedIn  |-> [t \in Tasks |-> 0]]
    /\ heard = {}
    /\ fresh = {}
    /\ brought = [t \in Tasks |-> {}]

-----------------------------------------------------------------------------
(* The scheduler thread, outside run_cycle.                                *)

WaitTimesOut ==
    /\ S!WaitTimesOut
    /\ UNCHANGED cycleVars

ReadStarted ==
    /\ Cycle < MaxCycles
    /\ S!ReadStarted
    /\ UNCHANGED cycleVars

\* The signal handler; run_cycle never looks at the event it sets.
Stop ==
    /\ Signals
    /\ S!Stop
    /\ UNCHANGED cycleVars

WaitStopped ==
    /\ S!WaitStopped
    /\ UNCHANGED cycleVars

\* run_cycle is entered: the window and the shared deadline are fixed.
OpenWindow ==
    /\ S!BeginCycle
    /\ phase' = "baseline"
    /\ step' = 1
    /\ UNCHANGED <<baseline, results, fetchVars, sharedVars, reportVars>>

\* run_cycle is left, its locals with it; Scheduler.run carries on.
LeaveCycle(published) ==
    /\ ended' = Append(ended, [at |-> clock, published |-> published])
    /\ S!AfterCycle
    /\ phase' = "none"
    /\ step' = 0
    /\ baseline' = [t \in TopicSet |-> {}]
    /\ results' = [t \in Tasks |-> Missing]
    /\ sync' = [k \in Pairs |-> NewSync]
    /\ async' = [k \in Pairs |-> NewAsync]
    /\ heard' = {}
    /\ fresh' = {}
    /\ brought' = [t \in Tasks |-> {}]
    /\ UNCHANGED <<clock, stop, begun, late, redisVars, registryVars, brokerVars,
                   metrics>>

-----------------------------------------------------------------------------
(* run_cycle, up to the fan-out.                                           *)

\* One count_messages per topic.
ReadBaseline ==
    /\ phase = "baseline"
    /\ LET topic == TopicList[step] IN
         baseline' = [baseline EXCEPT ![topic] =
                        ZCount({m \in indexed : topic \in Indexed[m]})]
    /\ IF step = Len(TopicList)
         THEN phase' = "clear" /\ step' = 0
         ELSE step' = step + 1 /\ UNCHANGED phase
    /\ UNCHANGED <<schedVars, results, fetchVars, sharedVars, reportVars>>

\* Mutant: the replay sets are not cleared.
ClearReplayForgotten ==
    /\ phase = "clear"
    /\ phase' = "clear_sync"
    /\ UNCHANGED <<schedVars, step, baseline, results, fetchVars, sharedVars,
                   reportVars>>

\* clear_replay: one DELETE.
ClearReplay ==
    /\ phase = "clear"
    /\ replayed' = [k \in Pairs |-> {}]
    /\ phase' = "clear_sync"
    /\ UNCHANGED <<schedVars, step, baseline, results, fetchVars, indexed,
                   paged, registryVars, brokerVars, reportVars>>

\* Mutant: the sync sets are not cleared.
ClearSyncForgotten ==
    /\ phase = "clear_sync"
    /\ phase' = "collect"
    /\ step' = 1
    /\ UNCHANGED <<schedVars, baseline, results, fetchVars, sharedVars,
                   reportVars>>

\* clear_sync, then every task is submitted.
ClearSync ==
    /\ phase = "clear_sync"
    /\ paged' = [k \in Pairs |-> {}]
    /\ phase' = "collect"
    /\ step' = 1
    /\ UNCHANGED <<schedVars, baseline, results, fetchVars, indexed, replayed,
                   registryVars, brokerVars, reportVars>>

\* One of these Redis calls fails: nothing has been submitted yet.
PreparationFails ==
    /\ RedisFails
    /\ phase \in {"baseline", "clear", "clear_sync"}
    /\ LeaveCycle(FALSE)

-----------------------------------------------------------------------------
(* The thread pool.                                                        *)

\* max_workers = max(1, topics * targets * 2)
Workers == Cardinality(Tasks)

TaskDone(t) ==
    IF IsSync(t) THEN sync[PairOf(t)].st \in {"done", "raised"}
                 ELSE async[PairOf(t)].st = "done"

\* The pool takes the tasks in the order of submission.
Admitted(t) ==
    /\ phase \in {"collect", "unwind"}
    /\ Cardinality({u \in Tasks : u < t /\ ~TaskDone(u)}) < Workers

-----------------------------------------------------------------------------
(* sync_fetch.  A service answers with messages of the closed interval it  *)
(* was asked for, all of them or not, and claims what it likes.            *)

Answers(k) == {m \in Messages : /\ TopicOf(k) \in Routed[m]
                                /\ Requested(CurrentWindow, PubTime[m])}

\* The first GET fails or times out: aborted.
SyncAborts(k) ==
    /\ Admitted(SyncTask(k))
    /\ sync[k].st = "get"
    /\ sync' = [sync EXCEPT ![k].st = "done", ![k].aborted = TRUE]
    /\ UNCHANGED <<schedVars, loopVars, async, sharedVars, reportVars>>

\* The body is not JSON or has no usable numberMatched.
SyncInvalid(k) ==
    /\ Admitted(SyncTask(k))
    /\ sync[k].st = "get"
    /\ sync' = [sync EXCEPT ![k].st = "done"]
    /\ UNCHANGED <<schedVars, loopVars, async, sharedVars, reportVars>>

\* The first body breaks off while it is read, or a next link is no URL: both
\* outside any handler.
SyncRaises(k) ==
    /\ Admitted(SyncTask(k))
    /\ sync[k].st \in {"get", "next"}
    /\ sync' = [sync EXCEPT ![k].st = "raised"]
    /\ UNCHANGED <<schedVars, loopVars, async, sharedVars, reportVars>>

\* A page is in: its features are counted and those with an id and a time
\* stored (f is the fetch so far).  Then the next page is asked for, unless
\* there is none or the deadline has passed.  After _MAX_PAGES pages the one
\* asked for last is dropped.
ProcessPage(k, f, page, junk, more) ==
    /\ paged' = [paged EXCEPT ![k] = @ \cup page]
    /\ brought' = [brought EXCEPT ![SyncTask(k)] = @ \cup page]
    /\ sync' = [sync EXCEPT ![k] =
                  [f EXCEPT !.seen = @ + Cardinality(page) + junk,
                            !.pages = @ + 1,
                            !.st = IF more /\ clock < Deadline THEN "next"
                                                               ELSE "done"]]
    /\ UNCHANGED <<schedVars, loopVars, async, indexed, replayed, registryVars,
                   brokerVars, metrics, heard, fresh>>

SyncFirstPage(k, page, junk, more, claimed) ==
    /\ Admitted(SyncTask(k))
    /\ sync[k].st = "get"
    /\ ProcessPage(k, [sync[k] EXCEPT !.valid = TRUE, !.claimed = claimed],
                   page, junk, more)

SyncNextPage(k, page, junk, more) ==
    /\ phase \in {"collect", "unwind"}
    /\ sync[k].st = "next"
    /\ sync[k].pages < MaxPages
    /\ ProcessPage(k, sync[k], page, junk, more)

\* The next page fails, or is one too many: what is in is kept.
SyncStopsPaging(k) ==
    /\ phase \in {"collect", "unwind"}
    /\ sync[k].st = "next"
    /\ sync' = [sync EXCEPT ![k].st = "done"]
    /\ UNCHANGED <<schedVars, loopVars, async, sharedVars, reportVars>>

\* store_sync_message fails on some feature of a page; those before it stay.
SyncStoreFails(k, page) ==
    /\ RedisFails
    /\ Admitted(SyncTask(k))
    /\ \/ sync[k].st = "get"
       \/ sync[k].st = "next" /\ sync[k].pages < MaxPages
    /\ paged' = [paged EXCEPT ![k] = @ \cup page]
    /\ brought' = [brought EXCEPT ![SyncTask(k)] = @ \cup page]
    /\ sync' = [sync EXCEPT ![k].st = "raised"]
    /\ UNCHANGED <<schedVars, loopVars, async, indexed, replayed, registryVars,
                   brokerVars, metrics, heard, fresh>>

-----------------------------------------------------------------------------
(* async_fetch.                                                            *)

\* Mutant: the channel stays registered when the fetch is over.
UnregisterForgotten(k) == active' = active

\* registry.unregister.
Unregister(k) == active' = RemoveFirst(active, k)

\* A fresh counter is registered, then the POST goes out.
Register(k) ==
    /\ Admitted(AsyncTask(k))
    /\ async[k].st = "register"
    /\ async' = [async EXCEPT ![k].st = "post"]
    /\ active' = Append(active, k)
    /\ first' = [first EXCEPT ![k] = FALSE]
    /\ UNCHANGED <<schedVars, loopVars, sync, redisVars, brokerVars,
                   reportVars>>

\* The POST returns or fails; either way the fetch goes on to decide.
PostReturns(k) ==
    /\ async[k].st = "post"
    /\ async' = [async EXCEPT ![k].st = "decide"]
    /\ UNCHANGED <<schedVars, loopVars, sync, sharedVars, reportVars>>

\* Mutant: the provider waits for a result a fetch that raised never gives.
ProviderReadyNoRaise(k) == sync[k].st = "done"

\* sync_future.result() has returned or raised.
ProviderReady(k) == sync[k].st \in {"done", "raised"}

\* numberMatched when the synchronous fetch has one, else the baseline.
MessagesExpected(k) ==
    IF sync[k].st = "done" /\ ~sync[k].aborted /\ sync[k].valid
      THEN sync[k].claimed > 0
      ELSE baseline[TopicOf(k)] # {}

\* Nothing is expected: over, not aborted.
DecideNone(k) ==
    /\ async[k].st = "decide"
    /\ ProviderReady(k)
    /\ ~MessagesExpected(k)
    /\ async' = [async EXCEPT ![k].st = "leave"]
    /\ UNCHANGED <<schedVars, loopVars, sync, sharedVars, reportVars>>

DecideWait(k) ==
    /\ async[k].st = "decide"
    /\ ProviderReady(k)
    /\ MessagesExpected(k)
    /\ async' = [async EXCEPT ![k].st = "await"]
    /\ UNCHANGED <<schedVars, loopVars, sync, sharedVars, reportVars>>

\* counter.snapshot after the wait: aborted unless there is a first arrival.
\* (One seen earlier only ends the polling; the fetch sleeps until the
\* deadline, and the counter keeps its first arrival.)
Snapshot(k) ==
    /\ async[k].st = "await"
    /\ clock >= Deadline
    /\ async' = [async EXCEPT ![k].st = "leave", ![k].aborted = ~first[k]]
    /\ UNCHANGED <<schedVars, loopVars, sync, sharedVars, reportVars>>

\* The last thing on each of the three ways out of async_fetch: until now the
\* MQTT threads find the channel.
Leave(k) ==
    /\ async[k].st = "leave"
    /\ async' = [async EXCEPT ![k].st = "done"]
    /\ Unregister(k)
    /\ UNCHANGED <<schedVars, loopVars, sync, redisVars, first, brokerVars,
                   reportVars>>

-----------------------------------------------------------------------------
(* The services and brokers (external), and the MQTT threads.              *)

\* A Global Broker message: on_message stores it.
BrokerMessage(m) ==
    /\ clock >= PubTime[m]
    /\ indexed' = indexed \cup {m}
    /\ indexed' # indexed
    /\ UNCHANGED <<schedVars, localVars, replayed, paged, registryVars,
                   brokerVars, reportVars>>

\* The service starts replaying what it was asked for, or part of it.
ServiceReplays(k, page) ==
    /\ replays' = replays \cup
         [centre : {TargetOf(k)}, msg : page, cycle : {Cycle}]
    /\ replays' # replays
    /\ UNCHANGED <<schedVars, localVars, redisVars, registryVars, handler,
                   reportVars>>

Matches(k, r) == /\ TargetOf(k) = r.centre
                 /\ TopicOf(k) \in Routed[r.msg]

\* Mutant: whatever is registered first is told.
FirstRegistered(r) == IF active = << >> THEN 0 ELSE active[1]

\* The channel handle_replay stops at: the first registered one that matches.
FirstMatch(r) ==
    LET hits == {i \in DOMAIN active : Matches(active[i], r)}
    IN  IF hits = {} THEN 0
        ELSE active[CHOOSE i \in hits : \A j \in hits : i <= j]

\* A replay message arrives on broker b: promptly, cycles later or again.
\* handle_replay looks at the clock and, under the lock, copies the channels
\* with their counters.
ReplayArrives(b, r) ==
    /\ handler[b] = Idle
    /\ handler' = [handler EXCEPT ![b] =
         [replay  |-> r, inTime |-> clock < Deadline,
          counter |-> FirstMatch(r), cycle |-> Cycle,
          waiting |-> {k \in Pairs : Matches(k, r) /\ async[k].st \in Waiting}]]
    /\ UNCHANGED <<schedVars, localVars, redisVars, registryVars, replays,
                   reportVars>>

\* Without that lock it records the arrival on the counter of the copy, by
\* whatever then has become of the fetch it belongs to, and returns.  In a
\* later cycle nobody holds that counter any more.
RecordArrival(b) ==
    /\ handler[b] \in ArrivalType
    /\ LET a == handler[b]
           told == {k \in a.waiting : a.cycle = Cycle /\ async[k].st \in Waiting}
       IN  /\ first' = IF a.counter \in Pairs /\ a.cycle = Cycle
                          THEN [first EXCEPT ![a.counter] = TRUE] ELSE first
           /\ heard' = heard \cup told
           /\ fresh' = IF a.replay.cycle = Cycle THEN fresh \cup told ELSE fresh
           /\ handler' = [handler EXCEPT ![b] = a.replay]
    /\ UNCHANGED <<schedVars, localVars, redisVars, active, replays, metrics,
                   brought>>

\* store_replay_message: one transaction per pattern, in order; n of the
\* patterns are reached.
StoreUnder(r, n) ==
    LET keys == {k \in Pairs :
                   /\ TargetOf(k) = r.centre
                   /\ \E i \in 1 .. n : TopicOf(k) = TopicList[i]
                   /\ TopicOf(k) \in Indexed[r.msg]}
    IN  /\ replayed' = [k \in Pairs |-> IF k \in keys
                          THEN replayed[k] \cup {r.msg} ELSE replayed[k]]
        /\ brought' = [t \in Tasks |-> IF ~IsSync(t) /\ PairOf(t) \in keys
                          THEN brought[t] \cup {r.msg} ELSE brought[t]]

StoreReplay(b) ==
    /\ handler[b] \in ReplayType
    /\ StoreUnder(handler[b], Len(TopicList))
    /\ handler' = [handler EXCEPT ![b] = Idle]
    /\ UNCHANGED <<schedVars, localVars, indexed, paged, registryVars, replays,
                   metrics, heard, fresh>>

\* The payload has no usable id or time: recorded as an arrival all the same.
DropReplay(b) ==
    /\ MaxJunk > 0
    /\ handler[b] \in ReplayType
    /\ handler' = [handler EXCEPT ![b] = Idle]
    /\ UNCHANGED <<schedVars, localVars, redisVars, registryVars, replays,
                   reportVars>>

\* The payload is JSON but no object: _parse_message raises, on_message with
\* it, and the network thread ends.
PayloadRaises(b) ==
    /\ MaxJunk > 0
    /\ handler[b] \in ReplayType
    /\ handler' = [handler EXCEPT ![b] = Dead]
    /\ UNCHANGED <<schedVars, localVars, redisVars, registryVars, replays,
                   reportVars>>

\* Redis fails in between: on_message raises and the network thread ends.
StoreReplayFails(b, n) ==
    /\ RedisFails
    /\ handler[b] \in ReplayType
    /\ StoreUnder(handler[b], n)
    /\ handler' = [handler EXCEPT ![b] = Dead]
    /\ UNCHANGED <<schedVars, localVars, indexed, paged, registryVars, replays,
                   metrics, heard, fresh>>

-----------------------------------------------------------------------------
(* run_cycle, after the fan-out: results are collected in the order of     *)
(* submission, each counted as it is collected.                            *)

\* Mutant: the Redis sets are read without the centre and topic in their key.
RecountUnkeyed(t) ==
    LET k == PairOf(t)
        all(sets) == UNION {sets[j] : j \in Pairs}
    IN  IF IsSync(t)
          THEN [aborted |-> sync[k].aborted,
                counted |-> IF sync[k].aborted THEN {} ELSE ZCount(all(paged)),
                claimed |-> sync[k].claimed,
                flagged |-> sync[k].valid /\ sync[k].seen # sync[k].claimed]
          ELSE [aborted |-> async[k].aborted,
                counted |-> IF async[k].aborted THEN {} ELSE ZCount(all(replayed)),
                claimed |-> 0, flagged |-> FALSE]

\* What the task's Redis set holds in the window; nothing once aborted.
Recount(t) ==
    LET k == PairOf(t)
    IN  IF IsSync(t)
          THEN [aborted |-> sync[k].aborted,
                counted |-> IF sync[k].aborted THEN {} ELSE ZCount(paged[k]),
                claimed |-> sync[k].claimed,
                flagged |-> sync[k].valid /\ sync[k].seen # sync[k].claimed]
          ELSE [aborted |-> async[k].aborted,
                counted |-> IF async[k].aborted THEN {} ELSE ZCount(replayed[k]),
                claimed |-> 0, flagged |-> FALSE]

\* Mutant: a task that raised is published like any other.
CollectRaised ==
    /\ phase = "collect"
    /\ TaskDone(step)
    /\ results' = [results EXCEPT ![step] = Recount(step)]
    /\ IF step = Cardinality(Tasks)
         THEN phase' = "hold" /\ step' = 0
         ELSE step' = step + 1 /\ UNCHANGED phase
    /\ UNCHANGED <<schedVars, baseline, fetchVars, sharedVars, reportVars>>

\* The next future's result, unless the task raised.
Collect ==
    /\ phase = "collect"
    /\ TaskDone(step)
    /\ results' = [results EXCEPT ![step] =
         IF IsSync(step) /\ sync[PairOf(step)].st = "raised"
           THEN Missing ELSE Recount(step)]
    /\ IF step = Cardinality(Tasks)
         THEN phase' = "hold" /\ step' = 0
         ELSE step' = step + 1 /\ UNCHANGED phase
    /\ UNCHANGED <<schedVars, baseline, fetchVars, sharedVars, reportVars>>

\* Mutant: the failed recount is swallowed with the task's own errors.
CollectFailsSwallowed ==
    /\ RedisFails
    /\ phase = "collect"
    /\ TaskDone(step)
    /\ IF step = Cardinality(Tasks)
         THEN phase' = "hold" /\ step' = 0
         ELSE step' = step + 1 /\ UNCHANGED phase
    /\ UNCHANGED <<schedVars, baseline, results, fetchVars, sharedVars,
                   reportVars>>

\* The recount fails: the pool is left, which waits for its tasks.
CollectFails ==
    /\ RedisFails
    /\ phase = "collect"
    /\ TaskDone(step)
    /\ phase' = "unwind"
    /\ UNCHANGED <<schedVars, step, baseline, results, fetchVars, sharedVars,
                   reportVars>>

Unwound ==
    /\ phase = "unwind"
    /\ \A t \in Tasks : TaskDone(t)
    /\ LeaveCycle(FALSE)

\* Mutant: publication is not held.
HoldSkipped ==
    /\ phase = "hold"
    /\ phase' = "publish"
    /\ step' = 1
    /\ UNCHANGED <<schedVars, baseline, results, fetchVars, sharedVars,
                   reportVars>>

\* Publication is held to the deadline.
Hold ==
    /\ phase = "hold"
    /\ clock >= Deadline
    /\ phase' = "publish"
    /\ step' = 1
    /\ UNCHANGED <<schedVars, baseline, results, fetchVars, sharedVars,
                   reportVars>>

Tally(counter, set) ==
    [m \in Messages |-> IF m \in set THEN counter[m] + 1 ELSE counter[m]]

\* One counter of messages_received.
PublishReceived ==
    /\ phase = "publish"
    /\ step \in DOMAIN TopicList
    /\ LET topic == TopicList[step] IN
         metrics' = [metrics EXCEPT
           !.received[topic] = Tally(@, baseline[topic]),
           !.receivedIn[topic] = Cycle]
    /\ step' = step + 1
    /\ UNCHANGED <<schedVars, phase, baseline, results, fetchVars, sharedVars,
                   historyVars>>

\* _publish, for the results there are.
PublishResult ==
    /\ phase = "publish"
    /\ LET t == step - Len(TopicList) IN
         /\ t \in Tasks
         /\ metrics' = IF results[t] = Missing THEN metrics ELSE
              [metrics EXCEPT
                !.fetched[t] = Tally(@, results[t].counted),
                !.gauges[t] = [aborted |-> results[t].aborted,
                               flagged |-> results[t].flagged],
                !.fetchedIn[t] = Cycle]
    /\ step' = step + 1
    /\ UNCHANGED <<schedVars, phase, baseline, results, fetchVars, sharedVars,
                   historyVars>>

\* run_cycle returns.
Published ==
    /\ phase = "publish"
    /\ step = Len(TopicList) + Cardinality(Tasks) + 1
    /\ LeaveCycle(TRUE)

-----------------------------------------------------------------------------
Tick ==
    /\ pc = "cycle" => clock < Deadline + Overshoot
    /\ S!Tick
    /\ UNCHANGED cycleVars

\* The bound on cycles is reached: the model stops here, the code goes on.
BoundReached ==
    /\ pc = "woken" /\ Cycle = MaxCycles
    /\ UNCHANGED vars

\* run has returned; the process ends.
Terminated ==
    /\ pc = "stopped"
    /\ UNCHANGED vars

SchedulerThread ==
    \/ WaitTimesOut \/ WaitStopped \/ ReadStarted \/ OpenWindow
    \/ ReadBaseline \/ ClearReplay \/ ClearSync \/ PreparationFails
    \/ Collect \/ CollectFails \/ Unwound \/ Hold
    \/ PublishReceived \/ PublishResult \/ Published

SyncFetch(k) ==
    \/ SyncAborts(k) \/ SyncInvalid(k) \/ SyncRaises(k) \/ SyncStopsPaging(k)
    \/ phase \in {"collect", "unwind"} /\ \E page \in SUBSET Answers(k) :
         \/ SyncStoreFails(k, page)
         \/ \E junk \in 0 .. MaxJunk, more \in BOOLEAN :
              \/ SyncNextPage(k, page, junk, more)
              \/ \E claimed \in 0 .. MaxClaim :
                   SyncFirstPage(k, page, junk, more, claimed)

\* Mutant: the POST goes out before the channel is registered.
AsyncFetchPostFirst(k) ==
    \/ /\ Admitted(AsyncTask(k))
       /\ async[k].st = "register"
       /\ async' = [async EXCEPT ![k].st = "post"]
       /\ UNCHANGED <<schedVars, loopVars, sync, sharedVars, reportVars>>
    \/ /\ async[k].st = "post"
       /\ async' = [async EXCEPT ![k].st = "decide"]
       /\ active' = Append(active, k)
       /\ first' = [first EXCEPT ![k] = FALSE]
       /\ UNCHANGED <<schedVars, loopVars, sync, redisVars, brokerVars,
                      reportVars>>
    \/ DecideNone(k) \/ DecideWait(k) \/ Snapshot(k) \/ Leave(k)

AsyncFetch(k) ==
    \/ Register(k) \/ PostReturns(k) \/ DecideNone(k) \/ DecideWait(k)
    \/ Snapshot(k) \/ Leave(k)

MqttThread(b) ==
    \/ \E r \in replays : ReplayArrives(b, r)
    \/ RecordArrival(b)
    \/ StoreReplay(b)
    \/ DropReplay(b)
    \/ PayloadRaises(b)
    \/ \E n \in 0 .. Len(TopicList) - 1 : StoreReplayFails(b, n)

Environment ==
    \/ Tick
    \/ Stop
    \/ \E m \in Messages : BrokerMessage(m)
    \/ \E k \in Pairs :
         /\ async[k].st = "post"
         /\ \E page \in SUBSET Answers(k) : ServiceReplays(k, page)

Next ==
    \/ SchedulerThread
    \/ \E k \in Pairs : SyncFetch(k) \/ AsyncFetch(k)
    \/ \E b \in Brokers : MqttThread(b)
    \/ Environment
    \/ BoundReached
    \/ Terminated

Spec == Init /\ [][Next]_vars

\* Every thread of the process keeps running, time passes, and every HTTP
\* exchange ends (requests bounds each read, not the exchange; that a service
\* does not trickle a body for ever is assumed).
Fairness ==
    /\ WF_vars(SchedulerThread)
    /\ WF_vars(Tick)
    /\ \A k \in Pairs : WF_vars(SyncFetch(k)) /\ WF_vars(AsyncFetch(k))

FairSpec == Spec /\ Fairness

-----------------------------------------------------------------------------
(* Properties.                                                             *)

\* TestCycle implements Scheduler: whatever the fetches do, a cycle opens its
\* window, ends by publishing no earlier than its deadline or by raising, and
\* hands the thread back to the loop of Scheduler.run.
ImplementsScheduler == S!Spec

\* A message is added to a counter of a topic or fetch at most once, however
\* often and in whichever cycles it is received, paged or replayed
\* (redis_store.py:95-97, test_cycle.py:121-128).
CountedAtMostOnce ==
    \A m \in Messages :
        /\ \A topic \in TopicSet : metrics.received[topic][m] <= 1
        /\ \A t \in Tasks : metrics.fetched[t][m] <= 1

\* What a fetch is credited with, it has paged or a replay message has put
\* there during this very cycle, be it of this cycle's replay or a late one of
\* an earlier replay: nothing that was left in Redis is counted again
\* (test_cycle.py:76-79).
CountedIsBrought ==
    \A t \in Tasks : results[t] # Missing => results[t].counted \subseteq brought[t]

\* An asynchronous fetch aborts exactly when messages were due (by the
\* service's own claim or, without a usable one, by the baseline) and
\* handle_replay had returned for none of those that came in for it since it
\* registered, when it took its last snapshot (replay_tester.py:383-425).  (Where
\* topics do not overlap.  What the code's documents say of the flag is more:
\* AbortedMeansUndelivered.)
AbortedIffUndelivered ==
    \A k \in Pairs :
        async[k].st \in Decided =>
            LET claim == sync[k].st = "done" /\ sync[k].valid
                due   == IF claim THEN sync[k].claimed > 0
                                  ELSE baseline[TopicOf(k)] # {}
            IN  async[k].aborted <=> due /\ k \notin heard

\* A synchronous fetch that passes the numberMatched check is credited with
\* no more than the service claimed.
UnflaggedWithinClaim ==
    \A k \in Pairs :
        LET r == results[SyncTask(k)] IN
        r # Missing /\ ~r.aborted /\ sync[k].valid /\ ~r.flagged =>
            Cardinality(r.counted) <= r.claimed

\* One failed fetch does not sink the cycle, and a failed cycle publishes
\* nothing: when a cycle ends, what carries its number is every topic and
\* every fetch that did not raise, or nothing at all.
AllOrNothing ==
    [][ended' # ended =>
         LET published == ended'[Len(ended')].published IN
         /\ \A topic \in TopicSet :
              metrics.receivedIn[topic] = Cycle <=> published
         /\ \A t \in Tasks :
              metrics.fetchedIn[t] = Cycle <=>
                published /\ ~(IsSync(t) /\ sync[PairOf(t)].st = "raised")]_vars

\* Every cycle comes to an end: no fetch waits for one that cannot start or
\* never answers, and no one waits for a fetch that raised.
CycleEnds == pc = "cycle" ~> pc # "cycle"

\* Of the replay this cycle asked for, a message was recorded while the fetch
\* waited, or is timed before the deadline and in handle_replay's hands.
Delivered(k) ==
    \/ k \in fresh
    \/ \E b \in Brokers :
         LET a == handler[b] IN
         /\ a \in ArrivalType
         /\ a.cycle = Cycle /\ a.replay.cycle = Cycle
         /\ a.inTime /\ k \in a.waiting

\* replay_tester.py:300-303: when messages are expected "the test aborts if
\* none arrive", so that the flag means "the replay had messages but did not
\* deliver them over MQTT within the deadline".
AbortedMeansUndelivered ==
    \A k \in Pairs : async[k].st \in Decided =>
        (async[k].aborted <=> MessagesExpected(k) /\ ~Delivered(k))
=============================================================================
