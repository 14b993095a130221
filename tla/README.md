# SCGRep in TLA+

SCGRep is a WIS2 Sensor Centre for Global Replay services. It listens to Global
Brokers over MQTT, keeps what it receives in Redis, and once per `TEST_INTERVAL`
asks every Global Replay service for the messages of a past window, both
synchronously over HTTP and asynchronously with delivery over MQTT. It publishes
how many messages it had and how many it got back. Its numbers are only worth
something if each message is counted in exactly the window, topic and fetch it
belongs to. This directory holds TLA+ models of the parts that decide that, the
TLC runs that check them and TLAPS proofs about them.

## The system

| Component (source) | State | Operations | Talks to |
| --- | --- | --- | --- |
| Scheduler (`scgrep/main.py`) | the stop event, `started` | `run`, `stop`, signal handler | calls `run_cycle`; set from a signal |
| Test cycle (`scgrep/test_cycle.py`) | locals: window, deadline, baselines, results | `run_cycle`, `_publish`, the `numberMatched` provider | Redis, a thread pool, metrics |
| Fetches (`scgrep/replay_tester.py`) | locals of one pool thread each | `sync_fetch`, `async_fetch` | HTTP services, Redis, the registry; the asynchronous fetch blocks on the synchronous one's future |
| Replay registry (`scgrep/replay_registry.py`) | active channels and their counters, under locks | `register`, `unregister`, `handle_replay` | fetches on one side, MQTT threads on the other |
| Message handler (`scgrep/mqtt_client.py`) | none of its own | `on_message` on one thread per broker | registry, Redis |
| Redis store (`scgrep/redis_store.py`) | dedup keys, three families of sorted sets, their expiry | store, count and clear operations | shared by every thread, outlives the process |
| MQTT manager (`scgrep/mqtt_client.py`) | one client and network thread per unique broker, last arrival per broker | `start`, `stop`, `on_connect`, `on_disconnect`, `_track_messages` | brokers, the message handler, two gauges per broker |
| Start-up and exit (`scgrep/main.py`) | none beyond its locals | `_wait_for_redis`, `main` | Redis, the manager, the scheduler |
| Log file (`scgrep/main.py`, `scripts/purge_logs.py`) | a memory buffer, the file | flush thread, flush on error and at exit, `purge` | the purge is a process of its own; the reports read the file back |
| Reports (`scripts/replay_loss_report.py`, `scripts/restart_history.py`) | none | `scan_summary`, `read_sources` | the log file, `docker logs` |
| Topic handling (`scgrep/util.py`) | none | `topic_matches`, `topic_to_query`, `topic_to_collection` | everyone |
| Configuration (`scgrep/config.py`), metrics server (`scgrep/metrics.py`), arrival profile (`scripts/`), deployment | | | |

What is hard about it: five kinds of threads (scheduler, pool, MQTT, log flusher,
HTTP metrics server) share the registry, Redis and the metrics; the window is placed by the wall
clock and the cycle by the monotonic one; replay messages arrive late, repeatedly
and from several brokers on a channel that does not tell cycles apart; state in
Redis outlives cycles and restarts; every network call can fail; and a cycle has
to be over in time whatever happens. `PROJECT.json` lists these hazards at their
lines.

What makes it correct, component by component:

- *Windows and scheduler*: cycles never overlap and start an interval apart;
  consecutive windows neither share nor skip message time beyond what the delays
  of the thread and the steps of the clock account for; a stop request ends the loop.
- *Test cycle*: it counts a message at most once, credits it to what brought it in,
  publishes all it has or nothing, no earlier than its deadline, and ends.
- *Fetches and registry*: an asynchronous fetch aborts exactly when messages were
  due and, by its last snapshot, none had been recorded for it.
- *Baseline store*: what is stored stays countable, and its id known, until its
  last window has passed.
- *Topics*: what is filed, requested and awaited under a configured topic agree.
- *MQTT manager and start-up*: the wait for Redis is bounded; subscriptions come back
  after every reconnect, and clients of different hosts do not push each other off a broker; a broker that delivers nothing is visible in its gauges; a stop
  request ends the process whatever a client raises.
- *Log file*: a record is lost only in one of three known ways, and the reports credit
  what is left to the cycle or restart it belongs to.

## Modules

| Module | Models |
| --- | --- |
| `Windows` | Window, deadline, half-open and closed ranges: the arithmetic of `run_cycle`, `epoch_to_iso` and `ZCOUNT`. |
| `Scheduler` | `Scheduler.run` with its two clocks. Variables are the code's locals (`started` is `startedAt`), the stop event and the clocks; `begun`, `ended` and `late` are history. It is also the abstract specification of a cycle: it begins, and ends by publishing after its deadline or by raising. |
| `TestCycle` | The whole of `run_cycle` with both fetches, the registry, the MQTT handler and the Redis sets, over several cycles. It implements `Scheduler`. |
| `BaselineStore` | `store_message` command by command on several threads, with expiry, failures of Redis and restarts. |
| `TopicMatch` | Filter, query and channel of a configured topic. |
| `MqttManager` | A process from start to exit: the wait for Redis, `MqttManager` with a network thread per broker, the brokers, and the two gauges of each. |
| `LogFile` | The buffered log file with the purge beside it and the reports that read it. |
| `WindowsProofs`, `SchedulerProofs`, `BaselineStoreProofs`, `TopicMatchProofs`, `MqttManagerProofs`, `LogFileProofs` | Theorems about the module each is named after. |
| `TestCycleProofs` | `TestCycle` implements `Scheduler`; no message is counted twice; what is credited was brought in. |
| `TestCycleReportProofs` | What an abort means; types; the `numberMatched` check; publication whole or not at all. |
| `MCScheduler`, `MCTestCycle`, `MCBaselineStore`, `MCMqttManager` | Constants for TLC. |

`TestCycle` composes the scheduler (by refinement), the fetches, the registry, the
message handler and the Redis sets. `BaselineStore`, `TopicMatch`, `MqttManager` and
`LogFile` each look closely at what `TestCycle` takes as one step or leaves out:
the commands of one `store_message`, what "matches" means, the life of a connection,
and the log.

### How states and actions correspond to the code

*Time.* An instant is a number of ticks, `TicksPerSecond` to the second, so that
flooring is a division. `Scheduler` has both clocks: `clock` is
`time.monotonic()`, `wall` is `time.time()`, moved apart by `AdjustWall`. The
thread reads them at three points (`ReadStarted`, `BeginCycle`) and may be held up
between them by at most `StartLag` and after a wait by at most `WakeLag`. In
`TestCycle` the clocks run together and the thread is punctual, since their
effect on windows is the subject of `Scheduler`; its refinement says so
(`wall <- clock`, both lags 0).

*A cycle.* `TestCycle.phase` is where `run_cycle` is and `step` where its current
loop is: one action per `count_messages`, `clear_replay`, `clear_sync`, collected
future, counter of `messages_received` and published result (one `_publish` updates
all metrics of a result, in one step here). `LeaveCycle` is both ways out of `run_cycle`
followed by the code of `Scheduler.run` behind it, reused from `Scheduler`. An
exception while collecting leaves the pool's `with` block, which waits for all
tasks: `CollectFails`, then `Unwound`.

*Fetches.* `sync[k]` and `async[k]` are the two tasks of the k-th (topic, service)
pair, in the order of submission; `Admitted` is the pool. One action per HTTP
exchange and outcome. The format flag, delays and status codes are left out: no
control depends on them. The poll of the counter is not a step of its own: after an
early arrival the fetch sleeps until the deadline, so what it finds there is the same.
Of the exceptions around the POST only those the code catches occur; one of another kind
after `register` would leave the channel registered and is left out.

*The registry.* `handle_replay` and a fetch share it in small steps, as in the code.
`ReplayArrives` reads the clock and copies the channels under the lock; the first match is
then a matter of the copy, so it is named there. `RecordArrival` records on the counter of the
copy after the lock is released, whatever has become of the fetch meanwhile: it may have taken its
last snapshot (`Snapshot`), unregistered (`Leave`), or its cycle may be over. A counter belongs to
one fetch in one cycle, which is how the record finds it. `heard` is history: the fetches that were
waiting for a message when it came in and still were when `handle_replay` returned.

*Counts are sets.* Where the code keeps the cardinality of a `ZCOUNT`, the model keeps
the set of messages, and a Prometheus counter is a bag of messages. That is what
lets `CountedAtMostOnce` and `CountedIsBrought` tell which message was counted.

*External parts.* A service answers with any part of what it was asked for
(`Answers`: the closed interval and the topic prefix), in pages, with any claim and
any broken response; a replay it publishes is delivered at any later time, in later
cycles too, and any number of times (`ReplayArrives`). Redis executes commands
atomically and may fail at any one of them (`RedisFails`).

*The baseline.* `BaselineStore` splits `store_message` at each Redis command, since
other threads, a failure or a restart may come in between: `SET NX EX`, the reading of
the cutoff, and per pattern one transaction. Expiry is a deadline per key. `Ahead` is how
far a publisher's clock may be ahead; the slack of 60 seconds must cover it by a
second, which is an assumption of the module.

*Topics.* A topic is the sequence of its levels. `/#` and `/` at the end are the last
levels `"#"` and `""`. `Config.from_env` refuses `+` and `*`, so they do not occur. A bare
`#` is accepted by the code and not modelled: it has no query form
(`topic_to_query` returns an empty string), so its replay is always empty.

*Connections.* `MqttManager.main` is where the main thread is, its exit code included
(`exit3`: Redis did not come up; `killed`: a signal before the handlers are
installed). `client[b]` is what the program knows of a broker, `link[b]` and `subs[b]`
what the broker has; they differ between a loss and the callback that reports it. `sent[b]` is the
SUBSCRIBE that `on_connect` has sent: only from there can the broker receive it (`Subscribed`), and it is
lost with the connection. A
handler that raises ends the network thread without a callback (`dead`). `silent[b]` stands for
the age gauge having grown beyond any threshold an operator may have set. The broker is
external: it accepts with a clean session, closes the older connection of a client id,
refuses, loses connections, and gives up clients that do not answer.

*The log.* A record is its number in the order of logging, `file` is a sequence of lines, and
an error has two: its entry and one of traceback without a timestamp. `WriteRecord`
merges the check for a replaced file and the write of `WatchedFileHandler`, because a
replacement between the two has the outcome of one right after them: the line goes to the
file that is gone. Reading the file and setting the cutoff are one step of the purge,
since what arrives in between is newer than the cutoff. `docker logs` has every record
since `container`, the first of the current container. Order within one timestamp is
the order of logging; that `restart_history` sorts lines of one second by source is left out.
The wall clock of the log is taken never to be set back. The purge's cutoffs and the sorts of
`restart_history` (`restart_history.py:64`, `93`) go by it; after a step back they would no longer follow the order of
logging, and `ResultsKeepTheirWindow` and `ConnectionsKeepTheirRestart` say nothing of that. (`Scheduler` does let the
wall clock step back, for the windows.)

*Mutants.* Definitions marked `Mutant` are variants of the definition that follows them
with a plausible bug; each property is shown to fail under one of them.

## Runs

| Run | Question |
| --- | --- |
| `Scheduler_loop` | Spacing of cycles, overlap and gap of windows, stopping, as safety and liveness. |
| `Scheduler_partition` | Do windows partition message time, as documented? No. |
| `TestCycle_counts` | Two cycles, a message on the boundary of their windows: is it counted once, by the right cycle, and do the flags mean what they say? |
| `TestCycle_pairs` | Do parallel fetches of two topics keep apart? |
| `TestCycle_failures` | With everything failing that can: all or nothing, refinement of `Scheduler`, termination. |
| `TestCycle_abort` | Does an asynchronous abort mean, as documented, that messages were due and none was delivered before the deadline? No. |
| `BaselineStore_retention` | Is a stored message there, and its id known, as long as it can be counted? |
| `BaselineStore_partial` | Is a message whose id is known in all its sets? No, after a partial failure. |
| `TopicMatch_agree` | Do filter, query and channel agree: is the baseline asked for, and a replay awaited where the service sends it? |
| `MqttManager_lifecycle` | Is the wait for Redis bounded, do subscriptions come back, do the gauges tell the truth and give a dead feed away, and does a stop request end the process? |
| `MqttManager_ports` | Is every unique host and port served? No, with two ports of one host on one server. |
| `LogFile_purge` | What can get lost from the log with crashes and a purge running beside the program, and do the reports still credit the rest rightly? |

`StalledFeedShows` answers what `StatusTruthful` leaves open: the status of a broker whose
network thread has died stays at 1 for good, but the age of its last message, kept per
broker, grows. `LossAccountedFor` names the ways a record gets lost: too old, a purge that
replaced the file just then, a crash. The reports' properties hold whatever lines are
missing, except for a *heading* lost to a purge while it was written; then the lines beneath it
are credited to the heading before.

### Bounds, and why they are enough

- `Scheduler_loop`: an interval of two ticks of half a second each and a clock of
  seven. That is room for two cycles with any phase of the second, an overrun followed
  by a second cycle, a cycle started late by both lags, and a step of the wall clock by one tick
  before or after any of them. `MaxSkew` keeps the clocks within a second of each
  other. Every property relates at most two consecutive cycles. The theorems
  remove the bounds.
- `TestCycle_counts`: one topic, one service, one message published at instant 2, on the
  boundary of the windows [0, 2) and [2, 4); two cycles; two pages; one tick of
  overrun. Counts of a pair depend on its own sets only, which `TestCycle_pairs`
  checks with two topics. Two cycles are what it takes to count a message twice or to
  inherit a replay.
- `TestCycle_failures`: one pair, every failure enabled, a stop request at any moment.
- `BaselineStore_retention`: two threads, two messages two ticks apart, two patterns of
  which one takes in both messages, and a clock of 8 with an expiry of 4: the
  second message trims after the first one's last window, and both sets expire.
  Two threads are what it takes for copies to race.
- `TopicMatch_agree`: every topic of up to three levels over two names. A matcher looks at
  one level at a time and at whether there are more.

- `TestCycle_abort`: two overlapping topics, one message in both and two cycles, so that all three ways in which the
  claim fails are there; TLC stops at the shortest.
- `MqttManager_lifecycle`: two addresses of one server with different hosts, one of them in both
  roles; two connections refused or lost; a timeout of 3 with pings of up to 2 and sleeps of
  2, so that a ping may begin just before the deadline. Two brokers are what it takes for one
  to push the other off or to lend it its time of arrival.
- `MqttManager_ports`: the same two brokers as two ports of one host; no fault is needed.
- `LogFile_purge`: four records (a start, a heading, one beneath it and one more are what a wrong credit
  takes), two instants, and a purge of all that is older than now.

`MaxClock`, `MaxCycles`, `MaxPages`, `MaxClaim`, `MaxJunk`, `MaxSkew`,
`Overshoot`, `MaxFaults`, `MaxRecords` and `MaxLevels` are the bounds; each is in the guard or domain it limits.
`TestCycle.BoundReached` stands for the code going on beyond `MaxCycles`.

### Fairness

`Scheduler.Fairness`: the thread takes a step it can take (it is a running thread;
`Event.wait` returns once the event is set or the timeout has passed), and a cycle
ends one way or the other. The second is an assumption of `Scheduler` and the
conclusion `CycleEnds` of `TestCycle`, from: every thread of the process runs, time
passes, and a Redis call and an HTTP exchange come to an end. The last two are assumed of
the servers: the code sets no timeout for Redis calls, and `requests` bounds each read of
an exchange but not the whole body. Nothing is assumed of MQTT: no message has ever to arrive.

`MqttManager.Fairness`: the main thread and every network thread run, time passes, and a broker
answers: it accepts a client that keeps trying, receives the SUBSCRIBE that client has sent if the connection
stays open, and gives up one that is dead. A ping of Redis takes at most `MaxPing` and `loop_stop` returns, though
a handler blocked on Redis, for whose calls the code sets no timeout, could delay either.
Faults are finitely many (`MaxFaults`), which is the "when connections cease to be
lost" of `EveryBrokerServed`. No message has to arrive, and no signal. `LogFile` states safety only
and needs no fairness.

## Proofs

`WindowsProofs` proves what flooring does to two readings: windows read at least an
interval (less d ticks) apart overlap by less than a second plus d, and those read at most
an interval (plus d) apart leave a gap of less than a second plus d.

`SchedulerProofs` proves for all values of the constants, from `WindowsAssumption` and
`SchedulerAssumption` only:

- `SchedulerTypeCorrect`, `SchedulerSpacesCycles`, `SchedulerBoundsOverlap`,
  `SchedulerBoundsGap` and `SchedulerStops`: the five invariants of `Scheduler_loop`;
- `SchedulerPunctualDisjoint`: if the two readings of a cycle cannot be told apart and the
  wall clock is not set back between two cycles, their windows are disjoint. This is the
  condition under which the documented "never both" holds.

None of the properties is inductive. They speak of records of past cycles, while a step
only sees `wakeAt` and `startedAt`; `IInv` connects the two: how many cycles have ended
(`EndedMatches`), that `wakeAt` is the due time of the next cycle (`NextIsDue`), how far
the clock can have moved since (`WithinLags`), and that each record was made of a reading
within the lags (`WindowsAreRead`, `StartsOnTime`). The bounds then follow from
`WindowsProofs` by arithmetic. `IInv` was also checked by TLC. `SchedulerStops` has an
inductive invariant of its own, `OneLateCycle`.

### The test cycle

Every safety property of `TestCycle` is proved for every list of topics and services, set of
messages and brokers, and value of the bounds, from `WindowsAssumption`, `TestCycleAssumption` and
`MissingAssumption` (the value for "no result" is none) and `HandlerAssumption` (an idle or ended thread holds no message).

- `TestCycleImplements`: each step is a step of `Scheduler` or a stutter. `Held` is what connects the two:
  `run_cycle` runs exactly while the scheduler is in a cycle, and is past its deadline once it publishes.
  Because of it, `SchedInv` (`Timed`, `Spaced`, `Held`) need only be shown to be kept by the steps of
  `Scheduler`.
- `TestCycleCountsOnce`: `Spaced` makes the windows of any two cycles disjoint (`WindowsDisjoint`); `NotYet`
  says that a cycle touches each counter once, and `Once` that all a counter holds lay in the window
  of a cycle up to the one that touched it last. So what is added now was not there before.
- `TestCycleCreditsBrought`: `BroughtIn` says of the Redis sets what the property says of the results, from the
  moment they are cleared. Before that it is false, which is what the two phases in it are for.
- `TestCycleAbortsUndelivered`, assuming `NoOverlap` (no message is routed to two topics; without it the
  property is false, since only the first matching channel is told). `FetchStages` says that a channel is registered exactly while its fetch
  is between `Register` and `Leave`, so the copy of a matching message has it; `PairsDistinct` that no other channel
  matches. `ArrivalInv` carries this over to the record: a thread holds the counter
  of a fetch that is still waiting exactly when it has a message that came in for it (`HoldsCounter`), whoever has registered or left since. Hence the counter of
  a waiting fetch has a first arrival exactly when one was recorded for it (`AbortInv`), and the snapshot decides by it. An arrival
  recorded after the snapshot changes neither the verdict nor `heard`.
- `TestCycleCreditsWithinClaim`: `ClaimInv`: a fetch that has not raised has seen at least as many features as its set
  holds. It rests on `ClearSync` and fails for a fetch that raised half-way through a page.
- `TestCyclePublishesWhole`: `CarryInv` follows the results from their collection to their publication;
  `NotYet` covers the cycles that end early.
- `TestCycleTyped`: `TypeOK`, with the types of what is in flight (`TypeInv`).

### The other modules

- `BaselineStoreProofs`: `BaselineStoreTypeCorrect`, `BaselineStoreRetains` and `BaselineStoreDedups`, from
  `BaselineStoreAssumption`: the slack of the expiry covers the publishers' clocks by a second. A message is `Current`
  until its publication time plus the expiry, less what that time may be ahead. The invariant says that while it is,
  its id is known (`KeyCovers`) and it is in every set it was put in, with a set that outlives
  it (`Safe`), for stored messages and, pattern by pattern, for those a thread is about to have stored. Cutoffs in hand
  only get older (`CutoffsPassed`), so that no trim reaches a current message.
- `MqttManagerProofs`: `MqttManagerTypeCorrect`, `MqttManagerStartUpBounded` (by `WaitBounded`: a sleep
  begins before the deadline only) and `MqttManagerStatusTruthful` (by `StatusFollows`).
- `TopicMatchProofs`: `TopicMatchRequested`, `TopicMatchExact` and `TopicMatchAwaited` for topics of any length. The
  query of a configured topic is that topic without what may stand behind it (`QueryIsTopic`). The one
  exception, a topic configured with a trailing `/`, is in the statement of `ReplayIsAwaited`.

### The log file

`LogFileProofs` proves the five invariants of `LogFile_purge` for any number of records, any clock and any age:
`LogFileTypeCorrect`, `LogFileLosses`, `LogFileWhole`, `LogFileResults` and `LogFileConnections`. They follow from
`LogFileInductive`, the invariant `IInv`, which TLC checked too. It rests on `LogFileAssumption` only.

- What the purge keeps is a fold over lines without a bound. `LeastNat` (a set of numbers that is not empty has a
  least one, from the well-foundedness of `<`) does for induction here: a shortest fold that goes wrong cannot
  exist (`FoldExists`, `FoldSelects`). `KeptSelects` is what comes of it: the purge keeps the lines it means to
  keep, each once and in order. In a file of whole records these are the lines of the records that are
  recent enough (`KeptByAge`).
- None of the properties is inductive. A purge replaces the file by a copy made earlier, while the program went on
  writing; so `CopyInv` is said of both, the file and the copy (`Copies`). It contains `WholeAndInOrder` and, for the reports,
  two things more. `NoHoles`: times grow, so a purge takes from the front; what is missing behind a line that is there was
  `raced` or `crashed`. `FromWritten`: no line that is left belongs to a heading a crash took. The second rests on
  `CrashTakesRest`: a crash takes the whole buffer, hence all that was logged beneath a heading it takes, and
  the next process begins with a heading of its own.
- `BeneathHeadings` says which heading a record belongs to. If the report found another one, that would be an earlier one,
  and the record's own would be a hole between the two (`HeadingShown`). The restart history has the container's
  records too; the first of them is a heading, so a connection it has is beneath one it has.

### Only model-checked

`StopEndsRun`, `CycleEnds`, `StalledFeedShows`, `EveryBrokerServed` and `ShutdownEnds`: liveness under fairness is out of
the prover's reach. Every safety property of the passing runs is proved.

## Where the code and its documentation differ

Each is a violation run with its line in `PROJECT.json`.

1. *Consecutive windows partition messages* (`ARCHITECTURE.md:225`). The start of a cycle is
   timed by one reading and its window by a later one of another clock; a delay
   across the boundary of a second makes consecutive windows overlap or skip a
   second. `OverlapBounded` and `GapBounded` say by how much at most.
2. *When messages are expected the test aborts if none arrive, so the flag means that they were not delivered within the
   deadline* (`replay_tester.py:300`; also `README.md:284`, `ARCHITECTURE.md:205`). `handle_replay` reads the clock, and copies the
   channels, before it releases the lock, and records after: a message timed before the deadline may be recorded when the
   fetch has aborted. This is what the run shows. The model has two more ways: of two overlapping topics only the first matching
   channel is told, so the other fetch aborts although its messages were delivered (`replay_registry.py:58-61`); and a late
   message of an earlier replay counts as an arrival, since a channel does not tell cycles apart.
   `AbortedIffUndelivered` is what does hold.
3. *A message is indexed into every pattern it matches* (`redis_store.py:10`). Not after a failure
   between the dedup key and the last set.
4. *Every unique broker, a host and a port, is connected to* (`mqtt_client.py:257`, `265`). The client id depends on the
   host and not on the port (`mqtt_client.py:191`), so the clients of two ports of one host that lead to one server push
   each other off for ever. `EveryBrokerServed` is about all other brokers.

Smaller ones, seen while modelling and not run: a scrape may fall between two updates of
one publication (`ARCHITECTURE.md:246`); a topic configured without `/#` is filed exactly but
requested as a prefix, so its filter is not "exactly the same" (`ARCHITECTURE.md:119`; `WildcardIsExact`
is stated for `/#` only for this reason); paging cut at the deadline is
not published as aborted (`README.md:284`); purging "is safe while the app is running"
(`scripts/purge_logs.py:12`) and error records are "never lost" (`scgrep/main.py:70`), but lines, errors included,
that are written between the purge's read and its replacement are lost (`raced` in
`LossAccountedFor`).

Something to know rather than a difference: a topic configured with a trailing `/` is requested
without it and awaited with it (`replay_registry.py:72`): a replay of the topic itself would not be recorded as an
arrival, nor is it filed (`ReplayIsAwaited` leaves this case out).

## Not modelled

- Configuration parsing (`config.py`), the metrics HTTP server, the deployment files, and in the scripts the
  queries to Prometheus, the per-minute loss listing, the arrival profile and all printing: no concurrency and no state.
- `threading.Event` at the level of its lock. The signal handler calls `set` on the thread that may be
  inside `wait` on the same event; whether the two can meet at the lock depends on where the interpreter
  runs signal handlers in its own library. The models take `set` as atomic.
- Credentials and TLS of connections; the format flag, delays and status codes of a fetch; failures of
  `requests` other than the outcomes of an exchange; Redis calls that never return.
- A clock of the log file that is set back (see *The log* above).
- Expiry of the replay and sync sets (a cycle clears, fills and reads them well within it).
- Duplicate entries in `SUBSCRIPTION_TOPICS` or in the centre ids: `TestCycleAssumption` takes them as distinct.
- What a scrape of the metrics sees in the middle of a publication; see above.
- A log file that cannot be opened, and two purges at a time: they run an hour apart.

## What is left

The plan was: `Windows` and `Scheduler` first, because every count depends on the window; `TestCycle`, the core; then the
modules that look closer at one part each; then the proofs, in the same order. All of it is done. What could still be added:

1. `LogFile` with a wall clock that may be set back, and how far the reports then go wrong.
2. `LogFile` with two files of one second, to check the order `restart_history` gives to lines of one timestamp.
3. Duplicates in the configuration, with what they do to the keys of Redis and the labels of the metrics.
