--------------------------- MODULE BaselineStore ---------------------------
(***************************************************************************)
(* The baseline in Redis: RedisStore.store_message (scgrep/redis_store.py) *)
(* called by MessageHandler.on_message on one MQTT thread per Global       *)
(* Broker, the expiry of the keys it writes, and the range run_cycle       *)
(* counts.  The brokers relay the same messages, so the threads store the  *)
(* same ids at the same time; Redis may fail and the process may be        *)
(* restarted between any two of its commands.                              *)
(***************************************************************************)
EXTENDS Windows, Sequences, FiniteSets

CONSTANTS
    Ids,         \* the message ids
    PatternList, \* SUBSCRIPTION_TOPICS, in order
    Matching,    \* [Ids -> SUBSET patterns] topic_matches puts it under
    PubTime,     \* [Ids -> Int]: the score, the time a message carries
    NoId,        \* what an idle thread handles
    Threads,     \* one MQTT thread per Global Broker
    Ahead,       \* ticks a publisher's clock may be ahead of this one
    Slack,       \* the 60 seconds of Config.redis_expiry, in seconds
    MaxClock     \* bound on the clock

Patterns == {PatternList[i] : i \in DOMAIN PatternList}

ASSUME BaselineStoreAssumption ==
    /\ PatternList \in Seq(Patterns) /\ PatternList # << >>
    /\ Matching \in [Ids -> SUBSET Patterns]
    /\ PubTime \in [Ids -> Int]
    /\ NoId \notin Ids
    /\ Ahead \in Nat
    /\ Slack \in Nat
    /\ Ahead + TicksPerSecond <= Slack * TicksPerSecond
    /\ MaxClock \in Nat

VARIABLES
    clock,    \* time.time(), and Redis' own clock
    keys,     \* scgrep:msg:<id>: when each expires; 0 when it does not exist
    zset,     \* scgrep:topic:<pattern>: the members
    expires,  \* scgrep:topic:<pattern>: when the whole set expires
    thread,   \* what each thread is doing
    stored    \* history: the ids for which store_message has returned True

vars == <<clock, keys, zset, expires, thread, stored>>

\* Mutant: the lag is left out of the expiry.
ExpiryNoLag == (TestInterval + Slack) * TicksPerSecond

\* Config.redis_expiry, in ticks.
Expiry == (TimeLag + TestInterval + Slack) * TicksPerSecond

ThreadType ==
    [st : {"idle", "set", "cutoff", "index", "dead"}, id : Ids \cup {NoId},
     cutoff : Int, next : Nat]

TypeOK ==
    /\ clock \in Nat
    /\ keys \in [Ids -> Nat]
    /\ zset \in [Patterns -> SUBSET Ids]
    /\ expires \in [Patterns -> Nat]
    /\ thread \in [Threads -> ThreadType]
    /\ \A th \in Threads :
         /\ thread[th].st \in {"set", "cutoff", "index"} => thread[th].id \in Ids
         /\ thread[th].st = "index" => thread[th].next \in DOMAIN PatternList
    /\ stored \subseteq Ids

IdleThread == [st |-> "idle", id |-> NoId, cutoff |-> 0, next |-> 1]
DeadThread == [IdleThread EXCEPT !.st = "dead"]

Init ==
    /\ clock = 0
    /\ keys = [id \in Ids |-> 0]
    /\ zset = [p \in Patterns |-> {}]
    /\ expires = [p \in Patterns |-> 0]
    /\ thread = [th \in Threads |-> IdleThread]
    /\ stored = {}

\* A Redis key exists until it expires.
Known(id) == keys[id] > clock

-----------------------------------------------------------------------------
(* store_message, on one thread.                                           *)

\* A broker delivers the message: at once, late, or once more.
Receive(th, id) ==
    /\ thread[th].st = "idle"
    /\ PubTime[id] <= clock + Ahead
    /\ thread' = [thread EXCEPT ![th].st = "set", ![th].id = id]
    /\ UNCHANGED <<clock, keys, zset, expires, stored>>

\* SET NX finds the key: a duplicate, dropped.
Duplicate(th) ==
    /\ thread[th].st = "set"
    /\ Known(thread[th].id)
    /\ thread' = [thread EXCEPT ![th] = IdleThread]
    /\ UNCHANGED <<clock, keys, zset, expires, stored>>

\* Mutant: the key is kept for one interval only.
SetKeyShort(th) ==
    /\ thread[th].st = "set"
    /\ ~Known(thread[th].id)
    /\ keys' = [keys EXCEPT ![thread[th].id] = clock + IntervalTicks]
    /\ thread' = [thread EXCEPT ![th].st = "cutoff"]
    /\ UNCHANGED <<clock, zset, expires, stored>>

\* SET NX EX creates the key.
SetKey(th) ==
    /\ thread[th].st = "set"
    /\ ~Known(thread[th].id)
    /\ keys' = [keys EXCEPT ![thread[th].id] = clock + Expiry]
    /\ thread' = [thread EXCEPT ![th].st = "cutoff"]
    /\ UNCHANGED <<clock, zset, expires, stored>>

\* cutoff = time.time() - self._expiry
ReadCutoff(th) ==
    /\ thread[th].st = "cutoff"
    /\ thread' = [thread EXCEPT ![th].st = "index",
                                ![th].cutoff = clock - Expiry,
                                ![th].next = 1]
    /\ UNCHANGED <<clock, keys, zset, expires, stored>>

\* Mutant: the loop runs one pattern past the last.
NextPatternPastEnd(th) ==
    IF thread[th].next > Len(PatternList)
      THEN /\ thread' = [thread EXCEPT ![th] = IdleThread]
           /\ stored' = stored \cup {thread[th].id}
      ELSE /\ thread' = [thread EXCEPT ![th].next = @ + 1]
           /\ UNCHANGED stored

\* After the last pattern the loop ends and the message counts as stored.
NextPattern(th) ==
    IF thread[th].next = Len(PatternList)
      THEN /\ thread' = [thread EXCEPT ![th] = IdleThread]
           /\ stored' = stored \cup {thread[th].id}
      ELSE /\ thread' = [thread EXCEPT ![th].next = @ + 1]
           /\ UNCHANGED stored

\* Mutant: the loop is left after the first pattern that matches.
IndexFirstOnly(th) ==
    /\ thread[th].st = "index"
    /\ LET p == PatternList[thread[th].next]
           id == thread[th].id
       IN  IF p \in Matching[id]
             THEN /\ zset' = [zset EXCEPT ![p] =
                       {x \in @ \cup {id} : PubTime[x] > thread[th].cutoff}]
                  /\ expires' = [expires EXCEPT ![p] = clock + Expiry]
                  /\ thread' = [thread EXCEPT ![th] = IdleThread]
                  /\ stored' = stored \cup {thread[th].id}
             ELSE UNCHANGED <<zset, expires>> /\ NextPattern(th)
    /\ UNCHANGED <<clock, keys>>

\* One pattern: when it matches, a transaction of ZADD, ZREMRANGEBYSCORE up
\* to and including the cutoff, and EXPIRE.
Index(th) ==
    /\ thread[th].st = "index"
    /\ LET p == PatternList[thread[th].next]
           id == thread[th].id
       IN  IF p \in Matching[id]
             THEN /\ zset' = [zset EXCEPT ![p] =
                       {x \in @ \cup {id} : PubTime[x] > thread[th].cutoff}]
                  /\ expires' = [expires EXCEPT ![p] = clock + Expiry]
             ELSE UNCHANGED <<zset, expires>>
    /\ NextPattern(th)
    /\ UNCHANGED <<clock, keys>>

-----------------------------------------------------------------------------
(* Failures and time.                                                      *)

\* A Redis command fails: the exception leaves on_message and ends the
\* network thread.
RedisFails(th) ==
    /\ thread[th].st \in {"set", "index"}
    /\ thread' = [thread EXCEPT ![th] = DeadThread]
    /\ UNCHANGED <<clock, keys, zset, expires, stored>>

\* The process is restarted; Redis is not.
Restart ==
    /\ \E th \in Threads : thread[th].st # "idle"
    /\ thread' = [th \in Threads |-> IdleThread]
    /\ UNCHANGED <<clock, keys, zset, expires, stored>>

\* Time passes and what is due expires.
Tick ==
    /\ clock < MaxClock
    /\ clock' = clock + 1
    /\ zset' = [p \in Patterns |-> IF expires[p] <= clock' THEN {} ELSE zset[p]]
    /\ UNCHANGED <<keys, expires, thread, stored>>

Next ==
    \/ \E th \in Threads :
         \/ \E id \in Ids : Receive(th, id)
         \/ Duplicate(th) \/ SetKey(th) \/ ReadCutoff(th) \/ Index(th)
         \/ RedisFails(th)
    \/ Restart
    \/ Tick

Spec == Init /\ [][Next]_vars

-----------------------------------------------------------------------------
(* Properties.  A cycle may count at any moment, over Window(clock).       *)

\* A message store_message has stored is in the baseline of its window: no
\* trim by a later message, no expiry of the set in a quiet topic and no
\* concurrent store of it can lose it before run_cycle counts that window.
RetainedForItsWindow ==
    \A id \in stored :
        InWindow(Window(clock), PubTime[id]) =>
            \A p \in Matching[id] : id \in zset[p]

\* As long as a message can still be counted, in this window or a later one,
\* the copies other brokers relay are recognised as duplicates.
DedupOutlivesWindow ==
    \A id \in stored :
        PubTime[id] >= Window(clock).start * TicksPerSecond => Known(id)

\* redis_store.py:10-12: "a message is indexed into every pattern it matches";
\* here, once its id is known and no thread is at work on it, while it can be
\* counted.
IndexedEverywhere ==
    \A id \in Ids :
        /\ Known(id)
        /\ \A th \in Threads : thread[th].id # id
        /\ InWindow(Window(clock), PubTime[id])
        => \A p \in Matching[id] : id \in zset[p]
=============================================================================
