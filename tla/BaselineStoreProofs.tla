------------------------ MODULE BaselineStoreProofs ------------------------
(***************************************************************************)
(* BaselineStore keeps what it has stored, and knows its ids, for as long  *)
(* as a window can count it: for every interval, lag, set of messages,     *)
(* list of patterns and number of threads.                                 *)
(***************************************************************************)
EXTENDS BaselineStore, WindowsProofs

-----------------------------------------------------------------------------
(* The inductive invariant, in parts.                                      *)

Busy(th) == thread[th].st \in {"set", "cutoff", "index"}

\* How long after its publication a message is kept at least.
Reach == Expiry - Ahead

\* A window that counts the message may still come.
Current(id) == clock < PubTime[id] + Reach

\* No message in hand is from further ahead than the clocks may be apart.
PublishedByNow ==
    /\ \A id \in stored : PubTime[id] <= clock + Ahead
    /\ \A th \in Threads : Busy(th) => PubTime[thread[th].id] <= clock + Ahead

\* Once SET NX has succeeded the key covers the whole reach.
KeyCovers ==
    /\ \A id \in stored : keys[id] >= PubTime[id] + Reach
    /\ \A th \in Threads : thread[th].st \in {"cutoff", "index"} =>
         keys[thread[th].id] >= PubTime[thread[th].id] + Reach

CutoffsPassed ==
    \A th \in Threads : thread[th].st = "index" => thread[th].cutoff <= clock - Expiry

\* Neither a trim nor the expiry of the set takes the message while it is
\* current.
Safe(id, p) ==
    Current(id) => id \in zset[p] /\ expires[p] >= PubTime[id] + Reach

StoredIsSafe == \A id \in stored : \A p \in Matching[id] : Safe(id, p)

IndexedIsSafe ==
    \A th \in Threads : thread[th].st = "index" =>
        \A i \in 1 .. thread[th].next - 1 :
            PatternList[i] \in Matching[thread[th].id] =>
                Safe(thread[th].id, PatternList[i])

IInv ==
    /\ TypeOK
    /\ PublishedByNow /\ KeyCovers /\ CutoffsPassed
    /\ StoredIsSafe /\ IndexedIsSafe

-----------------------------------------------------------------------------
(* Arithmetic of the expiry.                                               *)

\* The slack covers the publishers' clocks and the flooring of a window, so
\* that what the current or a later window counts is current.
LEMMA ExpiryCovers ==
    /\ Expiry \in Nat
    /\ Ahead \in Nat
    /\ \A t \in Int, c \in Nat :
         t >= Window(c).start * TicksPerSecond => c < t + (Expiry - Ahead)
<1>1. /\ TicksPerSecond \in Nat /\ TestInterval \in Nat /\ TimeLag \in Nat
      /\ Slack \in Nat /\ Ahead \in Nat /\ Ahead + TicksPerSecond <= Slack * TicksPerSecond
  BY WindowsAssumption, BaselineStoreAssumption
  DEF WindowsAssumption, BaselineStoreAssumption
<1> DEFINE span == TimeLag + TestInterval
<1>2. span \in Nat
  BY <1>1
<1>3. Expiry = span * TicksPerSecond + Slack * TicksPerSecond
  BY <1>1, <1>2 DEF Expiry
<1>4. /\ span * TicksPerSecond \in Nat /\ Slack * TicksPerSecond \in Nat
  BY <1>1, <1>2
<1>5. SUFFICES ASSUME NEW t \in Int, NEW c \in Nat,
                      t >= Window(c).start * TicksPerSecond
               PROVE  c < t + (Expiry - Ahead)
  BY <1>1, <1>3, <1>4
<1>6. /\ Second(c) \in Nat
      /\ c < Second(c) * TicksPerSecond + TicksPerSecond
  BY FloorBounds
<1>7. Window(c).start = Second(c) - span
  BY <1>1, <1>6 DEF Window
<1>8. Window(c).start * TicksPerSecond = Second(c) * TicksPerSecond - span * TicksPerSecond
  BY <1>1, <1>2, <1>6, <1>7
<1>9. Second(c) * TicksPerSecond \in Nat
  BY <1>1, <1>6
<1> QED
  BY <1>1, <1>3, <1>4, <1>5, <1>6, <1>8, <1>9

\* The constants as the steps below use them.
LEMMA Constants ==
    /\ Expiry \in Nat /\ Ahead \in Nat /\ Reach \in Int /\ Reach = Expiry - Ahead
    /\ \A id \in Ids : PubTime[id] \in Int /\ Matching[id] \subseteq Patterns
    /\ Len(PatternList) \in Nat \ {0}
    /\ DOMAIN PatternList = 1 .. Len(PatternList)
    /\ \A i \in 1 .. Len(PatternList) : PatternList[i] \in Patterns
    /\ \A p \in Patterns : \E i \in 1 .. Len(PatternList) : p = PatternList[i]
    /\ NoId \notin Ids
BY ExpiryCovers, BaselineStoreAssumption DEF BaselineStoreAssumption, Patterns, Reach

-----------------------------------------------------------------------------
(* Each step keeps the invariant.                                          *)

LEMMA InitIInv == Init => IInv
BY Constants, ExpiryCovers
DEF Init, IInv, TypeOK, ThreadType, IdleThread, PublishedByNow, KeyCovers, CutoffsPassed,
    StoredIsSafe, IndexedIsSafe, Busy

\* A step of one thread that leaves Redis and the history alone, and brings
\* the thread to the state it names.
LEMMA ThreadStep ==
    ASSUME IInv, NEW th \in Threads, NEW t \in ThreadType,
           thread' = [thread EXCEPT ![th] = t],
           UNCHANGED <<clock, keys, zset, expires, stored>>,
           t.st \in {"set", "cutoff", "index"} =>
             t.id \in Ids /\ PubTime[t.id] <= clock + Ahead,
           t.st \in {"cutoff", "index"} => keys[t.id] >= PubTime[t.id] + Reach,
           t.st = "index" => t.cutoff <= clock - Expiry /\ t.next = 1
    PROVE  IInv'
<1>1. /\ thread'[th] = t
      /\ \A o \in Threads \ {th} : thread'[o] = thread[o]
      /\ thread' \in [Threads -> ThreadType]
  BY DEF IInv, TypeOK
<1>2. TypeOK'
  BY <1>1, Constants DEF IInv, TypeOK
<1>3. PublishedByNow'
  BY <1>1 DEF IInv, PublishedByNow, Busy
<1>4. KeyCovers'
  BY <1>1 DEF IInv, KeyCovers, Reach
<1>5. CutoffsPassed'
  BY <1>1 DEF IInv, CutoffsPassed
<1>6. StoredIsSafe'
  BY DEF IInv, StoredIsSafe, Safe, Current
<1>7. IndexedIsSafe'
  BY <1>1 DEF IInv, IndexedIsSafe, Safe, Current
<1> QED
  BY <1>2, <1>3, <1>4, <1>5, <1>6, <1>7 DEF IInv

LEMMA ReceiveIInv ==
    ASSUME IInv, NEW th \in Threads, NEW id \in Ids, Receive(th, id)
    PROVE  IInv'
<1> DEFINE t == [thread[th] EXCEPT !.st = "set", !.id = id]
<1>1. thread[th] \in ThreadType
  BY DEF IInv, TypeOK
<1>2. t \in ThreadType /\ t.st = "set" /\ t.id = id
  BY <1>1 DEF ThreadType
<1>3. thread' = [thread EXCEPT ![th] = t]
  BY <1>1 DEF Receive, ThreadType, IInv, TypeOK
<1> HIDE DEF t
<1> QED
  BY <1>2, <1>3, ThreadStep DEF Receive

\* A thread that is idle or dead has nothing in hand.
LEMMA IdleIInv ==
    ASSUME IInv, NEW th \in Threads, Duplicate(th) \/ RedisFails(th)
    PROVE  IInv'
<1> DEFINE t == thread'[th]
<1>1. t \in {IdleThread, DeadThread} /\ thread' = [thread EXCEPT ![th] = t]
  BY DEF Duplicate, RedisFails, IInv, TypeOK
<1>2. t \in ThreadType /\ t.st \in {"idle", "dead"}
  BY <1>1 DEF ThreadType, IdleThread, DeadThread
<1> HIDE DEF t
<1> QED
  BY <1>1, <1>2, ThreadStep DEF Duplicate, RedisFails

LEMMA ReadCutoffIInv ==
    ASSUME IInv, NEW th \in Threads, ReadCutoff(th)
    PROVE  IInv'
<1> DEFINE t == [thread[th] EXCEPT !.st = "index", !.cutoff = clock - Expiry, !.next = 1]
<1>1. thread[th] \in ThreadType /\ thread[th].st = "cutoff" /\ clock \in Nat
  BY DEF IInv, TypeOK, ReadCutoff
<1>2. /\ t \in ThreadType /\ t.st = "index" /\ t.id = thread[th].id
      /\ t.cutoff = clock - Expiry /\ t.next = 1
  <2>1. clock - Expiry \in Int
    BY <1>1, Constants
  <2> QED
    BY <1>1, <2>1 DEF ThreadType
<1>3. thread' = [thread EXCEPT ![th] = t]
  BY <1>1 DEF ReadCutoff, ThreadType, IInv, TypeOK
<1>4. /\ t.id \in Ids /\ PubTime[t.id] <= clock + Ahead
      /\ keys[t.id] >= PubTime[t.id] + Reach
  BY <1>1, <1>2 DEF IInv, TypeOK, PublishedByNow, KeyCovers, Busy
<1>5. t.cutoff <= clock - Expiry
  BY <1>1, <1>2, Constants
<1> HIDE DEF t
<1> QED
  BY <1>2, <1>3, <1>4, <1>5, ThreadStep DEF ReadCutoff

\* SET NX EX: no key is ever shortened, and the new one covers the reach of
\* a message that cannot be from further ahead than Ahead.
LEMMA SetKeyIInv ==
    ASSUME IInv, NEW th \in Threads, SetKey(th)
    PROVE  IInv'
<1> DEFINE id == thread[th].id
<1>1. /\ thread[th].st = "set" /\ thread[th] \in ThreadType /\ id \in Ids
      /\ clock \in Nat /\ keys \in [Ids -> Nat]
      /\ PubTime[id] <= clock + Ahead
  BY DEF IInv, TypeOK, SetKey, PublishedByNow, Busy
<1>2. /\ thread'[th].st = "cutoff" /\ thread'[th].id = id
      /\ thread' \in [Threads -> ThreadType]
      /\ \A o \in Threads \ {th} : thread'[o] = thread[o]
  BY <1>1 DEF SetKey, ThreadType, IInv, TypeOK
<1>3. /\ keys' = [keys EXCEPT ![id] = clock + Expiry]
      /\ UNCHANGED <<clock, zset, expires, stored>>
  BY DEF SetKey
<1>4. clock + Expiry \in Nat /\ clock + Expiry >= PubTime[id] + Reach
  BY <1>1, Constants
<1>5. keys' \in [Ids -> Nat] /\ \A x \in Ids : x = id \/ keys'[x] = keys[x]
  BY <1>1, <1>3, <1>4
<1>6. keys'[id] >= PubTime[id] + Reach
  BY <1>1, <1>3, <1>4
<1>7. TypeOK'
  BY <1>1, <1>2, <1>3, <1>5 DEF IInv, TypeOK
<1>8. PublishedByNow'
  BY <1>1, <1>2, <1>3 DEF IInv, PublishedByNow, Busy
<1>9. KeyCovers'
  <2>1. \A x \in stored : keys'[x] >= PubTime[x] + Reach
    BY <1>5, <1>6 DEF IInv, KeyCovers, TypeOK
  <2>2. \A o \in Threads : thread'[o].st \in {"cutoff", "index"} =>
            keys'[thread'[o].id] >= PubTime[thread'[o].id] + Reach
    BY <1>1, <1>2, <1>5, <1>6 DEF IInv, KeyCovers, TypeOK
  <2> QED
    BY <1>3, <2>1, <2>2 DEF KeyCovers, Reach
<1>10. CutoffsPassed'
  BY <1>2, <1>3 DEF IInv, CutoffsPassed
<1>11. StoredIsSafe'
  BY <1>3 DEF IInv, StoredIsSafe, Safe, Current
<1>12. IndexedIsSafe'
  BY <1>2, <1>3 DEF IInv, IndexedIsSafe, Safe, Current
<1> QED
  BY <1>7, <1>8, <1>9, <1>10, <1>11, <1>12 DEF IInv

LEMMA RestartIInv == ASSUME IInv, Restart PROVE IInv'
<1>1. /\ thread' = [th \in Threads |-> IdleThread] /\ IdleThread \in ThreadType
      /\ \A th \in Threads : thread'[th].st = "idle"
      /\ UNCHANGED <<clock, keys, zset, expires, stored>>
  BY Constants DEF Restart, IdleThread, ThreadType
<1>2. TypeOK'
  BY <1>1 DEF IInv, TypeOK
<1>3. PublishedByNow' /\ KeyCovers' /\ CutoffsPassed' /\ IndexedIsSafe'
  BY <1>1 DEF IInv, PublishedByNow, KeyCovers, CutoffsPassed, IndexedIsSafe, Busy, Reach
<1>4. StoredIsSafe'
  BY <1>1 DEF IInv, StoredIsSafe, Safe, Current
<1> QED
  BY <1>2, <1>3, <1>4 DEF IInv

\* What is safe stays safe as time passes: a set that holds a current
\* message does not expire.
LEMMA TickIInv == ASSUME IInv, Tick PROVE IInv'
<1>1. /\ clock \in Nat /\ clock' = clock + 1
      /\ zset' = [p \in Patterns |-> IF expires[p] <= clock' THEN {} ELSE zset[p]]
      /\ UNCHANGED <<keys, expires, thread, stored>>
  BY DEF IInv, TypeOK, Tick
<1>2. TypeOK'
  BY <1>1 DEF IInv, TypeOK
<1>3. PublishedByNow'
  BY <1>1, Constants DEF IInv, PublishedByNow, TypeOK, Busy
<1>4. KeyCovers'
  BY <1>1 DEF IInv, KeyCovers, Reach
<1>5. CutoffsPassed'
  BY <1>1, Constants DEF IInv, CutoffsPassed, TypeOK, ThreadType
<1>6. ASSUME NEW id \in Ids, NEW p \in Patterns, Safe(id, p)
      PROVE  Safe(id, p)'
  <2>1. SUFFICES ASSUME clock' < PubTime[id] + Reach
                 PROVE  id \in zset'[p] /\ expires[p] >= PubTime[id] + Reach
    BY <1>1 DEF Safe, Current, Reach
  <2>2. Current(id)
    BY <1>1, <2>1, Constants DEF Current
  <2>3. id \in zset[p] /\ expires[p] >= PubTime[id] + Reach /\ expires[p] \in Nat
    BY <1>6, <2>2 DEF Safe, IInv, TypeOK
  <2> QED
    BY <1>1, <2>1, <2>3, Constants
<1>7. StoredIsSafe'
  BY <1>1, <1>6, Constants DEF IInv, StoredIsSafe, TypeOK
<1>8. IndexedIsSafe'
  <2> SUFFICES ASSUME NEW th \in Threads, thread[th].st = "index",
                      NEW i \in 1 .. thread[th].next - 1,
                      PatternList[i] \in Matching[thread[th].id]
               PROVE  Safe(thread[th].id, PatternList[i])'
    BY <1>1 DEF IndexedIsSafe
  <2>1. Safe(thread[th].id, PatternList[i])
    BY DEF IInv, IndexedIsSafe
  <2>2. thread[th].id \in Ids /\ PatternList[i] \in Patterns
    BY Constants DEF IInv, TypeOK
  <2> QED
    BY <1>1, <1>6, <2>1, <2>2 DEF Safe, Current, Reach
<1> QED
  BY <1>2, <1>3, <1>4, <1>5, <1>7, <1>8 DEF IInv

\* A message is safe in the state after a step that leaves the clock alone.
StaysSafe(x, q) ==
    clock < PubTime[x] + Reach => x \in zset'[q] /\ expires'[q] >= PubTime[x] + Reach

\* What Index does to the sorted set of p.
Trimmed(id, p, cutoff) ==
    IF p \in Matching[id]
      THEN /\ zset' = [zset EXCEPT ![p] = {x \in @ \cup {id} : PubTime[x] > cutoff}]
           /\ expires' = [expires EXCEPT ![p] = clock + Expiry]
      ELSE UNCHANGED <<zset, expires>>

\* One pattern: the trim takes only what is past its reach, and the set lives
\* on for a whole expiry.
LEMMA TrimKeeps ==
    ASSUME IInv, NEW id \in Ids, NEW p \in Patterns, NEW cutoff \in Int,
           cutoff <= clock - Expiry, PubTime[id] <= clock + Ahead,
           Trimmed(id, p, cutoff),
           NEW x \in Ids, NEW q \in Patterns, PubTime[x] <= clock + Ahead,
           Safe(x, q) \/ (x = id /\ q = p /\ p \in Matching[id])
    PROVE  StaysSafe(x, q)
<1>1. /\ clock \in Nat /\ zset \in [Patterns -> SUBSET Ids] /\ expires \in [Patterns -> Nat]
  BY DEF IInv, TypeOK
<1>2. SUFFICES ASSUME clock < PubTime[x] + Reach
               PROVE  x \in zset'[q] /\ expires'[q] >= PubTime[x] + Reach
  BY DEF StaysSafe
<1>3. PubTime[x] > cutoff /\ clock + Expiry >= PubTime[x] + Reach
  <2>1. /\ Reach = Expiry - Ahead /\ Reach \in Int /\ PubTime[x] \in Int
        /\ Expiry \in Nat /\ Ahead \in Nat
    BY Constants
  <2>2. PubTime[x] <= clock + Ahead /\ clock < PubTime[x] + Reach /\ cutoff <= clock - Expiry
    BY <1>2
  <2> HIDE DEF Expiry, Reach
  <2> QED
    BY <1>1, <2>1, <2>2
<1>4. Safe(x, q) => x \in zset[q] /\ expires[q] >= PubTime[x] + Reach
  BY <1>2 DEF Safe, Current
<1>5. CASE q = p /\ p \in Matching[id]
  <2>1. zset'[q] = {y \in zset[q] \cup {id} : PubTime[y] > cutoff}
    BY <1>1, <1>5 DEF Trimmed
  <2>2. expires'[q] = clock + Expiry
    BY <1>1, <1>5 DEF Trimmed
  <2> QED
    BY <1>3, <1>4, <2>1, <2>2
<1>6. CASE q # p \/ p \notin Matching[id]
  <2>1. zset'[q] = zset[q] /\ expires'[q] = expires[q]
    BY <1>1, <1>6 DEF Trimmed
  <2>2. Safe(x, q)
    BY <1>6
  <2> QED
    BY <1>4, <2>1, <2>2
<1> QED
  BY <1>5, <1>6

LEMMA IndexStep ==
    ASSUME IInv, NEW th \in Threads, Index(th),
           NEW id \in Ids, id = thread[th].id,
           NEW i \in 1 .. Len(PatternList), i = thread[th].next,
           NEW p \in Patterns, p = PatternList[i],
           NEW cutoff \in Int, cutoff = thread[th].cutoff,
           cutoff <= clock - Expiry
    PROVE  IInv'
<1>1. /\ thread[th].st = "index" /\ thread \in [Threads -> ThreadType] /\ i \in Nat
      /\ clock \in Nat /\ zset \in [Patterns -> SUBSET Ids] /\ expires \in [Patterns -> Nat]
      /\ keys \in [Ids -> Nat] /\ stored \subseteq Ids
      /\ PubTime[id] <= clock + Ahead /\ keys[id] >= PubTime[id] + Reach
  BY DEF IInv, TypeOK, Index, PublishedByNow, KeyCovers, Busy
<1>2. Trimmed(id, p, cutoff) /\ clock' = clock /\ keys' = keys
  BY DEF Index, Trimmed
<1>3. zset' \in [Patterns -> SUBSET Ids] /\ expires' \in [Patterns -> Nat]
  <2>1. clock + Expiry \in Nat
    BY <1>1, Constants
  <2>2. {x \in zset[p] \cup {id} : PubTime[x] > cutoff} \subseteq Ids
    BY <1>1
  <2>3. CASE p \in Matching[id]
    <3>1. zset' = [zset EXCEPT ![p] = {x \in zset[p] \cup {id} : PubTime[x] > cutoff}]
      BY <1>2, <2>3 DEF Trimmed
    <3>2. expires' = [expires EXCEPT ![p] = clock + Expiry]
      BY <1>2, <2>3 DEF Trimmed
    <3> HIDE DEF Expiry
    <3> QED
      BY <1>1, <2>1, <2>2, <3>1, <3>2
  <2>4. CASE p \notin Matching[id]
    BY <1>1, <1>2, <2>4 DEF Trimmed
  <2> QED
    BY <2>3, <2>4
<1>4. /\ \A o \in Threads \ {th} : thread'[o] = thread[o]
      /\ thread' \in [Threads -> ThreadType]
      /\ \/ i = Len(PatternList) /\ thread'[th].st = "idle" /\ stored' = stored \cup {id}
         \/ /\ thread'[th].st = "index" /\ thread'[th].id = id
            /\ thread'[th].cutoff = cutoff /\ thread'[th].next = i + 1
            /\ i + 1 \in 1 .. Len(PatternList) /\ stored' = stored
  <2>1. IdleThread \in ThreadType /\ IdleThread.st = "idle"
    BY DEF IdleThread, ThreadType
  <2>2. CASE i = Len(PatternList)
    BY <1>1, <2>1, <2>2 DEF Index, NextPattern
  <2>3. CASE i # Len(PatternList)
    <3>1. thread' = [thread EXCEPT ![th].next = i + 1] /\ stored' = stored
      BY <2>3 DEF Index, NextPattern
    <3>2. i + 1 \in 1 .. Len(PatternList)
      BY <2>3, Constants
    <3>3. /\ thread'[th] = [thread[th] EXCEPT !.next = i + 1]
          /\ \A o \in Threads \ {th} : thread'[o] = thread[o]
      BY <1>1, <3>1
    <3>4. thread[th] \in ThreadType /\ i + 1 \in Nat
      BY <1>1
    <3>5. /\ thread'[th] \in ThreadType /\ thread'[th].st = "index"
          /\ thread'[th].id = id /\ thread'[th].cutoff = cutoff /\ thread'[th].next = i + 1
      BY <1>1, <3>3, <3>4 DEF ThreadType
    <3>6. thread' \in [Threads -> ThreadType]
      BY <1>1, <3>1, <3>3, <3>5
    <3> QED
      BY <3>1, <3>2, <3>3, <3>5, <3>6
  <2> QED
    BY <2>2, <2>3
<1>5. TypeOK'
  <2>1. \A o \in Threads :
          /\ thread'[o].st \in {"set", "cutoff", "index"} => thread'[o].id \in Ids
          /\ thread'[o].st = "index" => thread'[o].next \in DOMAIN PatternList
    BY <1>4, Constants DEF IInv, TypeOK
  <2>2. stored' \subseteq Ids
    BY <1>1, <1>4
  <2> QED
    BY <1>1, <1>2, <1>3, <1>4, <2>1, <2>2 DEF TypeOK
<1>6. PublishedByNow'
  BY <1>1, <1>2, <1>4 DEF IInv, PublishedByNow, Busy
<1>7. KeyCovers'
  BY <1>1, <1>2, <1>4 DEF IInv, KeyCovers, Reach
<1>8. CutoffsPassed'
  BY <1>1, <1>2, <1>4 DEF IInv, CutoffsPassed
<1>9. \A x \in Ids, q \in Patterns :
        /\ PubTime[x] <= clock + Ahead
        /\ Safe(x, q) \/ (x = id /\ q = p /\ p \in Matching[id])
        => StaysSafe(x, q)
  <2> SUFFICES ASSUME NEW x \in Ids, NEW q \in Patterns, PubTime[x] <= clock + Ahead,
                      Safe(x, q) \/ (x = id /\ q = p /\ p \in Matching[id])
               PROVE  StaysSafe(x, q)
    OBVIOUS
  <2> QED
    BY <1>1, <1>2, TrimKeeps
<1>10. \A j \in 1 .. i : PatternList[j] \in Matching[id] => StaysSafe(id, PatternList[j])
  <2> SUFFICES ASSUME NEW j \in 1 .. i, PatternList[j] \in Matching[id]
               PROVE  StaysSafe(id, PatternList[j])
    OBVIOUS
  <2>1. j = i \/ Safe(id, PatternList[j])
    BY <1>1 DEF IInv, IndexedIsSafe
  <2>2. PatternList[j] \in Patterns
    BY Constants
  <2> QED
    BY <1>1, <1>9, <2>1, <2>2
<1>11. StoredIsSafe'
  <2>1. \A x \in stored : \A q \in Matching[x] : StaysSafe(x, q)
    BY <1>1, <1>9, Constants DEF IInv, StoredIsSafe, PublishedByNow
  <2>2. i = Len(PatternList) => \A q \in Matching[id] : StaysSafe(id, q)
    BY <1>10, Constants
  <2>3. \A x \in stored' : \A q \in Matching[x] : StaysSafe(x, q)
    BY <1>4, <2>1, <2>2
  <2> QED
    BY <1>2, <2>3 DEF StoredIsSafe, Safe, Current, StaysSafe, Reach
<1>12. IndexedIsSafe'
  <2>1. ASSUME NEW o \in Threads, thread'[o].st = "index",
               NEW j \in 1 .. thread'[o].next - 1,
               PatternList[j] \in Matching[thread'[o].id]
        PROVE  StaysSafe(thread'[o].id, PatternList[j])
    <3>1. CASE o = th
      BY <1>1, <1>4, <1>10, <2>1, <3>1
    <3>2. CASE o # th
      <4>1. thread'[o] = thread[o] /\ Safe(thread[o].id, PatternList[j])
        BY <1>4, <2>1, <3>2 DEF IInv, IndexedIsSafe
      <4>2. /\ thread[o].id \in Ids
            /\ PubTime[thread[o].id] <= clock + Ahead
        BY <2>1, <4>1 DEF IInv, TypeOK, PublishedByNow, Busy
      <4>3. PatternList[j] \in Patterns
        BY <2>1, <4>1, <4>2, Constants
      <4> QED
        BY <1>9, <4>1, <4>2, <4>3
    <3> QED
      BY <3>1, <3>2
  <2> QED
    BY <1>2, <2>1 DEF IndexedIsSafe, Safe, Current, StaysSafe, Reach
<1> QED
  BY <1>5, <1>6, <1>7, <1>8, <1>11, <1>12 DEF IInv

LEMMA IndexIInv ==
    ASSUME IInv, NEW th \in Threads, Index(th)
    PROVE  IInv'
<1>1. thread[th].st = "index" /\ thread[th] \in ThreadType
  BY DEF IInv, TypeOK, Index
<1>2. /\ thread[th].id \in Ids /\ thread[th].next \in 1 .. Len(PatternList)
      /\ thread[th].cutoff \in Int /\ thread[th].cutoff <= clock - Expiry
  BY <1>1, Constants DEF IInv, TypeOK, CutoffsPassed, ThreadType
<1> QED
  BY <1>2, IndexStep, Constants

LEMMA NextIInv == IInv /\ [Next]_vars => IInv'
<1> SUFFICES ASSUME IInv, [Next]_vars PROVE IInv'
  OBVIOUS
<1>1. CASE UNCHANGED vars
  BY <1>1 DEF vars, IInv, TypeOK, PublishedByNow, KeyCovers, CutoffsPassed, StoredIsSafe,
              IndexedIsSafe, Safe, Current, Reach, Busy
<1>2. CASE Next
  BY <1>2, ReceiveIInv, IdleIInv, SetKeyIInv, ReadCutoffIInv, IndexIInv, RestartIInv, TickIInv
  DEF Next
<1> QED
  BY <1>1, <1>2

-----------------------------------------------------------------------------
(* The theorems.                                                           *)

\* In every reachable state of BaselineStore its variables have their types and the
\* invariant holds that the other theorems rest on.
THEOREM BaselineStoreInductive == Spec => []IInv
BY InitIInv, NextIInv, PTL DEF Spec

\* The types, and that no thread runs past the list of patterns.
THEOREM BaselineStoreTypeCorrect == Spec => []TypeOK
<1>1. IInv => TypeOK
  BY DEF IInv
<1> QED
  BY BaselineStoreInductive, <1>1, PTL

\* What store_message has stored is in each of its sorted sets whenever
\* run_cycle may count its window, whatever other threads, trims and expiries
\* came in between, and however often Redis or the process failed.
THEOREM BaselineStoreRetains == Spec => []RetainedForItsWindow
<1>1. IInv => RetainedForItsWindow
  <2> SUFFICES ASSUME IInv, NEW id \in stored, InWindow(Window(clock), PubTime[id]),
                      NEW p \in Matching[id]
               PROVE  id \in zset[p]
    BY DEF RetainedForItsWindow
  <2>1. id \in Ids /\ PubTime[id] \in Int /\ clock \in Nat
    BY Constants DEF IInv, TypeOK
  <2>2. Current(id)
    BY <2>1, ExpiryCovers DEF InWindow, Current, Reach
  <2> QED
    BY <2>2 DEF IInv, StoredIsSafe, Safe
<1> QED
  BY BaselineStoreInductive, <1>1, PTL

\* The dedup key of a stored message outlives the last window that can count
\* it, so that no late copy is stored and counted anew.
THEOREM BaselineStoreDedups == Spec => []DedupOutlivesWindow
<1>1. IInv => DedupOutlivesWindow
  <2> SUFFICES ASSUME IInv, NEW id \in stored,
                      PubTime[id] >= Window(clock).start * TicksPerSecond
               PROVE  keys[id] > clock
    BY DEF DedupOutlivesWindow, Known
  <2>1. id \in Ids /\ PubTime[id] \in Int /\ clock \in Nat /\ keys[id] \in Nat
    BY Constants DEF IInv, TypeOK
  <2>2. clock < PubTime[id] + Reach /\ keys[id] >= PubTime[id] + Reach
    BY <2>1, ExpiryCovers DEF Reach, IInv, KeyCovers
  <2> QED
    BY <2>1, <2>2, Constants
<1> QED
  BY BaselineStoreInductive, <1>1, PTL
=============================================================================
