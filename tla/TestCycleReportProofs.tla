------------------------ MODULE TestCycleReportProofs ------------------------
(***************************************************************************)
(* What a cycle reports: aborts that mean what they say, values of their   *)
(* types, a numberMatched check that means what it says, and metrics that  *)
(* are published whole or not at all.                                      *)
(***************************************************************************)
EXTENDS TestCycleProofs, WellFoundedInduction

-----------------------------------------------------------------------------
(* Taking an entry out of a sequence.                                      *)

LEMMA RemoveAtProperties ==
    ASSUME NEW P, NEW s \in Seq(P), NEW n \in 1 .. Len(s)
    PROVE  /\ RemoveAt(s, n) \in Seq(P) /\ Len(RemoveAt(s, n)) = Len(s) - 1
           /\ \A i \in 1 .. Len(s) - 1 : RemoveAt(s, n)[i] = s[IF i < n THEN i ELSE i + 1]
<1> DEFINE l == Len(s)
           a == SubSeq(s, 1, n - 1)
           b == SubSeq(s, n + 1, l)
<1>1. l \in Nat /\ n \in Nat /\ n <= l /\ n >= 1 /\ \A i \in 1 .. l : s[i] \in P
  BY ElementOfSeq
<1>2. a \in Seq(P) /\ Len(a) = n - 1 /\ \A i \in 1 .. n - 1 : a[i] = s[i]
  <2>1. 1 \in Int /\ n - 1 \in Int /\ (\A i \in 1 .. n - 1 : s[i] \in P)
    BY <1>1
  <2>2. /\ a \in Seq(P) /\ Len(a) = IF 1 <= n - 1 THEN n - 1 - 1 + 1 ELSE 0
        /\ \A i \in 1 .. n - 1 - 1 + 1 : a[i] = s[1 + i - 1]
    BY <2>1, SubSeqProperties
  <2> HIDE DEF a
  <2> QED
    BY <1>1, <2>2
<1>3. b \in Seq(P) /\ Len(b) = l - n /\ \A i \in 1 .. l - n : b[i] = s[n + i]
  <2>1. n + 1 \in Int /\ l \in Int /\ (\A i \in n + 1 .. l : s[i] \in P)
    BY <1>1
  <2>2. /\ b \in Seq(P) /\ Len(b) = IF n + 1 <= l THEN l - (n + 1) + 1 ELSE 0
        /\ \A i \in 1 .. l - (n + 1) + 1 : b[i] = s[n + 1 + i - 1]
    BY <2>1, SubSeqProperties
  <2> HIDE DEF b, l
  <2> QED
    BY <1>1, <2>2
<1> HIDE DEF a, b
<1>4. /\ a \o b \in Seq(P) /\ Len(a \o b) = Len(a) + Len(b)
      /\ \A i \in 1 .. Len(a) + Len(b) :
           (a \o b)[i] = IF i <= Len(a) THEN a[i] ELSE b[i - Len(a)]
  BY <1>2, <1>3, ConcatProperties
<1>5. RemoveAt(s, n) = a \o b
  BY DEF RemoveAt, a, b
<1> HIDE DEF l
<1>6. ASSUME NEW i \in 1 .. l - 1
      PROVE  (a \o b)[i] = s[IF i < n THEN i ELSE i + 1]
  <2>1. (a \o b)[i] = IF i <= n - 1 THEN a[i] ELSE b[i - (n - 1)]
    <3>1. i \in 1 .. Len(a) + Len(b)
      BY <1>1, <1>2, <1>3
    <3>2. (a \o b)[i] = IF i <= Len(a) THEN a[i] ELSE b[i - Len(a)]
      BY <1>4, <3>1
    <3> QED
      BY <1>2, <3>2
  <2>2. CASE i < n
    BY <1>1, <1>2, <2>1, <2>2
  <2>3. CASE i >= n
    <3>1. i - (n - 1) \in 1 .. l - n /\ n + (i - (n - 1)) = i + 1
      BY <1>1, <2>3
    <3>2. (a \o b)[i] = s[n + (i - (n - 1))]
      BY <1>1, <1>3, <2>1, <2>3, <3>1
    <3>3. ~(i < n)
      BY <1>1, <2>3
    <3> QED
      BY <3>1, <3>2, <3>3, Zenon
  <2>4. i < n \/ i >= n
    BY <1>1
  <2> QED
    BY <2>2, <2>3, <2>4, Zenon
<1>7. Len(a \o b) = l - 1
  BY <1>1, <1>2, <1>3, <1>4
<1> QED
  BY <1>4, <1>5, <1>6, <1>7 DEF l

\* The registry is a dictionary in the order of its entries.
Distinct(s) == \A i, j \in DOMAIN s : s[i] = s[j] => i = j
In(e, s) == \E i \in DOMAIN s : s[i] = e

LEMMA RemoveFirstProperties ==
    ASSUME NEW P, NEW s \in Seq(P), NEW e, Distinct(s)
    PROVE  /\ RemoveFirst(s, e) \in Seq(P) /\ Distinct(RemoveFirst(s, e))
           /\ \A p : In(p, RemoveFirst(s, e)) <=> p # e /\ In(p, s)
<1>0. DOMAIN s = 1 .. Len(s) /\ Len(s) \in Nat
  OBVIOUS
<1>1. CASE ~In(e, s)
  BY <1>0, <1>1 DEF RemoveFirst, In
<1>2. CASE In(e, s)
  <2>1. PICK n \in 1 .. Len(s) : s[n] = e
    BY <1>0, <1>2 DEF In
  <2>2. {i \in 1 .. Len(s) : s[i] = e} = {n}
    BY <1>0, <2>1 DEF Distinct
  <2>3. Min({n}) = n
    BY DEF Min
  <2>4. SelectInSeq(s, LAMBDA v : v = e) = n
    BY <2>2, <2>3 DEF SelectInSeq
  <2>5. RemoveFirst(s, e) = RemoveAt(s, n)
    BY <2>1, <2>4 DEF RemoveFirst
  <2> DEFINE t == RemoveAt(s, n)
             at(i) == IF i < n THEN i ELSE i + 1
  <2>6. t \in Seq(P) /\ Len(t) = Len(s) - 1 /\ \A i \in 1 .. Len(s) - 1 : t[i] = s[at(i)]
    BY RemoveAtProperties
  <2> HIDE DEF t
  <2>7. DOMAIN t = 1 .. Len(s) - 1
    BY <2>6
  <2>8. /\ \A i \in DOMAIN t : at(i) \in DOMAIN s /\ at(i) # n
        /\ \A i, j \in DOMAIN t : at(i) = at(j) => i = j
    BY <1>0, <2>7
  <2>9. ASSUME NEW j \in DOMAIN s, j # n
        PROVE  \E i \in DOMAIN t : at(i) = j
    <3>1. CASE j < n
      BY <1>0, <2>7, <3>1
    <3>2. CASE j > n
      <4>1. j - 1 \in DOMAIN t /\ at(j - 1) = j
        BY <1>0, <2>7, <3>2
      <4> QED
        BY <4>1
    <3> QED
      BY <1>0, <2>9, <3>1, <3>2
  <2> HIDE DEF at
  <2>10. \A i \in DOMAIN t : t[i] = s[at(i)]
    BY <2>6, <2>7
  <2>11. Distinct(t)
    BY <2>8, <2>10 DEF Distinct
  <2>12. ASSUME NEW p
         PROVE  In(p, t) <=> p # e /\ In(p, s)
    BY <1>0, <2>1, <2>8, <2>9, <2>10 DEF Distinct, In
  <2> QED
    BY <2>5, <2>6, <2>11, <2>12 DEF t
<1> QED
  BY <1>1, <1>2

-----------------------------------------------------------------------------
(* The stages of a cycle and of its fetches.                               *)

Before == {"none", "baseline", "clear", "clear_sync"}
Pending == {"post", "decide", "await", "leave"}

FetchesTyped ==
    /\ sync \in [Pairs -> SyncType] /\ async \in [Pairs -> AsyncType]
    /\ first \in [Pairs -> BOOLEAN]
    /\ active \in Seq(Pairs) /\ Distinct(active)

\* What each stage of run_cycle leaves behind.
Stages ==
    /\ phase \in Before \cup {"collect", "unwind", "hold", "publish"}
    /\ step \in Nat
    /\ phase = "baseline" => step \in DOMAIN TopicList
    /\ phase \in Before => \A k \in Pairs : sync[k] = NewSync /\ async[k] = NewAsync
    /\ phase = "collect" => step \in Tasks /\ \A t \in Tasks : t < step => TaskDone(t)
    /\ phase \in {"hold", "publish"} => \A t \in Tasks : TaskDone(t)

\* What each stage of a fetch leaves behind.  A channel is registered exactly
\* while its fetch is pending.
FetchStages ==
    \A k \in Pairs :
        /\ sync[k].st = "get" => sync[k] = NewSync
        /\ sync[k].aborted => sync[k].st = "done" /\ ~sync[k].valid
        /\ async[k].aborted => async[k].st \in Decided
        /\ async[k].st \in {"await", "leave", "done"} => ProviderReady(k)
        /\ In(k, active) <=> async[k].st \in Pending

FetchInv == FetchesTyped /\ Stages /\ FetchStages

LEMMA NewTyped == NewSync \in SyncType /\ NewAsync \in AsyncType
BY TestCycleAssumption DEF TestCycleAssumption, NewSync, NewAsync, SyncType, AsyncType

LEMMA InitFetch == Init => FetchInv
<1> SUFFICES ASSUME Init PROVE FetchInv
  OBVIOUS
<1>1. FetchesTyped
  BY NewTyped DEF Init, FetchesTyped, Distinct
<1>2. Stages
  BY DEF Init, Stages, Before
<1>3. FetchStages
  BY DEF Init, FetchStages, NewSync, NewAsync, In, Pending
<1> QED
  BY <1>1, <1>2, <1>3 DEF FetchInv

\* A page is a finite set of messages.
LEMMA PageCounted ==
    ASSUME NEW k \in Pairs, NEW page \in SUBSET Answers(k)
    PROVE  page \subseteq Messages /\ Cardinality(page) \in Nat
BY FS_Subset, FS_CardinalityType, TestCycleAssumption DEF TestCycleAssumption, Answers

\* A synchronous fetch takes a step of its own only.
LEMMA SyncStep ==
    ASSUME FetchInv, NEW k \in Pairs, SyncFetch(k)
    PROVE  /\ phase \in {"collect", "unwind"} /\ ~TaskDone(SyncTask(k))
           /\ \E f \in SyncType :
                /\ sync' = [sync EXCEPT ![k] = f]
                /\ f.st # "get"
                /\ f.aborted => f.st = "done" /\ ~f.valid
           /\ UNCHANGED <<phase, step, baseline, async, active, first, heard, handler, replays>>
<1> DEFINE old == sync[k]
<1>0. /\ old \in SyncType
      /\ old.st = "get" => old = NewSync
      /\ old.st = "next" => ~old.aborted
      /\ sync = [sync EXCEPT ![k] = old]
  BY DEF FetchInv, FetchesTyped, FetchStages
<1>1. /\ phase \in {"collect", "unwind"} /\ old.st \in {"get", "next"}
      /\ UNCHANGED <<phase, step, baseline, async, active, first, heard, handler, replays>>
  BY DEF SyncFetch, SyncAborts, SyncInvalid, SyncRaises, SyncStopsPaging, SyncStoreFails,
         SyncFirstPage, SyncNextPage, ProcessPage, Admitted, loopVars, sharedVars, redisVars,
         registryVars, brokerVars, reportVars, historyVars
<1>2. ~TaskDone(SyncTask(k))
  BY <1>1, PairTasks DEF TaskDone
<1> DEFINE Stepped == \E f \in SyncType : /\ sync' = [sync EXCEPT ![k] = f]
                                          /\ f.st # "get"
                                          /\ f.aborted => f.st = "done" /\ ~f.valid
<1>3. CASE SyncAborts(k)
  <2> DEFINE f == [old EXCEPT !.st = "done", !.aborted = TRUE]
  <2>1. sync' = [sync EXCEPT ![k] = f]
    BY <1>0, <1>3 DEF SyncAborts, SyncType, FetchInv, FetchesTyped
  <2>2. ~old.valid
    BY <1>0, <1>3 DEF SyncAborts, NewSync
  <2>3. f \in SyncType /\ f.st = "done" /\ ~f.valid
    BY <1>0, <2>2 DEF SyncType
  <2> QED
    BY <1>1, <1>2, <2>1, <2>3
<1>4. CASE SyncInvalid(k) \/ SyncStopsPaging(k)
  <2> DEFINE f == [old EXCEPT !.st = "done"]
  <2>1. sync' = [sync EXCEPT ![k] = f]
    BY <1>0, <1>4 DEF SyncInvalid, SyncStopsPaging, SyncType, FetchInv, FetchesTyped
  <2>2. f \in SyncType /\ f.st = "done" /\ ~f.aborted
    BY <1>0, <1>1 DEF SyncType, NewSync
  <2> QED
    BY <1>1, <1>2, <2>1, <2>2
<1>5. CASE SyncRaises(k) \/ \E page \in SUBSET Answers(k) : SyncStoreFails(k, page)
  <2> DEFINE f == [old EXCEPT !.st = "raised"]
  <2>1. sync' = [sync EXCEPT ![k] = f]
    BY <1>0, <1>5 DEF SyncRaises, SyncStoreFails, SyncType, FetchInv, FetchesTyped
  <2>2. f \in SyncType /\ f.st = "raised" /\ ~f.aborted
    BY <1>0, <1>1 DEF SyncType, NewSync
  <2> QED
    BY <1>1, <1>2, <2>1, <2>2
<1>6. ASSUME NEW page \in SUBSET Answers(k), NEW junk \in 0 .. MaxJunk, NEW more \in BOOLEAN,
             NEW g \in SyncType, g.pages < MaxPages, ~g.aborted, ProcessPage(k, g, page, junk, more)
      PROVE  Stepped
  <2> DEFINE f == [g EXCEPT !.seen = @ + Cardinality(page) + junk, !.pages = @ + 1,
                            !.st = IF more /\ clock < Deadline THEN "next" ELSE "done"]
  <2>1. sync' = [sync EXCEPT ![k] = f]
    BY <1>6 DEF ProcessPage
  <2>2. Cardinality(page) \in Nat /\ junk \in Nat /\ MaxPages \in Nat
    BY PageCounted, TestCycleAssumption DEF TestCycleAssumption
  <2>3. g.seen + Cardinality(page) + junk \in Nat /\ g.pages + 1 \in 0 .. MaxPages
    BY <1>6, <2>2 DEF SyncType
  <2>4. f \in SyncType /\ f.st # "get" /\ ~f.aborted
    BY <1>6, <2>3 DEF SyncType
  <2> QED
    BY <2>1, <2>4
<1>7. CASE \E page \in SUBSET Answers(k), junk \in 0 .. MaxJunk, more \in BOOLEAN :
              \/ SyncNextPage(k, page, junk, more)
              \/ \E claimed \in 0 .. MaxClaim : SyncFirstPage(k, page, junk, more, claimed)
  <2>1. PICK page \in SUBSET Answers(k), junk \in 0 .. MaxJunk, more \in BOOLEAN :
              \/ SyncNextPage(k, page, junk, more)
              \/ \E claimed \in 0 .. MaxClaim : SyncFirstPage(k, page, junk, more, claimed)
    BY <1>7
  <2>2. CASE SyncNextPage(k, page, junk, more)
    <3>1. old.pages < MaxPages /\ ~old.aborted /\ ProcessPage(k, old, page, junk, more)
      BY <1>0, <2>2 DEF SyncNextPage
    <3> HIDE DEF old, Stepped
    <3>2. Stepped
      BY <1>0, <1>6, <3>1
    <3> QED
      BY <1>1, <1>2, <3>2 DEF Stepped
  <2>3. ASSUME NEW claimed \in 0 .. MaxClaim, SyncFirstPage(k, page, junk, more, claimed)
        PROVE  Stepped
    <3> DEFINE g == [old EXCEPT !.valid = TRUE, !.claimed = claimed]
    <3>1. old = NewSync /\ ProcessPage(k, g, page, junk, more)
      BY <1>0, <2>3 DEF SyncFirstPage
    <3>2. g \in SyncType
      BY <1>0 DEF SyncType
    <3>3. g.pages = 0 /\ ~g.aborted
      BY <1>0, <3>1 DEF NewSync, SyncType
    <3>4. 0 < MaxPages
      BY TestCycleAssumption DEF TestCycleAssumption
    <3> HIDE DEF g, Stepped
    <3> QED
      BY <1>6, <3>1, <3>2, <3>3, <3>4
  <2> QED
    BY <1>1, <1>2, <2>1, <2>2, <2>3
<1> QED
  BY <1>3, <1>4, <1>5, <1>7 DEF SyncFetch

LEMMA SyncFetchKept ==
    ASSUME FetchInv, NEW k \in Pairs, SyncFetch(k)
    PROVE  FetchInv'
<1>1. /\ phase \in {"collect", "unwind"} /\ ~TaskDone(SyncTask(k))
      /\ UNCHANGED <<phase, step, async, active, first>>
  BY SyncStep
<1>2. PICK f \in SyncType : /\ sync' = [sync EXCEPT ![k] = f]
                            /\ f.st # "get"
                            /\ f.aborted => f.st = "done" /\ ~f.valid
  BY SyncStep
<1>3. \A j \in Pairs : sync'[j] = IF j = k THEN f ELSE sync[j]
  BY <1>2 DEF FetchInv, FetchesTyped
<1>4. FetchesTyped'
  BY <1>1, <1>2 DEF FetchInv, FetchesTyped
<1>5. \A t \in Tasks : TaskDone(t) => TaskDone(t)'
  BY <1>1, <1>3, TaskPair DEF TaskDone
<1>6. Stages'
  BY <1>1, <1>5 DEF FetchInv, Stages, Before
<1>7. sync[k].st \notin {"done", "raised"}
  BY <1>1, PairTasks DEF TaskDone
<1>8. FetchStages'
  BY <1>1, <1>2, <1>3, <1>7 DEF FetchInv, FetchStages, ProviderReady
<1> QED
  BY <1>4, <1>6, <1>8 DEF FetchInv

\* An asynchronous fetch takes a step of its own only, and is registered when
\* it is pending after it.
AsyncOwn(k, f) ==
    /\ async' = [async EXCEPT ![k] = f]
    /\ f.aborted => f.st \in Decided
    /\ f.st \in {"await", "leave", "done"} => ProviderReady(k)
    /\ \/ /\ f.st \in Pending
          /\ active' = IF async[k].st = "register" THEN Append(active, k) ELSE active
       \/ f.st = "done" /\ active' = RemoveFirst(active, k)

LEMMA AsyncStep ==
    ASSUME FetchInv, NEW k \in Pairs, AsyncFetch(k)
    PROVE  /\ ~TaskDone(AsyncTask(k))
           /\ async[k].st = "register" => phase \in {"collect", "unwind"}
           /\ \E f \in AsyncType : AsyncOwn(k, f)
           /\ first' \in [Pairs -> BOOLEAN]
           /\ UNCHANGED <<phase, step, baseline, sync, heard, handler, replays>>
<1> DEFINE old == async[k]
<1>0. /\ old \in AsyncType /\ first \in [Pairs -> BOOLEAN]
      /\ async \in [Pairs -> AsyncType]
      /\ old.aborted => old.st \in Decided
      /\ old.st \in {"await", "leave", "done"} => ProviderReady(k)
  BY DEF FetchInv, FetchesTyped, FetchStages, AsyncType
<1> USE DEF Pending, Decided
<1>1. /\ old.st # "done"
      /\ old.st = "register" => phase \in {"collect", "unwind"}
      /\ first' \in [Pairs -> BOOLEAN]
      /\ UNCHANGED <<phase, step, baseline, sync, heard, handler, replays>>
  BY <1>0 DEF AsyncFetch, Register, PostReturns, DecideNone, DecideWait, Snapshot, Leave, Admitted,
         loopVars, sharedVars, registryVars, brokerVars, reportVars, historyVars
<1>2. ~TaskDone(AsyncTask(k))
  BY <1>1, PairTasks DEF TaskDone
<1>3. ASSUME NEW st \in {"post", "decide", "await", "leave"},
             old.st \in {"register", "post", "decide"},
             async' = [async EXCEPT ![k].st = st],
             st \in {"await", "leave"} => ProviderReady(k),
             active' = IF old.st = "register" THEN Append(active, k) ELSE active
      PROVE  \E f \in AsyncType : AsyncOwn(k, f)
  <2> DEFINE f == [old EXCEPT !.st = st]
  <2>1. async' = [async EXCEPT ![k] = f]
    BY <1>0, <1>3
  <2>2. f \in AsyncType /\ f.st = st /\ ~f.aborted
    BY <1>0, <1>3 DEF AsyncType
  <2> QED
    BY <1>3, <2>1, <2>2 DEF AsyncOwn
<1>4. CASE Register(k)
  <2>1. /\ old.st = "register" /\ async' = [async EXCEPT ![k].st = "post"]
        /\ active' = Append(active, k)
    BY <1>4 DEF Register
  <2> QED
    BY <1>1, <1>2, <1>3, <2>1
<1>5. CASE PostReturns(k)
  <2>1. old.st = "post" /\ async' = [async EXCEPT ![k].st = "decide"] /\ active' = active
    BY <1>5 DEF PostReturns, sharedVars, registryVars
  <2> QED
    BY <1>1, <1>2, <1>3, <2>1
<1>6. CASE DecideWait(k) \/ DecideNone(k)
  <2>1. PICK st \in {"await", "leave"} :
           /\ old.st = "decide" /\ ProviderReady(k) /\ active' = active
           /\ async' = [async EXCEPT ![k].st = st]
    BY <1>6 DEF DecideWait, DecideNone, sharedVars, registryVars
  <2> QED
    BY <1>1, <1>2, <1>3, <2>1
<1>7. CASE Snapshot(k)
  <2> DEFINE f == [old EXCEPT !.st = "leave", !.aborted = ~first[k]]
  <2>1. old.st = "await" /\ active' = active /\ async' = [async EXCEPT ![k] = f]
    BY <1>0, <1>7 DEF Snapshot, sharedVars, registryVars
  <2>2. f \in AsyncType /\ f.st = "leave"
    BY <1>0 DEF AsyncType
  <2> QED
    BY <1>0, <1>1, <1>2, <2>1, <2>2 DEF AsyncOwn
<1>8. CASE Leave(k)
  <2> DEFINE f == [old EXCEPT !.st = "done"]
  <2>1. old.st = "leave" /\ active' = RemoveFirst(active, k) /\ async' = [async EXCEPT ![k] = f]
    BY <1>0, <1>8 DEF Leave, Unregister
  <2>2. f \in AsyncType /\ f.st = "done"
    BY <1>0 DEF AsyncType
  <2> QED
    BY <1>0, <1>1, <1>2, <2>1, <2>2 DEF AsyncOwn
<1> QED
  BY <1>4, <1>5, <1>6, <1>7, <1>8 DEF AsyncFetch

LEMMA RegisterProperties ==
    ASSUME NEW P, NEW s \in Seq(P), NEW e \in P, Distinct(s), ~In(e, s)
    PROVE  /\ Append(s, e) \in Seq(P) /\ Distinct(Append(s, e))
           /\ \A p : In(p, Append(s, e)) <=> p = e \/ In(p, s)
<1> DEFINE t == Append(s, e)
           n == Len(s)
<1>1. /\ n \in Nat /\ DOMAIN s = 1 .. n /\ t \in Seq(P) /\ DOMAIN t = 1 .. n + 1
      /\ \A i \in 1 .. n : t[i] = s[i]
      /\ t[n + 1] = e
  BY AppendProperties
<1> HIDE DEF t, n
<1>2. Distinct(t)
  BY <1>1 DEF Distinct, In
<1>3. ASSUME NEW p
      PROVE  In(p, t) <=> p = e \/ In(p, s)
  BY <1>1 DEF In
<1> QED
  BY <1>1, <1>2, <1>3 DEF t

LEMMA AsyncFetchKept ==
    ASSUME FetchInv, NEW k \in Pairs, AsyncFetch(k)
    PROVE  FetchInv'
<1>1. /\ ~TaskDone(AsyncTask(k)) /\ UNCHANGED <<phase, step, sync>>
      /\ async[k].st = "register" => phase \in {"collect", "unwind"}
      /\ first' \in [Pairs -> BOOLEAN]
  BY AsyncStep
<1>2. PICK f \in AsyncType :
        /\ async' = [async EXCEPT ![k] = f]
        /\ f.aborted => f.st \in Decided
        /\ f.st \in {"await", "leave", "done"} => ProviderReady(k)
        /\ \/ /\ f.st \in Pending
              /\ active' = IF async[k].st = "register" THEN Append(active, k) ELSE active
           \/ f.st = "done" /\ active' = RemoveFirst(active, k)
  BY AsyncStep DEF AsyncOwn
<1>3. /\ active \in Seq(Pairs) /\ Distinct(active)
      /\ In(k, active) <=> async[k].st \in Pending
      /\ async[k].st \in Pending \cup {"register", "done"}
  BY DEF FetchInv, FetchesTyped, FetchStages, AsyncType, Pending
<1>4. async[k].st # "done"
  BY <1>1, PairTasks DEF TaskDone
<1>5. /\ active' \in Seq(Pairs) /\ Distinct(active')
      /\ \A j \in Pairs : In(j, active') <=> IF j = k THEN f.st \in Pending ELSE In(j, active)
  <2>1. CASE f.st \in Pending /\ async[k].st = "register"
    <3>1. ~In(k, active) /\ active' = Append(active, k)
      BY <1>2, <1>3, <2>1 DEF Pending
    <3> QED
      BY <1>3, <2>1, <3>1, RegisterProperties
  <2>2. CASE f.st \in Pending /\ async[k].st # "register"
    <3>1. In(k, active) /\ active' = active
      BY <1>2, <1>3, <1>4, <2>2 DEF Pending
    <3> QED
      BY <1>3, <2>2, <3>1
  <2>3. CASE f.st \notin Pending
    <3>1. active' = RemoveFirst(active, k)
      BY <1>2, <2>3
    <3> QED
      BY <1>3, <2>3, <3>1, RemoveFirstProperties
  <2> QED
    BY <2>1, <2>2, <2>3
<1>6. \A j \in Pairs : async'[j] = IF j = k THEN f ELSE async[j]
  BY <1>2 DEF FetchInv, FetchesTyped
<1>7. FetchesTyped'
  BY <1>1, <1>2, <1>5 DEF FetchInv, FetchesTyped
<1>8. \A t \in Tasks : TaskDone(t) => TaskDone(t)'
  BY <1>1, <1>6, TaskPair DEF TaskDone
<1>9. phase \notin Before
  <2>1. CASE async[k].st = "register"
    BY <1>1, <2>1 DEF Before
  <2>2. CASE async[k].st # "register"
    BY <2>2 DEF FetchInv, Stages, NewAsync
  <2> QED
    BY <2>1, <2>2
<1>10. Stages'
  BY <1>1, <1>8, <1>9 DEF FetchInv, Stages
<1>11. FetchStages'
  BY <1>1, <1>2, <1>5, <1>6 DEF FetchInv, FetchStages, ProviderReady
<1> QED
  BY <1>7, <1>10, <1>11 DEF FetchInv

\* What changes none of this.
LEMMA FetchFrame ==
    ASSUME FetchInv, first' \in [Pairs -> BOOLEAN],
           UNCHANGED <<phase, step, sync, async, active>>
    PROVE  FetchInv'
BY DEF FetchInv, FetchesTyped, Stages, FetchStages, TaskDone, ProviderReady

LEMMA ElsewhereFetch ==
    ASSUME FetchInv, Elsewhere
    PROVE  FetchInv'
<1>0. first \in [Pairs -> BOOLEAN]
  BY DEF FetchInv, FetchesTyped
<1>1. CASE \E k \in Pairs : SyncFetch(k) \/ AsyncFetch(k)
  BY <1>1, SyncFetchKept, AsyncFetchKept
<1>2. CASE \E b \in Brokers : MqttThread(b)
  <2>1. PICK b \in Brokers : MqttThread(b)
    BY <1>2
  <2>2. UNCHANGED <<phase, step, sync, async, active>>
    BY <2>1 DEF MqttThread, ReplayArrives, RecordArrival, StoreReplay, DropReplay, PayloadRaises,
                StoreReplayFails, localVars, loopVars, fetchVars, registryVars
  <2>3. first' \in [Pairs -> BOOLEAN]
    BY <1>0, <2>1 DEF MqttThread, ReplayArrives, RecordArrival, StoreReplay, DropReplay,
       PayloadRaises, StoreReplayFails, registryVars
  <2> QED
    BY <2>2, <2>3, FetchFrame
<1>3. CASE \/ \E m \in Messages : BrokerMessage(m)
           \/ \E k \in Pairs : \E page \in SUBSET Answers(k) : ServiceReplays(k, page)
           \/ BoundReached \/ Terminated \/ UNCHANGED vars
  <2>1. UNCHANGED <<phase, step, sync, async, active, first>>
    BY <1>3 DEF BrokerMessage, ServiceReplays, BoundReached, Terminated, vars, cycleVars,
                localVars, loopVars, fetchVars, sharedVars, registryVars
  <2> QED
    BY <1>0, <2>1, FetchFrame
<1> QED
  BY <1>1, <1>2, <1>3 DEF Elsewhere

LEMMA InsideFetch ==
    ASSUME FetchInv, Inside
    PROVE  FetchInv'
<1> USE DEF fetchVars, sharedVars, registryVars
<1>1. UNCHANGED <<sync, async, active, first>>
  BY DEF Inside, ReadBaseline, ClearReplay, ClearSync, Collect, CollectFails, Hold,
         PublishReceived, PublishResult
<1>2. FetchesTyped' /\ FetchStages'
  BY <1>1 DEF FetchInv, FetchesTyped, FetchStages, ProviderReady
<1>3. ASSUME \A k \in Pairs : sync[k] = NewSync /\ async[k] = NewAsync,
             phase' \in Before, step' \in Nat,
             phase' = "baseline" => step' \in DOMAIN TopicList
      PROVE  Stages'
  BY <1>1, <1>3 DEF Stages, Before
<1>4. ASSUME phase' \in {"collect", "unwind", "hold", "publish"}, step' \in Nat,
             phase' = "collect" => step' \in Tasks /\ \A t \in Tasks : t < step' => TaskDone(t),
             phase' \in {"hold", "publish"} => \A t \in Tasks : TaskDone(t)
      PROVE  Stages'
  BY <1>1, <1>4 DEF Stages, Before, TaskDone
<1>5. step \in Nat /\ 0 \in Nat /\ 1 \in Nat /\ step + 1 \in Nat
  BY DEF FetchInv, Stages
<1>6. CASE ReadBaseline
  <2>1. /\ step' \in Nat /\ phase' \in {"baseline", "clear"}
        /\ phase' = "baseline" => step' = step + 1 /\ step # Len(TopicList)
    BY <1>5, <1>6 DEF ReadBaseline
  <2>2. /\ phase = "baseline" /\ step \in DOMAIN TopicList
        /\ \A k \in Pairs : sync[k] = NewSync /\ async[k] = NewAsync
    BY <1>6 DEF ReadBaseline, FetchInv, Stages, Before
  <2> QED
    BY <1>2, <1>3, <2>1, <2>2, ListsTyped DEF FetchInv, Before
<1>7. CASE ClearReplay
  BY <1>2, <1>3, <1>5, <1>7 DEF ClearReplay, FetchInv, Stages, Before
<1>8. CASE ClearSync
  <2>1. 1 \in Tasks /\ \A t \in Tasks : ~(t < 1)
    BY PairCount, SomePair
  <2> QED
    BY <1>2, <1>4, <1>5, <1>8, <2>1 DEF ClearSync, FetchInv
<1>9. CASE Collect
  <2>1. /\ step \in Tasks /\ TaskDone(step) /\ \A t \in Tasks : t < step => TaskDone(t)
        /\ IF step = Cardinality(Tasks) THEN phase' = "hold" /\ step' = 0
                                        ELSE step' = step + 1 /\ phase' = "collect"
    BY <1>9 DEF Collect, FetchInv, Stages
  <2>2. \A t \in Tasks : t <= step => TaskDone(t)
    BY <2>1, TaskCount
  <2> QED
    BY <1>2, <1>4, <1>5, <2>1, <2>2, TaskCount DEF FetchInv
<1>10. CASE CollectFails \/ Hold \/ PublishReceived \/ PublishResult
  BY <1>1, <1>2, <1>4, <1>5, <1>10 DEF CollectFails, Hold, PublishReceived, PublishResult, FetchInv,
     Stages
<1> QED
  BY <1>6, <1>7, <1>8, <1>9, <1>10 DEF Inside

\* When run_cycle is left, nothing is pending any more.
LEMMA LeavingFetch ==
    ASSUME FetchInv, Leaving
    PROVE  FetchInv'
<1>1. PICK p \in BOOLEAN : LeaveCycle(p)
  BY DEF Leaving, PreparationFails, Unwound, Published
<1>2. /\ phase' = "none" /\ step' = 0 /\ active' = active
      /\ sync' = [k \in Pairs |-> NewSync] /\ async' = [k \in Pairs |-> NewAsync]
      /\ first' = first
  BY <1>1 DEF LeaveCycle, registryVars
<1>3. \A k \in Pairs : async[k].st \in {"register", "done"}
  <2>1. CASE PreparationFails
    BY <2>1 DEF PreparationFails, FetchInv, Stages, Before, NewAsync
  <2>2. CASE Unwound \/ Published
    <3>1. \A t \in Tasks : TaskDone(t)
      BY <2>2 DEF Unwound, Published, FetchInv, Stages
    <3>2. ASSUME NEW k \in Pairs
          PROVE  async[k].st = "done"
      BY <3>1, PairTasks DEF TaskDone
    <3> QED
      BY <3>2
  <2> QED
    BY <2>1, <2>2 DEF Leaving
<1>4. FetchesTyped'
  BY <1>2, NewTyped DEF FetchInv, FetchesTyped
<1>5. Stages'
  BY <1>2 DEF Stages, Before
<1>6. FetchStages'
  BY <1>2, <1>3 DEF FetchInv, FetchStages, NewSync, NewAsync, Pending
<1> QED
  BY <1>4, <1>5, <1>6 DEF FetchInv

LEMMA FetchKept == SchedInv /\ FetchInv /\ [Next]_vars => FetchInv'
<1> SUFFICES ASSUME SchedInv, FetchInv, [Next]_vars PROVE FetchInv'
  OBVIOUS
<1>0. first \in [Pairs -> BOOLEAN]
  BY DEF FetchInv, FetchesTyped
<1>1. CASE Outside
  <2>1. UNCHANGED <<phase, step, sync, async, active, first>>
    BY <1>1, OutsideFrame
    DEF cycleVars, localVars, loopVars, fetchVars, sharedVars, registryVars
  <2> QED
    BY <1>0, <2>1, FetchFrame
<1>2. CASE OpenWindow
  <2>1. phase' = "baseline" /\ step' = 1 /\ UNCHANGED <<sync, async, active, first>>
    BY <1>2 DEF OpenWindow, fetchVars, sharedVars, registryVars
  <2>2. phase = "none"
    BY <1>2 DEF OpenWindow, S!BeginCycle, SchedInv, Held
  <2>3. FetchesTyped' /\ FetchStages'
    BY <2>1 DEF FetchInv, FetchesTyped, FetchStages, ProviderReady
  <2>4. Stages'
    BY <2>1, <2>2, ListsTyped DEF FetchInv, Stages, Before
  <2> QED
    BY <2>3, <2>4 DEF FetchInv
<1> QED
  BY <1>1, <1>2, ElsewhereFetch, InsideFetch, LeavingFetch, NextSplit

-----------------------------------------------------------------------------
(* Types.                                                                  *)

StoreTyped ==
    /\ indexed \subseteq Messages
    /\ replayed \in [Pairs -> SUBSET Messages]
    /\ paged \in [Pairs -> SUBSET Messages]
    /\ handler \in [Brokers -> ArrivalType \cup ReplayType \cup {Idle, Dead}]
    /\ replays \subseteq ReplayType

LocalsTyped ==
    /\ baseline \in [TopicSet -> SUBSET Messages]
    /\ results \in [Tasks -> ResultType \cup {Missing}]

LastStep == Len(TopicList) + Cardinality(Tasks) + 1

Bounded ==
    /\ clock <= MaxClock
    /\ Cycle <= MaxCycles /\ (pc = "starting" => Cycle < MaxCycles)
    /\ step \in 0 .. LastStep
    /\ metrics.gauges \in [Tasks -> GaugesType \cup {Missing}]

TypeInv == StoreTyped /\ LocalsTyped /\ Bounded

LEMMA StepsTyped ==
    /\ LastStep \in Nat /\ 0 \in 0 .. LastStep /\ 1 \in 0 .. LastStep
    /\ \A i \in DOMAIN TopicList : i \in 0 .. LastStep /\ i + 1 \in 0 .. LastStep
    /\ \A t \in Tasks : t \in 0 .. LastStep
    /\ \A s \in Nat : s - Len(TopicList) \in Tasks => s + 1 \in 0 .. LastStep
BY ListsTyped, TaskCount DEF LastStep

LEMMA InitType == Init => TypeInv
<1> SUFFICES ASSUME Init PROVE TypeInv
  OBVIOUS
<1>1. clock = 0 /\ Cycle = 0 /\ pc = "waiting"
  BY DEF Init, S!Init, Cycle
<1>2. Bounded
  BY <1>1, StepsTyped, TestCycleAssumption DEF Init, Bounded, TestCycleAssumption
<1> QED
  BY <1>2 DEF Init, TypeInv, StoreTyped, LocalsTyped

LEMMA LeastExists ==
    ASSUME NEW T, T \subseteq Nat, T # {}
    PROVE  \E x \in T : \A y \in T : x <= y
<1>1. PICK x \in T : \A y \in T : <<y, x>> \notin OpToRel(<, Nat)
  BY NatLessThanWellFounded, WFMin, Zenon
<1>2. \A y \in T : ~(y < x)
  BY <1>1 DEF OpToRel
<1> QED
  BY <1>2

LEMMA FirstMatchTyped ==
    ASSUME FetchInv, NEW r
    PROVE  FirstMatch(r) \in Pairs \cup {0}
<1> DEFINE hits == {i \in DOMAIN active : Matches(active[i], r)}
           least == CHOOSE i \in hits : \A j \in hits : i <= j
<1>1. /\ active \in Seq(Pairs) /\ DOMAIN active = 1 .. Len(active) /\ Len(active) \in Nat
      /\ \A i \in DOMAIN active : active[i] \in Pairs
  BY DEF FetchInv, FetchesTyped
<1>2. ASSUME hits # {}
      PROVE  least \in hits
  <2>1. hits \subseteq Nat
    BY <1>1
  <2>2. \E i \in hits : \A j \in hits : i <= j
    BY <1>2, <2>1, LeastExists
  <2> QED
    BY <2>2
<1> HIDE DEF least
<1> QED
  BY <1>1, <1>2 DEF FirstMatch, least

\* The steps of the fetches, the MQTT threads and the outside.
LEMMA StoreKept ==
    ASSUME SchedInv, FetchInv, TypeInv, Elsewhere
    PROVE  StoreTyped'
<1> USE DEF sharedVars, redisVars, registryVars, brokerVars, reportVars, localVars
<1>0. StoreTyped
  BY DEF TypeInv
<1>1. ASSUME NEW k \in Pairs, SyncFetch(k)
      PROVE  StoreTyped'
  <2>1. CASE SyncAborts(k) \/ SyncInvalid(k) \/ SyncRaises(k) \/ SyncStopsPaging(k)
    BY <1>0, <2>1 DEF SyncAborts, SyncInvalid, SyncRaises, SyncStopsPaging, StoreTyped
  <2>2. ASSUME NEW page \in SUBSET Answers(k),
               \/ SyncStoreFails(k, page)
               \/ \E f, junk, more : ProcessPage(k, f, page, junk, more)
        PROVE  StoreTyped'
    <3>1. /\ paged' = [paged EXCEPT ![k] = @ \cup page]
          /\ UNCHANGED <<indexed, replayed, handler, replays>>
      BY <2>2 DEF SyncStoreFails, ProcessPage
    <3>2. page \subseteq Messages
      BY PageCounted
    <3> QED
      BY <1>0, <3>1, <3>2 DEF StoreTyped
  <2> QED
    BY <1>1, <2>1, <2>2 DEF SyncFetch, SyncFirstPage, SyncNextPage
<1>2. ASSUME NEW b \in Brokers, MqttThread(b)
      PROVE  StoreTyped'
  <2>1. CASE DropReplay(b) \/ PayloadRaises(b)
    BY <1>0, <2>1 DEF DropReplay, PayloadRaises, StoreTyped
  <2>2. ASSUME NEW n, StoreUnder(handler[b], n), handler[b] \in ReplayType,
               handler' \in {[handler EXCEPT ![b] = Idle], [handler EXCEPT ![b] = Dead]},
               UNCHANGED <<indexed, paged, replays>>
        PROVE  StoreTyped'
    <3>2. handler[b].msg \in Messages
      BY <2>2 DEF ReplayType
    <3>3. replayed' \in [Pairs -> SUBSET Messages]
      BY <1>0, <2>2, <3>2 DEF StoreUnder, StoreTyped
    <3>4. handler' \in [Brokers -> ArrivalType \cup ReplayType \cup {Idle, Dead}]
      BY <1>0, <2>2 DEF StoreTyped
    <3> QED
      BY <1>0, <2>2, <3>3, <3>4 DEF StoreTyped
  <2>3. CASE StoreReplay(b)
    BY <2>2, <2>3 DEF StoreReplay
  <2>4. ASSUME NEW n \in 0 .. Len(TopicList) - 1, StoreReplayFails(b, n)
        PROVE  StoreTyped'
    BY <2>2, <2>4 DEF StoreReplayFails
  <2>5. ASSUME NEW r \in replays, ReplayArrives(b, r)
        PROVE  StoreTyped'
    <3> DEFINE a == [replay |-> r, inTime |-> clock < Deadline, counter |-> FirstMatch(r),
                     cycle |-> Cycle,
                     waiting |-> {k \in Pairs : Matches(k, r) /\ async[k].st \in Waiting}]
    <3>1. /\ handler' = [handler EXCEPT ![b] = a]
          /\ UNCHANGED <<indexed, replayed, paged, replays>>
      BY <2>5 DEF ReplayArrives
    <3>2. FirstMatch(r) \in Pairs \cup {0}
      BY FirstMatchTyped
    <3>3. Cycle \in 0 .. MaxCycles
      BY BegunTyped, TestCycleAssumption
      DEF SchedInv, Timed, TypeInv, Bounded, TestCycleAssumption
    <3>4. r \in ReplayType /\ (clock < Deadline) \in BOOLEAN
      BY <1>0 DEF StoreTyped
    <3>5. a \in ArrivalType
      BY <3>2, <3>3, <3>4 DEF ArrivalType
    <3> HIDE DEF a
    <3> QED
      BY <1>0, <3>1, <3>5 DEF StoreTyped
  <2>6. CASE RecordArrival(b)
    <3>1. /\ handler' = [handler EXCEPT ![b] = handler[b].replay]
          /\ handler[b].replay \in ReplayType
          /\ UNCHANGED <<indexed, replayed, paged, replays>>
      BY <2>6 DEF RecordArrival, ArrivalType
    <3> QED
      BY <1>0, <3>1 DEF StoreTyped
  <2> QED
    BY <1>2, <2>1, <2>3, <2>4, <2>5, <2>6 DEF MqttThread
<1>3. ASSUME NEW k \in Pairs, async[k].st = "post",
             NEW page \in SUBSET Answers(k), ServiceReplays(k, page)
      PROVE  StoreTyped'
  <2>1. TargetOf(k) \in TargetSet
    <3> DEFINE n == Len(TargetList)
    <3>1. n \in Nat \ {0} /\ DOMAIN TargetList = 1 .. n
      BY TestCycleAssumption DEF TestCycleAssumption
    <3>2. k - 1 \in Nat
      BY PairCount
    <3> HIDE DEF n
    <3>3. (k - 1) % n \in 0 .. n - 1
      BY <3>1, <3>2, QuotientBounds
    <3>4. ((k - 1) % n) + 1 \in 1 .. n
      BY <3>1, <3>3
    <3> QED
      BY <3>1, <3>4 DEF TargetOf, TargetSet, n
  <2>2. Cycle \in 1 .. MaxCycles
    <3>1. phase # "none"
      BY <1>3 DEF FetchInv, Stages, Before, NewAsync
    <3> QED
      BY <3>1, BegunTyped, TestCycleAssumption
      DEF SchedInv, Held, Timed, TypeInv, Bounded, TestCycleAssumption
  <2>3. page \subseteq Messages
    BY PageCounted
  <2>4. [centre : {TargetOf(k)}, msg : page, cycle : {Cycle}] \subseteq ReplayType
    BY <2>1, <2>2, <2>3 DEF ReplayType
  <2> QED
    BY <1>0, <1>3, <2>4 DEF ServiceReplays, StoreTyped
<1>4. CASE \/ \E k \in Pairs : AsyncFetch(k)
           \/ BoundReached \/ Terminated \/ UNCHANGED vars
  BY <1>0, <1>4 DEF AsyncFetch, Register, PostReturns, DecideNone, DecideWait, Snapshot, Leave,
     BoundReached, Terminated, vars, cycleVars, StoreTyped
<1>5. CASE \E m \in Messages : BrokerMessage(m)
  BY <1>0, <1>5 DEF BrokerMessage, StoreTyped
<1> QED
  BY <1>1, <1>2, <1>3, <1>4, <1>5 DEF Elsewhere

LEMMA RecountTyped ==
    ASSUME FetchInv, TypeInv, NEW t \in Tasks
    PROVE  Recount(t) \in ResultType
<1>1. PairOf(t) \in Pairs
  BY TaskPair
<1>2. sync[PairOf(t)] \in SyncType /\ async[PairOf(t)] \in AsyncType
  BY <1>1 DEF FetchInv, FetchesTyped
<1>3. paged[PairOf(t)] \subseteq Messages /\ replayed[PairOf(t)] \subseteq Messages
  BY <1>1 DEF TypeInv, StoreTyped
<1>4. 0 \in 0 .. MaxClaim
  BY TestCycleAssumption DEF TestCycleAssumption
<1> QED
  BY <1>2, <1>3, <1>4 DEF Recount, ResultType, SyncType, AsyncType, ZCount

LEMMA InsideType ==
    ASSUME SchedInv, CountInv, FetchInv, TypeInv, Inside
    PROVE  TypeInv'
<1> USE DEF sharedVars, redisVars, registryVars, brokerVars, reportVars
<1>1. UNCHANGED <<clock, begun, pc>>
  BY InsideFrame DEF schedVars
<1>2. StoreTyped'
  BY DEF Inside, ReadBaseline, ClearReplay, ClearSync, Collect, CollectFails, Hold,
         PublishReceived, PublishResult, TypeInv, StoreTyped
<1>3. LocalsTyped'
  <2>1. CASE ReadBaseline
    <3>1. \A set : ZCount({m \in indexed : set \in Indexed[m]}) \subseteq Messages
      BY DEF ZCount, TypeInv, StoreTyped
    <3> QED
      BY <2>1, <3>1 DEF ReadBaseline, TypeInv, LocalsTyped
  <2>2. CASE Collect
    <3>1. step \in Tasks
      BY <2>2 DEF Collect, FetchInv, Stages
    <3>2. Recount(step) \in ResultType
      BY <3>1, RecountTyped
    <3> QED
      BY <2>2, <3>2 DEF Collect, TypeInv, LocalsTyped
  <2>3. CASE ~ReadBaseline /\ ~Collect
    BY <2>3 DEF Inside, ClearReplay, ClearSync, CollectFails, Hold, PublishReceived,
                PublishResult, TypeInv, LocalsTyped
  <2> QED
    BY <2>1, <2>2, <2>3
<1>4. step' \in 0 .. LastStep
  <2>1. CASE ReadBaseline
    BY <2>1, StepsTyped DEF ReadBaseline, FetchInv, Stages
  <2>2. CASE Collect
    <3>1. step \in Tasks /\ step # Cardinality(Tasks) => step + 1 \in 0 .. LastStep
      BY StepsTyped, TaskCount
    <3> QED
      BY <2>2, <3>1, StepsTyped DEF Collect, FetchInv, Stages
  <2>3. CASE PublishReceived
    BY <2>3, StepsTyped DEF PublishReceived
  <2>4. CASE PublishResult
    BY <2>4, StepsTyped DEF PublishResult, FetchInv, Stages
  <2>5. CASE ClearReplay \/ ClearSync \/ CollectFails \/ Hold
    BY <2>5, StepsTyped DEF ClearReplay, ClearSync, CollectFails, Hold, TypeInv, Bounded
  <2> QED
    BY <2>1, <2>2, <2>3, <2>4, <2>5 DEF Inside
<1>5. metrics'.gauges \in [Tasks -> GaugesType \cup {Missing}]
  <2>1. metrics.gauges \in [Tasks -> GaugesType \cup {Missing}]
    BY DEF TypeInv, Bounded
  <2>2. CASE PublishResult
    <3>1. PICK t \in Tasks :
             metrics' = IF results[t] = Missing THEN metrics ELSE
               [metrics EXCEPT !.fetched[t] = Tally(@, results[t].counted),
                               !.gauges[t] = [aborted |-> results[t].aborted,
                                              flagged |-> results[t].flagged],
                               !.fetchedIn[t] = Cycle]
      BY <2>2 DEF PublishResult
    <3>2. CASE results[t] = Missing
      BY <2>1, <3>1, <3>2
    <3>3. CASE results[t] # Missing
      <4>1. metrics'.gauges = [metrics.gauges EXCEPT
                                 ![t] = [aborted |-> results[t].aborted,
                                         flagged |-> results[t].flagged]]
        BY <3>1, <3>3 DEF CountInv, CountersTyped
      <4>2. results[t] \in ResultType
        BY <3>3 DEF TypeInv, LocalsTyped
      <4>3. [aborted |-> results[t].aborted, flagged |-> results[t].flagged] \in GaugesType
        BY <4>2 DEF ResultType, GaugesType
      <4> QED
        BY <2>1, <4>1, <4>3
    <3> QED
      BY <3>2, <3>3
  <2>3. CASE PublishReceived
    <3>1. metrics'.gauges = metrics.gauges
      BY <2>3 DEF PublishReceived, CountInv, CountersTyped
    <3> QED
      BY <2>1, <3>1
  <2>4. CASE ~PublishResult /\ ~PublishReceived
    <3>1. UNCHANGED metrics
      BY <2>4 DEF Inside, ReadBaseline, ClearReplay, ClearSync, Collect, CollectFails, Hold
    <3> QED
      BY <2>1, <3>1
  <2> QED
    BY <2>2, <2>3, <2>4
<1>6. Bounded'
  BY <1>1, <1>4, <1>5 DEF TypeInv, Bounded, Cycle
<1> QED
  BY <1>2, <1>3, <1>6 DEF TypeInv

LEMMA TypeKept ==
    SchedInv /\ CountInv /\ FetchInv /\ TypeInv /\ [Next]_vars => TypeInv'
<1> SUFFICES ASSUME SchedInv, CountInv, FetchInv, TypeInv, [Next]_vars PROVE TypeInv'
  OBVIOUS
<1> USE DEF cycleVars, localVars, loopVars, sharedVars, redisVars, brokerVars, reportVars
<1>1. CASE Elsewhere
  <2>1. UNCHANGED <<clock, begun, pc, step, baseline, results, metrics>>
    BY <1>1, ElsewhereFrame DEF schedVars
  <2> QED
    BY <1>1, <2>1, StoreKept DEF TypeInv, LocalsTyped, Bounded, Cycle
<1>2. CASE Outside
  <2>1. UNCHANGED <<indexed, replayed, paged, handler, replays, step, baseline, results, metrics>>
    BY <1>2, OutsideFrame
  <2>2. /\ UNCHANGED begun /\ clock' <= MaxClock
        /\ pc' = "starting" => Cycle < MaxCycles
    <3>1. CASE WaitTimesOut \/ WaitStopped \/ Stop
      BY <3>1 DEF WaitTimesOut, WaitStopped, Stop, S!WaitTimesOut, S!WaitStopped, S!Stop,
                  TypeInv, Bounded
    <3>2. CASE ReadStarted
      BY <3>2 DEF ReadStarted, S!ReadStarted, TypeInv, Bounded
    <3>3. CASE Tick
      <4>1. clock \in Nat /\ MaxClock \in Nat
        BY TestCycleAssumption DEF SchedInv, Timed, TestCycleAssumption
      <4> QED
        BY <3>3, <4>1 DEF Tick, S!Tick, TypeInv, Bounded
    <3> QED
      BY <1>2, <3>1, <3>2, <3>3 DEF Outside
  <2> QED
    BY <2>1, <2>2 DEF TypeInv, StoreTyped, LocalsTyped, Bounded, Cycle
<1>3. CASE OpenWindow
  <2>1. /\ UNCHANGED <<indexed, replayed, paged, handler, replays, baseline, results, metrics>>
        /\ step' = 1
    BY <1>3 DEF OpenWindow
  <2>2. /\ UNCHANGED clock /\ pc = "starting" /\ pc' = "cycle"
        /\ \E c : begun' = Append(begun, c)
    BY <1>3 DEF OpenWindow, S!BeginCycle
  <2>3. Cycle \in Nat /\ Cycle' = Cycle + 1
    BY <2>2 DEF SchedInv, Timed, Cycle
  <2>4. Cycle' <= MaxCycles
    BY <2>2, <2>3, TestCycleAssumption DEF TypeInv, Bounded, TestCycleAssumption
  <2> QED
    BY <2>1, <2>2, <2>4, StepsTyped DEF TypeInv, StoreTyped, LocalsTyped, Bounded
<1>4. CASE Inside
  BY <1>4, InsideType
<1>5. CASE Leaving
  <2>1. PICK p \in BOOLEAN : LeaveCycle(p)
    BY <1>5 DEF Leaving, PreparationFails, Unwound, Published
  <2>2. /\ UNCHANGED <<clock, begun, indexed, replayed, paged, handler, replays, metrics>>
        /\ step' = 0 /\ baseline' = [t \in TopicSet |-> {}]
        /\ results' = [t \in Tasks |-> Missing]
    BY <2>1 DEF LeaveCycle
  <2>3. pc' # "starting"
    BY <1>5, LeavingEnds DEF SchedInv, S!Complete, S!Fail, S!AfterCycle
  <2> QED
    BY <2>2, <2>3, StepsTyped DEF TypeInv, StoreTyped, LocalsTyped, Bounded, Cycle
<1> QED
  BY <1>1, <1>2, <1>3, <1>4, <1>5, NextSplit

LEMMA ActiveBounded ==
    ASSUME FetchInv
    PROVE  Len(active) <= Cardinality(Pairs)
<1>1. /\ active \in Seq(Pairs) /\ Distinct(active) /\ Len(active) \in Nat
      /\ DOMAIN active = 1 .. Len(active)
  BY DEF FetchInv, FetchesTyped
<1>2. active \in Injection(1 .. Len(active), Pairs)
  BY <1>1 DEF Distinct, Injection, IsInjective
<1>3. PICK p \in Nat : Pairs = 1 .. p
  BY PairCount
<1>4. IsFiniteSet(Pairs)
  BY <1>3, FS_Interval
<1>5. Cardinality(1 .. Len(active)) <= Cardinality(Pairs)
  BY <1>2, <1>4, FS_Injection
<1>6. Cardinality(1 .. Len(active)) = Len(active)
  <2>1. Cardinality(1 .. Len(active)) = IF 1 > Len(active) THEN 0 ELSE Len(active) - 1 + 1
    BY <1>1, FS_Interval
  <2> QED
    BY <1>1, <2>1
<1> QED
  BY <1>5, <1>6

CycleInv == SchedInv /\ CountInv /\ FetchInv /\ TypeInv

LEMMA CycleInductive ==
    /\ Init => CycleInv
    /\ CycleInv /\ [Next]_vars => CycleInv'
BY SchedInductive, InitCount, CountKept, InitFetch, FetchKept, InitType, TypeKept DEF CycleInv

\* Every variable keeps its type and every bound holds.
THEOREM TestCycleTyped == Spec => []TypeOK
<1>1. ASSUME CycleInv
      PROVE  TypeOK
  <2>1. clock \in 0 .. MaxClock /\ Cycle \in Nat /\ Cycle <= MaxCycles
    BY <1>1, BegunTyped, TestCycleAssumption
    DEF CycleInv, SchedInv, Timed, TypeInv, Bounded, TestCycleAssumption
  <2>2. /\ \A topic \in TopicSet : metrics.receivedIn[topic] \in Nat
        /\ \A topic \in TopicSet : metrics.receivedIn[topic] <= Cycle
        /\ \A t \in Tasks : metrics.fetchedIn[t] \in Nat /\ metrics.fetchedIn[t] <= Cycle
    BY <1>1 DEF CycleInv, CountInv, CountersTyped, NotYet
  <2>3. /\ metrics.receivedIn \in [TopicSet -> 0 .. MaxCycles]
        /\ metrics.fetchedIn \in [Tasks -> 0 .. MaxCycles]
    <3>1. MaxCycles \in Nat
      BY TestCycleAssumption DEF TestCycleAssumption
    <3> QED
      BY <1>1, <2>1, <2>2, <3>1 DEF CycleInv, CountInv, CountersTyped
  <2>4. /\ metrics.received \in [TopicSet -> [Messages -> Nat]]
        /\ metrics.fetched \in [Tasks -> [Messages -> Nat]]
        /\ metrics.gauges \in [Tasks -> GaugesType \cup {Missing}]
    BY <1>1 DEF CycleInv, CountInv, CountersTyped, TypeInv, Bounded
  <2>5. /\ phase \in {"none", "baseline", "clear", "clear_sync", "collect", "unwind", "hold",
                      "publish"}
        /\ (phase # "none") <=> (pc = "cycle")
        /\ step \in 0 .. Len(TopicList) + Cardinality(Tasks) + 1
    BY <1>1 DEF CycleInv, SchedInv, Held, FetchInv, Stages, Before, TypeInv, Bounded, LastStep
  <2>6. /\ sync \in [Pairs -> SyncType] /\ async \in [Pairs -> AsyncType]
        /\ first \in [Pairs -> BOOLEAN] /\ active \in Seq(Pairs)
        /\ \A i, j \in DOMAIN active : active[i] = active[j] => i = j
        /\ Len(active) <= Cardinality(Pairs)
    BY <1>1, ActiveBounded DEF CycleInv, FetchInv, FetchesTyped, Distinct
  <2>7. StoreTyped /\ LocalsTyped
    BY <1>1 DEF CycleInv, TypeInv
  <2> QED
    BY <2>1, <2>3, <2>4, <2>5, <2>6, <2>7 DEF TypeOK, StoreTyped, LocalsTyped
<1>2. CycleInv => TypeOK
  BY <1>1
<1> QED
  BY <1>2, CycleInductive, PTL DEF Spec

-----------------------------------------------------------------------------
(* An abort means that messages were due and none was heard of.            *)

\* A replay message is for one topic at most.
NoOverlap == \A m \in Messages : \A a, b \in Routed[m] : a = b

\* A thread in handle_replay holds the counter of the one waiting fetch its
\* message is for, or of none.
HoldsCounter(k, a) ==
    /\ k = a.counter \/ k \in a.waiting => async[k].st # "register"
    /\ async[k].st \in Waiting => (k \in a.waiting <=> k = a.counter)

ArrivalInv ==
    \A b \in Brokers : handler[b] \in ArrivalType =>
        /\ handler[b].cycle <= Cycle
        /\ phase # "none" /\ handler[b].cycle = Cycle =>
             \A k \in Pairs : HoldsCounter(k, handler[b])

\* The counter of a waiting fetch tells whether its replay was heard of; its
\* decision waits on what was due and its verdict is about both.
AbortInv ==
    \A k \in Pairs :
        /\ async[k].st = "register" => k \notin heard
        /\ async[k].st \in Waiting => (first[k] <=> k \in heard)
        /\ async[k].st = "await" => MessagesExpected(k)
        /\ async[k].st \in Decided =>
             (async[k].aborted <=> MessagesExpected(k) /\ k \notin heard)

LEMMA AbortFrame ==
    ASSUME AbortInv, UNCHANGED <<sync, async, first, heard, baseline>>
    PROVE  AbortInv'
BY DEF AbortInv, MessagesExpected

LEMMA ArrivalFrame ==
    ASSUME ArrivalInv, UNCHANGED <<begun, handler>>,
           phase' # "none" => phase # "none" /\ async' = async
    PROVE  ArrivalInv'
BY DEF ArrivalInv, HoldsCounter, Cycle

LEMMA SyncAbort ==
    ASSUME FetchInv, AbortInv, NEW k \in Pairs, SyncFetch(k)
    PROVE  AbortInv'
<1>1. /\ ~TaskDone(SyncTask(k))
      /\ UNCHANGED <<async, first, heard, baseline>>
  BY SyncStep
<1>2. PICK f : sync' = [sync EXCEPT ![k] = f]
  BY SyncStep
<1>3. \A j \in Pairs : sync'[j] = IF j = k THEN f ELSE sync[j]
  BY <1>2 DEF FetchInv, FetchesTyped
<1>4. async[k].st \notin {"await", "leave", "done"}
  BY <1>1, PairTasks DEF TaskDone, ProviderReady, FetchInv, FetchStages
<1> QED
  BY <1>1, <1>3, <1>4 DEF AbortInv, MessagesExpected, Decided

LEMMA AsyncAbort ==
    ASSUME FetchInv, AbortInv, NEW k \in Pairs, AsyncFetch(k)
    PROVE  AbortInv'
<1>1. UNCHANGED <<sync, heard, baseline>>
  BY AsyncStep
<1>2. \A j \in Pairs : MessagesExpected(j)' <=> MessagesExpected(j)
  BY <1>1 DEF MessagesExpected
<1>3. /\ async \in [Pairs -> AsyncType] /\ first \in [Pairs -> BOOLEAN]
      /\ async[k].aborted => async[k].st \in Decided
  BY DEF FetchInv, FetchesTyped, FetchStages
<1> USE DEF AbortInv, Waiting, Decided
<1>4. CASE Register(k)
  <2>1. /\ async[k].st = "register"
        /\ \A j \in Pairs : /\ async'[j].st = IF j = k THEN "post" ELSE async[j].st
                            /\ async'[j].aborted = async[j].aborted
                            /\ first'[j] = IF j = k THEN FALSE ELSE first[j]
    BY <1>3, <1>4 DEF Register, AsyncType
  <2> QED
    BY <1>1, <1>2, <2>1
<1>5. CASE PostReturns(k) \/ DecideWait(k)
  <2>1. /\ async[k].st \in {"post", "decide"} /\ UNCHANGED first
        /\ \A j \in Pairs : /\ j # k => async'[j].st = async[j].st
                            /\ async'[j].aborted = async[j].aborted
        /\ async'[k].st \in {"decide", "await"}
        /\ async'[k].st = "await" => MessagesExpected(k)
    BY <1>3, <1>5 DEF PostReturns, DecideWait, AsyncType, sharedVars, registryVars
  <2> QED
    BY <1>1, <1>2, <2>1
<1>6. CASE DecideNone(k)
  <2>1. /\ async[k].st = "decide" /\ UNCHANGED first /\ ~MessagesExpected(k)
        /\ \A j \in Pairs : /\ async'[j].st = IF j = k THEN "leave" ELSE async[j].st
                            /\ async'[j].aborted = async[j].aborted
    BY <1>3, <1>6 DEF DecideNone, AsyncType, sharedVars, registryVars
  <2> QED
    BY <1>1, <1>2, <1>3, <2>1
<1>7. CASE Snapshot(k)
  <2>1. /\ async[k].st = "await" /\ UNCHANGED first
        /\ \A j \in Pairs :
             /\ async'[j].st = IF j = k THEN "leave" ELSE async[j].st
             /\ async'[j].aborted = IF j = k THEN ~first[k] ELSE async[j].aborted
    BY <1>3, <1>7 DEF Snapshot, AsyncType, sharedVars, registryVars
  <2> QED
    BY <1>1, <1>2, <2>1
<1>8. CASE Leave(k)
  <2>1. /\ async[k].st = "leave" /\ UNCHANGED first
        /\ \A j \in Pairs : /\ async'[j].st = IF j = k THEN "done" ELSE async[j].st
                            /\ async'[j].aborted = async[j].aborted
    BY <1>3, <1>8 DEF Leave, AsyncType
  <2> QED
    BY <1>1, <1>2, <2>1
<1> QED
  BY <1>4, <1>5, <1>6, <1>7, <1>8 DEF AsyncFetch

\* The only way out of "register" is into the registry, and what is decided
\* stays so.
LEMMA AsyncArrival ==
    ASSUME FetchInv, ArrivalInv, NEW k \in Pairs, AsyncFetch(k), UNCHANGED begun
    PROVE  ArrivalInv'
<1>1. UNCHANGED <<phase, handler>>
  BY AsyncStep
<1>2. PICK f \in AsyncType : AsyncOwn(k, f)
  BY AsyncStep
<1>3. /\ \A j \in Pairs : j # k => async'[j] = async[j]
      /\ async'[k] = f /\ f.st # "register"
  BY <1>2 DEF AsyncOwn, FetchInv, FetchesTyped, Pending
<1>4. f.st \in Waiting => async[k].st \in Waiting \cup {"register"}
  <2>1. async[k].st \notin {"leave", "done"} \/ f.st \notin Waiting
    BY <1>3 DEF AsyncFetch, Register, PostReturns, DecideNone, DecideWait, Snapshot, Leave,
       FetchInv, FetchesTyped, AsyncType, Waiting
  <2> QED
    BY <2>1 DEF FetchInv, FetchesTyped, AsyncType, Waiting
<1>5. ASSUME NEW j \in Pairs, NEW a, HoldsCounter(j, a)
      PROVE  HoldsCounter(j, a)'
  BY <1>3, <1>4, <1>5 DEF HoldsCounter, Waiting
<1> QED
  BY <1>1, <1>5 DEF ArrivalInv, Cycle

\* A message is for one channel at most, and handle_replay finds it.
LEMMA FirstMatchIsFor ==
    ASSUME NoOverlap, FetchInv, NEW r, r.msg \in Messages
    PROVE  /\ FirstMatch(r) \in Pairs \cup {0}
           /\ \A k \in Pairs : FirstMatch(r) = k <=> In(k, active) /\ Matches(k, r)
<1> DEFINE hits == {i \in DOMAIN active : Matches(active[i], r)}
           least == CHOOSE i \in hits : \A j \in hits : i <= j
<1>1. /\ Distinct(active) /\ DOMAIN active \subseteq Nat
      /\ \A i \in DOMAIN active : active[i] \in Pairs
  BY DEF FetchInv, FetchesTyped
<1>2. FirstMatch(r) = IF hits = {} THEN 0 ELSE active[least]
  BY DEF FirstMatch
<1>3. ASSUME NEW i \in Pairs, NEW j \in Pairs, Matches(i, r), Matches(j, r)
      PROVE  i = j
  BY <1>3, PairsDistinct DEF Matches, NoOverlap
<1>4. \A i, j \in hits : i = j
  BY <1>1, <1>3 DEF Distinct
<1>5. ASSUME hits # {}
      PROVE  least \in hits
  <2>1. PICK i \in hits : TRUE
    BY <1>5
  <2>2. i \in Nat /\ \A j \in hits : i <= j
    BY <1>1, <1>4
  <2> QED
    BY <2>1, <2>2
<1> HIDE DEF least
<1>6. 0 \notin Pairs
  BY DEF Pairs
<1>7. ASSUME NEW k \in Pairs
      PROVE  FirstMatch(r) = k <=> In(k, active) /\ Matches(k, r)
  <2>1. CASE In(k, active) /\ Matches(k, r)
    <3>1. PICK i \in DOMAIN active : active[i] = k
      BY <2>1 DEF In
    <3>2. i \in hits
      BY <2>1, <3>1
    <3>3. least = i
      BY <1>4, <1>5, <3>2
    <3> QED
      BY <1>2, <2>1, <3>1, <3>2, <3>3
  <2>2. CASE ~(In(k, active) /\ Matches(k, r))
    <3>1. hits # {} => active[least] # k
      BY <1>5, <2>2 DEF In
    <3> QED
      BY <1>2, <1>6, <2>2, <3>1
  <2> QED
    BY <2>1, <2>2
<1>8. FirstMatch(r) \in Pairs \cup {0}
  BY <1>1, <1>2, <1>5
<1> QED
  BY <1>7, <1>8

LEMMA MqttFrame ==
    ASSUME NEW b \in Brokers, MqttThread(b)
    PROVE  UNCHANGED <<phase, sync, async, baseline, begun>>
BY DEF MqttThread, ReplayArrives, RecordArrival, StoreReplay, DropReplay, PayloadRaises,
       StoreReplayFails, schedVars, localVars, loopVars, fetchVars

\* The copy: the thread's own record only.
LEMMA CopyArrival ==
    ASSUME NoOverlap, CycleInv, ArrivalInv, NEW b \in Brokers, NEW r \in replays,
           ReplayArrives(b, r)
    PROVE  ArrivalInv'
<1> DEFINE a == [replay |-> r, inTime |-> clock < Deadline, counter |-> FirstMatch(r),
                 cycle |-> Cycle,
                 waiting |-> {k \in Pairs : Matches(k, r) /\ async[k].st \in Waiting}]
<1>1. handler' = [handler EXCEPT ![b] = a]
  BY DEF ReplayArrives
<1>2. UNCHANGED <<phase, async, begun>>
  BY MqttFrame DEF MqttThread
<1>3. FetchInv /\ r.msg \in Messages /\ Cycle \in Nat
  BY BegunTyped DEF CycleInv, TypeInv, StoreTyped, ReplayType, SchedInv, Timed
<1>4. ASSUME NEW k \in Pairs
      PROVE  HoldsCounter(k, a)
  <2>1. FirstMatch(r) = k <=> In(k, active) /\ Matches(k, r)
    BY <1>3, FirstMatchIsFor
  <2>2. In(k, active) <=> async[k].st \in Pending
    BY <1>3 DEF FetchInv, FetchStages
  <2> QED
    BY <2>1, <2>2 DEF HoldsCounter, Waiting, Pending
<1>5. a.cycle = Cycle
  OBVIOUS
<1> HIDE DEF a
<1>6. \A c \in Brokers : handler'[c] = IF c = b THEN a ELSE handler[c]
  BY <1>1 DEF CycleInv, TypeInv, StoreTyped
<1>7. ASSUME NEW c \in Brokers, handler'[c] \in ArrivalType
      PROVE  /\ handler'[c].cycle <= Cycle
             /\ phase # "none" /\ handler'[c].cycle = Cycle =>
                  \A k \in Pairs : HoldsCounter(k, handler'[c])
  BY <1>3, <1>4, <1>5, <1>6, <1>7 DEF ArrivalInv
<1> QED
  BY <1>2, <1>7 DEF ArrivalInv, HoldsCounter, Cycle

\* Handling goes on: the others hold what they held.
LEMMA LaterArrival ==
    ASSUME CycleInv, ArrivalInv, NEW b \in Brokers,
           MqttThread(b), ~\E r \in replays : ReplayArrives(b, r)
    PROVE  ArrivalInv'
<1>1. UNCHANGED <<phase, async, begun>>
  BY MqttFrame
<1>2. PICK h \in ReplayType \cup {Idle, Dead} : handler' = [handler EXCEPT ![b] = h]
  BY DEF MqttThread, RecordArrival, ArrivalType, StoreReplay, DropReplay, PayloadRaises,
     StoreReplayFails
<1>3. h \notin ArrivalType
  <2>1. CASE h \in ReplayType
    <3>1. DOMAIN h = {"centre", "msg", "cycle"}
      BY <2>1 DEF ReplayType
    <3>2. h \in ArrivalType => DOMAIN h = {"replay", "inTime", "counter", "cycle", "waiting"}
      BY DEF ArrivalType
    <3>3. "replay" \notin {"centre", "msg", "cycle"}
      OBVIOUS
    <3> QED
      BY <3>1, <3>2, <3>3
  <2> QED
    BY <2>1, HandlerAssumption
<1>4. \A c \in Brokers : handler'[c] = IF c = b THEN h ELSE handler[c]
  BY <1>2 DEF CycleInv, TypeInv, StoreTyped
<1> QED
  BY <1>1, <1>3, <1>4 DEF ArrivalInv, HoldsCounter, Cycle

LEMMA RecordAbort ==
    ASSUME FetchInv, ArrivalInv, AbortInv, NEW b \in Brokers, RecordArrival(b)
    PROVE  AbortInv'
<1> DEFINE a == handler[b]
           told == {k \in a.waiting : a.cycle = Cycle /\ async[k].st \in Waiting}
<1>1. /\ a \in ArrivalType /\ heard' = heard \cup told
      /\ first' = IF a.counter \in Pairs /\ a.cycle = Cycle
                    THEN [first EXCEPT ![a.counter] = TRUE] ELSE first
      /\ UNCHANGED <<sync, async, baseline>>
  BY DEF RecordArrival, localVars, loopVars, fetchVars
<1>2. first \in [Pairs -> BOOLEAN]
  BY DEF FetchInv, FetchesTyped
<1>3. a.cycle = Cycle /\ phase # "none" => \A k \in Pairs : HoldsCounter(k, a)
  BY <1>1 DEF ArrivalInv
<1> HIDE DEF a
<1>4. ASSUME NEW k \in Pairs, async[k].st \in Waiting
      PROVE  first'[k] <=> k \in heard'
  <2>1. phase # "none" /\ (first[k] <=> k \in heard)
    BY <1>4 DEF FetchInv, Stages, Before, NewAsync, Waiting, AbortInv
  <2>2. CASE a.cycle = Cycle
    <3>1. k \in a.waiting <=> k = a.counter
      BY <1>3, <1>4, <2>1, <2>2 DEF HoldsCounter
    <3>2. k \in told <=> k \in a.waiting
      BY <1>4, <2>2
    <3>3. first'[k] <=> first[k] \/ k = a.counter
      BY <1>1, <1>2, <2>2
    <3> QED
      BY <1>1, <2>1, <3>1, <3>2, <3>3
  <2>3. CASE a.cycle # Cycle
    BY <1>1, <2>1, <2>3
  <2> QED
    BY <2>2, <2>3
<1>5. \A k \in Pairs : async[k].st \notin Waiting => (k \in heard' <=> k \in heard)
  BY <1>1
<1>6. \A k \in Pairs : MessagesExpected(k)' <=> MessagesExpected(k)
  BY <1>1 DEF MessagesExpected
<1> QED
  BY <1>1, <1>4, <1>5, <1>6 DEF AbortInv, Waiting, Decided

LEMMA ElsewhereAbort ==
    ASSUME NoOverlap, CycleInv, ArrivalInv, AbortInv, Elsewhere
    PROVE  ArrivalInv' /\ AbortInv'
<1> USE DEF CycleInv
<1>1. UNCHANGED <<phase, baseline, begun>>
  BY ElsewhereFrame DEF loopVars, schedVars
<1>2. CASE \E k \in Pairs : SyncFetch(k)
  <2>1. UNCHANGED <<async, handler>>
    BY <1>2, SyncStep
  <2> QED
    BY <1>1, <1>2, <2>1, SyncAbort, ArrivalFrame
<1>3. CASE \E k \in Pairs : AsyncFetch(k)
  BY <1>1, <1>3, AsyncAbort, AsyncArrival
<1>4. ASSUME NEW b \in Brokers, MqttThread(b)
      PROVE  ArrivalInv' /\ AbortInv'
  <2>1. ArrivalInv'
    BY <1>4, CopyArrival, LaterArrival
  <2>2. CASE RecordArrival(b)
    BY <2>1, <2>2, RecordAbort
  <2>3. CASE ~RecordArrival(b)
    <3>1. UNCHANGED <<sync, async, baseline>>
      BY <1>4, MqttFrame
    <3>2. UNCHANGED <<first, heard>>
      BY <1>4, <2>3 DEF MqttThread, ReplayArrives, StoreReplay, DropReplay, PayloadRaises,
         StoreReplayFails, registryVars, reportVars, historyVars
    <3> QED
      BY <2>1, <3>1, <3>2, AbortFrame
  <2> QED
    BY <2>2, <2>3
<1>5. CASE \/ \E k \in Pairs : \E page \in SUBSET Answers(k) : ServiceReplays(k, page)
           \/ \E m \in Messages : BrokerMessage(m)
           \/ BoundReached \/ Terminated \/ UNCHANGED vars
  <2>1. UNCHANGED <<sync, async, first, heard, handler>>
    BY <1>5 DEF ServiceReplays, BrokerMessage, BoundReached, Terminated, vars, cycleVars, localVars,
       fetchVars, sharedVars, registryVars, brokerVars, reportVars, historyVars
  <2> QED
    BY <1>1, <2>1, AbortFrame, ArrivalFrame
<1> QED
  BY <1>2, <1>3, <1>4, <1>5 DEF Elsewhere

LEMMA AbortKept ==
    ASSUME NoOverlap
    PROVE  CycleInv /\ ArrivalInv /\ AbortInv /\ [Next]_vars => ArrivalInv' /\ AbortInv'
<1> SUFFICES ASSUME CycleInv, ArrivalInv, AbortInv, [Next]_vars PROVE ArrivalInv' /\ AbortInv'
  OBVIOUS
<1> USE DEF cycleVars, localVars, loopVars, fetchVars, sharedVars, registryVars, brokerVars,
            reportVars, historyVars
<1>1. CASE Outside
  <2>1. UNCHANGED begun
    BY <1>1 DEF Outside, WaitTimesOut, WaitStopped, ReadStarted, Stop, Tick, S!WaitTimesOut,
                S!WaitStopped, S!ReadStarted, S!Stop, S!Tick
  <2> QED
    BY <1>1, <2>1, OutsideFrame, AbortFrame, ArrivalFrame
<1>2. CASE OpenWindow
  <2>1. /\ UNCHANGED <<sync, async, first, heard, baseline, handler>>
        /\ \E c : begun' = Append(begun, c)
    BY <1>2 DEF OpenWindow, S!BeginCycle
  <2>2. Cycle \in Nat /\ Cycle' = Cycle + 1
    BY <2>1 DEF CycleInv, SchedInv, Timed, Cycle
  <2>3. ASSUME NEW b \in Brokers, handler[b] \in ArrivalType
        PROVE  handler[b].cycle < Cycle'
    <3>1. handler[b].cycle \in Nat /\ handler[b].cycle <= Cycle
      BY <2>3, TestCycleAssumption DEF ArrivalType, ArrivalInv, TestCycleAssumption
    <3> QED
      BY <2>2, <3>1
  <2>4. ArrivalInv'
    <3>1. \A b \in Brokers : handler[b] \in ArrivalType =>
            handler[b].cycle <= Cycle' /\ handler[b].cycle # Cycle'
      BY <2>2, <2>3, TestCycleAssumption DEF ArrivalType, TestCycleAssumption
    <3> QED
      BY <2>1, <3>1 DEF ArrivalInv
  <2> QED
    BY <2>1, <2>4, AbortFrame
<1>3. CASE Inside
  <2>1. UNCHANGED <<sync, async, first, heard, handler, begun>> /\ phase # "none"
    BY <1>3, InsideFrame DEF schedVars, Inside, ReadBaseline, ClearReplay, ClearSync, Collect,
       CollectFails, Hold, PublishReceived, PublishResult
  <2>2. ArrivalInv'
    BY <2>1, ArrivalFrame
  <2>3. CASE ReadBaseline
    <3>1. \A k \in Pairs : async[k].st = "register"
      BY <2>3 DEF ReadBaseline, CycleInv, FetchInv, Stages, Before, NewAsync
    <3> QED
      BY <2>1, <2>2, <3>1 DEF AbortInv, Waiting, Decided
  <2>4. CASE ~ReadBaseline
    <3>1. UNCHANGED baseline
      BY <1>3, <2>4 DEF Inside, ClearReplay, ClearSync, Collect, CollectFails, Hold,
         PublishReceived, PublishResult
    <3> QED
      BY <2>1, <2>2, <3>1, AbortFrame
  <2> QED
    BY <2>3, <2>4
<1>4. CASE Leaving
  <2>1. /\ async' = [k \in Pairs |-> NewAsync] /\ heard' = {} /\ phase' = "none"
        /\ UNCHANGED <<handler, begun>>
    BY <1>4 DEF Leaving, PreparationFails, Unwound, Published, LeaveCycle
  <2>2. AbortInv'
    BY <2>1 DEF AbortInv, NewAsync, Waiting, Decided
  <2> QED
    BY <2>1, <2>2, ArrivalFrame
<1> QED
  BY <1>1, <1>2, <1>3, <1>4, ElsewhereAbort, NextSplit

\* When no replay message is for two topics, an asynchronous fetch aborts
\* exactly when messages were due and handle_replay had returned for none of
\* those that came in for it, at the moment it took its last snapshot.
THEOREM TestCycleAbortsUndelivered ==
    ASSUME NoOverlap
    PROVE  Spec => []AbortedIffUndelivered
<1> DEFINE IInv == CycleInv /\ ArrivalInv /\ AbortInv
<1>1. Init => IInv
  <2>1. Init => ArrivalInv
    BY HandlerAssumption DEF Init, ArrivalInv
  <2>2. Init => AbortInv
    BY DEF Init, AbortInv, NewAsync, Waiting, Decided
  <2> QED
    BY <2>1, <2>2, CycleInductive
<1>2. IInv /\ [Next]_vars => IInv'
  BY CycleInductive, AbortKept
<1>3. IInv => AbortedIffUndelivered
  BY DEF CycleInv, FetchInv, FetchesTyped, FetchStages, SyncType, AbortInv, AbortedIffUndelivered,
         MessagesExpected, Decided
<1> QED
  BY <1>1, <1>2, <1>3, PTL DEF Spec

-----------------------------------------------------------------------------
(* A fetch that passes the numberMatched check.                            *)

\* A fetch that has not raised has seen all it has stored, and its result is
\* that of the fetch as it ended.
ClaimInv ==
    \A k \in Pairs :
        /\ phase \notin Before /\ sync[k].st # "raised" =>
             Cardinality(paged[k]) <= sync[k].seen
        /\ LET r == results[SyncTask(k)] IN
           r # Missing =>
             /\ phase \notin Before /\ sync[k].st = "done"
             /\ r.counted \subseteq paged[k] /\ r.claimed = sync[k].claimed
             /\ sync[k].valid /\ ~r.flagged => sync[k].seen = sync[k].claimed

LEMMA PagesFinite ==
    ASSUME TypeInv, NEW k \in Pairs
    PROVE  IsFiniteSet(paged[k]) /\ Cardinality(paged[k]) \in Nat
<1>1. paged[k] \in SUBSET Messages
  BY DEF TypeInv, StoreTyped
<1> QED
  BY <1>1, FS_Subset, FS_CardinalityType, TestCycleAssumption DEF TestCycleAssumption

\* What a page adds to the set of its fetch, the fetch has seen.
LEMMA PageSeen ==
    ASSUME FetchInv, TypeInv, NEW k \in Pairs, SyncFetch(k),
           sync'[k].st # "raised", Cardinality(paged[k]) <= sync[k].seen
    PROVE  Cardinality(paged'[k]) <= sync'[k].seen
<1>1. /\ sync \in [Pairs -> SyncType] /\ paged \in [Pairs -> SUBSET Messages]
      /\ sync[k].seen \in Nat
  BY DEF FetchInv, FetchesTyped, TypeInv, StoreTyped, SyncType
<1>2. CASE SyncAborts(k) \/ SyncInvalid(k) \/ SyncStopsPaging(k)
  BY <1>1, <1>2 DEF SyncAborts, SyncInvalid, SyncStopsPaging, SyncType, sharedVars, redisVars
<1>3. CASE SyncRaises(k) \/ \E page \in SUBSET Answers(k) : SyncStoreFails(k, page)
  BY <1>1, <1>3 DEF SyncRaises, SyncStoreFails, SyncType
<1>4. ASSUME NEW page \in SUBSET Answers(k), NEW junk \in Nat, NEW more, NEW f,
             f.seen = sync[k].seen,
             paged' = [paged EXCEPT ![k] = @ \cup page],
             sync'[k].seen = f.seen + Cardinality(page) + junk
      PROVE  Cardinality(paged'[k]) <= sync'[k].seen
  <2>1. paged'[k] = paged[k] \cup page
    BY <1>1, <1>4
  <2>2. IsFiniteSet(paged[k]) /\ Cardinality(paged[k]) \in Nat
    BY PagesFinite
  <2>3. IsFiniteSet(page) /\ Cardinality(page) \in Nat
    <3>1. page \in SUBSET Messages
      BY PageCounted
    <3> QED
      BY <3>1, FS_Subset, FS_CardinalityType, TestCycleAssumption DEF TestCycleAssumption
  <2>4. Cardinality(paged[k] \cap page) \in Nat
    BY <2>2, FS_Subset, FS_CardinalityType
  <2>5. Cardinality(paged[k] \cup page)
          = Cardinality(paged[k]) + Cardinality(page) - Cardinality(paged[k] \cap page)
    BY <2>2, <2>3, FS_Union
  <2> QED
    BY <1>1, <1>4, <2>1, <2>2, <2>3, <2>4, <2>5
<1>5. ASSUME NEW page \in SUBSET Answers(k), NEW junk \in 0 .. MaxJunk, NEW more \in BOOLEAN,
             NEW f \in SyncType, f.seen = sync[k].seen, ProcessPage(k, f, page, junk, more)
      PROVE  Cardinality(paged'[k]) <= sync'[k].seen
  <2>1. /\ paged' = [paged EXCEPT ![k] = @ \cup page]
        /\ sync'[k].seen = f.seen + Cardinality(page) + junk
    BY <1>1, <1>5 DEF ProcessPage, SyncType
  <2>2. junk \in Nat
    BY TestCycleAssumption DEF TestCycleAssumption
  <2> QED
    BY <1>4, <1>5, <2>1, <2>2
<1>6. ASSUME NEW page \in SUBSET Answers(k), NEW junk \in 0 .. MaxJunk, NEW more \in BOOLEAN,
             SyncNextPage(k, page, junk, more)
      PROVE  Cardinality(paged'[k]) <= sync'[k].seen
  BY <1>1, <1>5, <1>6 DEF SyncNextPage
<1>7. ASSUME NEW page \in SUBSET Answers(k), NEW junk \in 0 .. MaxJunk, NEW more \in BOOLEAN,
             NEW claimed \in 0 .. MaxClaim, SyncFirstPage(k, page, junk, more, claimed)
      PROVE  Cardinality(paged'[k]) <= sync'[k].seen
  <2> DEFINE f == [sync[k] EXCEPT !.valid = TRUE, !.claimed = claimed]
  <2>1. f \in SyncType /\ f.seen = sync[k].seen
    BY <1>1 DEF SyncType
  <2>2. ProcessPage(k, f, page, junk, more)
    BY <1>7 DEF SyncFirstPage
  <2> HIDE DEF f
  <2> QED
    BY <1>5, <2>1, <2>2
<1> QED
  BY <1>2, <1>3, <1>6, <1>7 DEF SyncFetch

LEMMA OtherPages ==
    ASSUME TypeInv, NEW k \in Pairs, SyncFetch(k), NEW j \in Pairs, j # k
    PROVE  paged'[j] = paged[j]
BY DEF SyncFetch, SyncAborts, SyncInvalid, SyncRaises, SyncStopsPaging, SyncStoreFails,
       SyncFirstPage, SyncNextPage, ProcessPage, sharedVars, redisVars, TypeInv, StoreTyped

LEMMA ClaimFrame ==
    ASSUME ClaimInv, UNCHANGED <<sync, paged, results>>,
           phase' \in Before <=> phase \in Before
    PROVE  ClaimInv'
BY DEF ClaimInv

LEMMA SyncClaim ==
    ASSUME FetchInv, TypeInv, ClaimInv, NEW k \in Pairs, SyncFetch(k)
    PROVE  ClaimInv'
<1>1. /\ ~TaskDone(SyncTask(k)) /\ UNCHANGED <<phase, results>>
      /\ phase \notin Before
  <2>1. Elsewhere
    BY DEF Elsewhere
  <2> QED
    BY <2>1, SyncStep, ElsewhereFrame DEF loopVars, Before
<1>2. PICK f \in SyncType : sync' = [sync EXCEPT ![k] = f]
  BY SyncStep
<1>3. \A j \in Pairs : j # k => sync'[j] = sync[j] /\ paged'[j] = paged[j]
  BY <1>2, OtherPages DEF FetchInv, FetchesTyped
<1>4. results[SyncTask(k)] = Missing
  BY <1>1, PairTasks DEF TaskDone, ClaimInv
<1>5. sync[k].st # "raised"
  BY <1>1, PairTasks DEF TaskDone
<1>6. sync'[k].st # "raised" => Cardinality(paged'[k]) <= sync'[k].seen
  BY <1>1, <1>5, PageSeen DEF ClaimInv
<1> QED
  BY <1>1, <1>3, <1>4, <1>6 DEF ClaimInv

LEMMA CollectClaim ==
    ASSUME FetchInv, TypeInv, ClaimInv, CountInv, Collect
    PROVE  ClaimInv'
<1>1. /\ phase = "collect" /\ phase' \in {"collect", "hold"} /\ step \in Tasks
      /\ TaskDone(step) /\ UNCHANGED <<sync, paged>>
  BY DEF Collect, FetchInv, Stages, fetchVars, sharedVars, redisVars
<1>2. \A t \in Tasks : t # step => results'[t] = results[t]
  BY DEF Collect, CountInv, CountersTyped
<1>3. ASSUME NEW k \in Pairs, SyncTask(k) = step, results'[step] # Missing
      PROVE  /\ sync[k].st = "done"
             /\ results'[step].counted \subseteq paged[k]
             /\ results'[step].claimed = sync[k].claimed
             /\ sync[k].valid /\ ~results'[step].flagged => sync[k].seen = sync[k].claimed
  <2>1. IsSync(step) /\ PairOf(step) = k
    BY <1>3, PairTasks
  <2>2. sync[k].st = "done" /\ results'[step] = Recount(step)
    BY <1>1, <1>3, <2>1 DEF Collect, TaskDone, CountInv, CountersTyped
  <2>3. results'[step] =
          [aborted |-> sync[k].aborted,
           counted |-> IF sync[k].aborted THEN {} ELSE ZCount(paged[k]),
           claimed |-> sync[k].claimed,
           flagged |-> sync[k].valid /\ sync[k].seen # sync[k].claimed]
    BY <2>1, <2>2 DEF Recount
  <2>4. /\ results'[step].claimed = sync[k].claimed
        /\ results'[step].flagged = (sync[k].valid /\ sync[k].seen # sync[k].claimed)
        /\ results'[step].counted \subseteq paged[k]
    BY <2>3 DEF ZCount
  <2> QED
    BY <2>2, <2>4
<1>4. \A k \in Pairs : SyncTask(k) \in Tasks
  BY PairTasks
<1> QED
  BY <1>1, <1>2, <1>3, <1>4 DEF ClaimInv, Before

LEMMA ClaimKept == CycleInv /\ ClaimInv /\ [Next]_vars => ClaimInv'
<1> SUFFICES ASSUME CycleInv, ClaimInv, [Next]_vars PROVE ClaimInv'
  OBVIOUS
<1> USE DEF CycleInv
<1> USE DEF cycleVars, localVars, loopVars, fetchVars, sharedVars, redisVars, reportVars
<1>1. CASE \E k \in Pairs : SyncFetch(k)
  BY <1>1, SyncClaim
<1>2. CASE Elsewhere /\ ~\E k \in Pairs : SyncFetch(k)
  <2>1. UNCHANGED <<phase, results>>
    BY <1>2, ElsewhereFrame
  <2>2. UNCHANGED <<sync, paged>>
    BY <1>2 DEF Elsewhere, AsyncFetch, Register, PostReturns, DecideNone, DecideWait,
       Snapshot, Leave, MqttThread, ReplayArrives, RecordArrival, StoreReplay, DropReplay,
       PayloadRaises, StoreReplayFails, BrokerMessage, ServiceReplays, BoundReached, Terminated,
       vars
  <2> QED
    BY <2>1, <2>2, ClaimFrame
<1>3. CASE Outside
  BY <1>3, OutsideFrame, ClaimFrame
<1>4. CASE OpenWindow
  <2>1. phase = "none" /\ phase' = "baseline" /\ UNCHANGED <<sync, paged, results>>
    BY <1>4 DEF OpenWindow, S!BeginCycle, SchedInv, Held
  <2> QED
    BY <2>1, ClaimFrame DEF Before
<1>5. CASE ClearSync
  <2>1. /\ phase \in Before /\ UNCHANGED <<sync, results>>
        /\ \A k \in Pairs : paged'[k] = {}
    BY <1>5 DEF ClearSync, Before
  <2>2. \A k \in Pairs : sync[k].seen = 0
    BY <2>1 DEF FetchInv, Stages, NewSync
  <2>3. Cardinality({}) <= 0
    BY FS_EmptySet
  <2> QED
    BY <2>1, <2>2, <2>3 DEF ClaimInv
<1>6. CASE Collect
  BY <1>6, CollectClaim
<1>7. CASE \/ ReadBaseline \/ ClearReplay \/ CollectFails \/ Hold \/ PublishReceived
           \/ PublishResult
  <2>1. UNCHANGED <<sync, paged, results>> /\ (phase' \in Before <=> phase \in Before)
    BY <1>7 DEF ReadBaseline, ClearReplay, CollectFails, Hold, PublishReceived,
       PublishResult, Before
  <2> QED
    BY <2>1, ClaimFrame
<1>8. CASE Leaving
  <2>1. phase' \in Before /\ results' = [t \in Tasks |-> Missing]
    BY <1>8 DEF Leaving, PreparationFails, Unwound, Published, LeaveCycle, Before
  <2> QED
    BY <2>1, PairTasks DEF ClaimInv
<1> QED
  BY <1>1, <1>2, <1>3, <1>4, <1>5, <1>6, <1>7, <1>8, NextSplit DEF Inside

\* A synchronous fetch that passes the numberMatched check is credited with no
\* more than the service claimed: all it has stored it has seen, and it has
\* seen as many as were claimed.
THEOREM TestCycleCreditsWithinClaim == Spec => []UnflaggedWithinClaim
<1>1. Init => ClaimInv
  BY PairTasks DEF Init, ClaimInv, Before
<1>2. ASSUME CycleInv, ClaimInv
      PROVE  UnflaggedWithinClaim
  <2> SUFFICES ASSUME NEW k \in Pairs, results[SyncTask(k)] # Missing, sync[k].valid,
                      ~results[SyncTask(k)].flagged
               PROVE  Cardinality(results[SyncTask(k)].counted) <= results[SyncTask(k)].claimed
    BY DEF UnflaggedWithinClaim
  <2> DEFINE counted == results[SyncTask(k)].counted
  <2>1. /\ counted \in SUBSET paged[k] /\ Cardinality(paged[k]) <= sync[k].seen
        /\ sync[k].seen = sync[k].claimed
        /\ results[SyncTask(k)].claimed = sync[k].claimed
    BY <1>2 DEF ClaimInv
  <2>2. IsFiniteSet(paged[k]) /\ Cardinality(paged[k]) \in Nat /\ sync[k].claimed \in Nat
    BY <1>2, PagesFinite, TestCycleAssumption
    DEF CycleInv, FetchInv, FetchesTyped, SyncType, TestCycleAssumption
  <2> HIDE DEF counted
  <2>3. Cardinality(counted) <= Cardinality(paged[k]) /\ Cardinality(counted) \in Nat
    BY <2>1, <2>2, FS_Subset, FS_CardinalityType
  <2> QED
    BY <2>1, <2>2, <2>3 DEF counted
<1>3. CycleInv /\ ClaimInv => UnflaggedWithinClaim
  BY <1>2
<1> QED
  BY <1>1, <1>3, ClaimKept, CycleInductive, PTL DEF Spec

-----------------------------------------------------------------------------
(* Published whole or not at all.                                          *)

Raised(t) == IsSync(t) /\ sync[PairOf(t)].st = "raised"

\* What has been collected has a result unless it raised, and what has been
\* published carries the number of the cycle.
CarryInv ==
    /\ ended \in Seq(S!EndedType)
    /\ \A t \in Tasks :
         phase \in {"hold", "publish"} \/ (phase = "collect" /\ t < step) =>
           (results[t] # Missing <=> ~Raised(t))
    /\ phase = "publish" =>
         /\ \A i \in DOMAIN TopicList :
              i < step => metrics.receivedIn[TopicList[i]] = Cycle
         /\ \A t \in Tasks :
              t < step - Len(TopicList) /\ results[t] # Missing =>
                metrics.fetchedIn[t] = Cycle
    /\ \A t \in Tasks :
         phase # "none" /\ metrics.fetchedIn[t] = Cycle => results[t] # Missing

LEMMA CarryFrame ==
    ASSUME CarryInv, ended' \in Seq(S!EndedType),
           UNCHANGED <<phase, step, sync, results, metrics, begun>>
    PROVE  CarryInv'
BY DEF CarryInv, Raised, Cycle

\* A fetch that is over does not raise any more.
LEMMA SyncCarry ==
    ASSUME CycleInv, CarryInv, NEW k \in Pairs, SyncFetch(k)
    PROVE  CarryInv'
<1>1. /\ ~TaskDone(SyncTask(k)) /\ phase \in {"collect", "unwind"}
      /\ UNCHANGED <<phase, step, results, metrics, begun, ended>>
  <2>1. Elsewhere
    BY DEF Elsewhere
  <2> QED
    BY <2>1, SyncStep, ElsewhereFrame DEF loopVars, schedVars, CycleInv
<1>2. PICK f \in SyncType : sync' = [sync EXCEPT ![k] = f]
  BY SyncStep DEF CycleInv
<1>3. \A j \in Pairs : j # k => sync'[j] = sync[j]
  BY <1>2 DEF CycleInv, FetchInv, FetchesTyped
<1>4. ASSUME NEW t \in Tasks, phase = "collect", t < step
      PROVE  Raised(t)' <=> Raised(t)
  <2>1. TaskDone(t)
    BY <1>4 DEF CycleInv, FetchInv, Stages
  <2>2. IsSync(t) => PairOf(t) # k
    BY <1>1, <2>1, TaskPair
  <2> QED
    BY <1>3, <2>2, TaskPair DEF Raised
<1> QED
  BY <1>1, <1>4 DEF CarryInv, Cycle

LEMMA CollectCarry ==
    ASSUME CycleInv, CarryInv, Collect
    PROVE  CarryInv'
<1> USE DEF CycleInv
<1>1. /\ phase = "collect" /\ step \in Tasks /\ step \in Nat /\ Tasks \subseteq Nat
      /\ UNCHANGED <<sync, metrics, begun, ended>>
      /\ \/ phase' = "hold" /\ step = Cardinality(Tasks)
         \/ phase' = "collect" /\ step' = step + 1
  BY ListsTyped DEF Collect, FetchInv, Stages, fetchVars, reportVars, schedVars
<1>2. Recount(step) # Missing
  BY <1>1, RecountTyped, MissingAssumption
<1>3. \A t \in Tasks : /\ t # step => results'[t] = results[t]
                       /\ t = step => (results'[t] # Missing <=> ~Raised(t))
  BY <1>2 DEF Collect, CountInv, CountersTyped, Raised
<1>4. \A t \in Tasks : t <= step => (results'[t] # Missing <=> ~Raised(t))
  BY <1>1, <1>3 DEF CarryInv
<1>5. \A t \in Tasks : phase' = "hold" \/ t < step' => t <= step
  BY <1>1, TaskCount
<1>6. \A t \in Tasks : metrics.fetchedIn[t] # Cycle
  BY <1>1 DEF CountInv, NotYet
<1> QED
  BY <1>1, <1>4, <1>5, <1>6 DEF CarryInv, Raised, Cycle

LEMMA PublishCarry ==
    ASSUME CycleInv, CarryInv, PublishReceived \/ PublishResult
    PROVE  CarryInv'
<1> USE DEF CycleInv
<1>1. /\ phase = "publish" /\ step \in Nat /\ step' = step + 1
      /\ UNCHANGED <<phase, sync, results, begun, ended>>
  BY DEF PublishReceived, PublishResult, FetchInv, Stages, fetchVars, schedVars
<1>2. /\ Len(TopicList) \in Nat /\ DOMAIN TopicList \subseteq Nat /\ Tasks \subseteq Nat
      /\ \A i \in DOMAIN TopicList : TopicList[i] \in TopicSet
      /\ \A i \in DOMAIN TopicList : i <= Len(TopicList)
      /\ \A i, j \in DOMAIN TopicList : TopicList[i] = TopicList[j] => i = j
      /\ \A t \in Tasks : t >= 1
  BY ListsTyped, TaskCount
<1>3. CASE PublishReceived
  <2>1. /\ step \in DOMAIN TopicList
        /\ metrics'.receivedIn = [metrics.receivedIn EXCEPT ![TopicList[step]] = Cycle]
        /\ metrics'.fetchedIn = metrics.fetchedIn
    BY <1>3 DEF PublishReceived, CountInv, CountersTyped
  <2>2. \A i \in DOMAIN TopicList :
          metrics'.receivedIn[TopicList[i]] =
            IF i = step THEN Cycle ELSE metrics.receivedIn[TopicList[i]]
    BY <1>2, <2>1 DEF CountInv, CountersTyped
  <2>3. \A t \in Tasks : ~(t < step' - Len(TopicList))
    BY <1>1, <1>2, <2>1
  <2>4. \A i \in DOMAIN TopicList :
          i < step' => metrics'.receivedIn[TopicList[i]] = Cycle
    <3>1. \A i \in DOMAIN TopicList : i < step' => i < step \/ i = step
      BY <1>1, <1>2
    <3> QED
      BY <1>1, <2>2, <3>1 DEF CarryInv
  <2> QED
    BY <1>1, <2>1, <2>3, <2>4 DEF CarryInv, Raised, Cycle
<1>4. CASE PublishResult
  <2>1. PICK t \in Tasks :
          /\ t = step - Len(TopicList)
          /\ metrics' = IF results[t] = Missing THEN metrics ELSE
               [metrics EXCEPT !.fetched[t] = Tally(@, results[t].counted),
                               !.gauges[t] = [aborted |-> results[t].aborted,
                                              flagged |-> results[t].flagged],
                               !.fetchedIn[t] = Cycle]
    BY <1>4 DEF PublishResult
  <2>2. /\ metrics'.receivedIn = metrics.receivedIn
        /\ \A u \in Tasks :
             metrics'.fetchedIn[u] = IF u = t /\ results[t] # Missing THEN Cycle
                                     ELSE metrics.fetchedIn[u]
    <3>1. CASE results[t] = Missing
      BY <2>1, <3>1
    <3>2. CASE results[t] # Missing
      <4>1. /\ metrics'.receivedIn = metrics.receivedIn
            /\ metrics'.fetchedIn = [metrics.fetchedIn EXCEPT ![t] = Cycle]
        BY <2>1, <3>2 DEF CountInv, CountersTyped
      <4> QED
        BY <3>2, <4>1 DEF CountInv, CountersTyped
    <3> QED
      BY <3>1, <3>2
  <2>3. \A i \in DOMAIN TopicList : i < step
    BY <1>1, <1>2, <2>1
  <2>4. \A u \in Tasks : u < step' - Len(TopicList) => u = t \/ u < step - Len(TopicList)
    BY <1>1, <1>2, <2>1
  <2> QED
    BY <1>1, <2>2, <2>3, <2>4 DEF CarryInv, Raised, Cycle
<1> QED
  BY <1>3, <1>4

LEMMA CarryKept == CycleInv /\ CarryInv /\ [Next]_vars => CarryInv'
<1> SUFFICES ASSUME CycleInv, CarryInv, [Next]_vars PROVE CarryInv'
  OBVIOUS
<1> USE DEF cycleVars, localVars, loopVars, fetchVars, reportVars
<1>0. ended \in Seq(S!EndedType)
  BY DEF CarryInv
<1>1. CASE \E k \in Pairs : SyncFetch(k)
  BY <1>1, SyncCarry
<1>2. CASE Elsewhere /\ ~\E k \in Pairs : SyncFetch(k)
  <2>1. UNCHANGED <<phase, step, results, metrics, begun, ended>>
    BY <1>2, ElsewhereFrame DEF schedVars
  <2>2. UNCHANGED sync
    BY <1>2 DEF Elsewhere, AsyncFetch, Register, PostReturns, DecideNone, DecideWait,
       Snapshot, Leave, MqttThread, ReplayArrives, RecordArrival, StoreReplay, DropReplay,
       PayloadRaises, StoreReplayFails, BrokerMessage, ServiceReplays, BoundReached, Terminated,
       vars
  <2> QED
    BY <1>0, <2>1, <2>2, CarryFrame
<1>3. CASE Outside
  <2>1. UNCHANGED <<begun, ended>>
    BY <1>3 DEF Outside, WaitTimesOut, WaitStopped, ReadStarted, Stop, Tick, S!WaitTimesOut,
                S!WaitStopped, S!ReadStarted, S!Stop, S!Tick
  <2> QED
    BY <1>0, <1>3, <2>1, OutsideFrame, CarryFrame
<1>4. CASE OpenWindow
  <2>1. /\ phase' = "baseline" /\ UNCHANGED <<metrics, ended>>
        /\ \E c : begun' = Append(begun, c)
    BY <1>4 DEF OpenWindow, S!BeginCycle
  <2>2. Cycle \in Nat /\ Cycle' = Cycle + 1
    BY <2>1 DEF CycleInv, SchedInv, Timed, Cycle
  <2>3. \A t \in Tasks : metrics.fetchedIn[t] \in Nat /\ metrics.fetchedIn[t] <= Cycle
    BY DEF CycleInv, CountInv, CountersTyped, NotYet
  <2> QED
    BY <1>0, <2>1, <2>2, <2>3 DEF CarryInv
<1>5. CASE Collect
  BY <1>5, CollectCarry
<1>6. CASE PublishReceived \/ PublishResult
  BY <1>6, PublishCarry
<1>7. CASE ReadBaseline \/ ClearReplay \/ ClearSync \/ CollectFails \/ Hold
  <2>1. /\ UNCHANGED <<sync, results, metrics, begun, ended>> /\ phase # "none"
        /\ \/ phase' \in {"baseline", "clear", "clear_sync", "unwind"}
           \/ phase = "clear_sync" /\ phase' = "collect" /\ step' = 1
           \/ phase = "hold" /\ phase' = "publish" /\ step' = 1
    BY <1>7 DEF ReadBaseline, ClearReplay, ClearSync, CollectFails, Hold, schedVars
  <2>2. /\ \A t \in Tasks : ~(t < 1) /\ ~(t < 1 - Len(TopicList))
        /\ \A i \in DOMAIN TopicList : ~(i < 1)
    BY ListsTyped, TaskCount
  <2> QED
    BY <1>0, <2>1, <2>2 DEF CarryInv, Raised, Cycle
<1>8. CASE Leaving
  <2>1. PICK p \in BOOLEAN : LeaveCycle(p)
    BY <1>8 DEF Leaving, PreparationFails, Unwound, Published
  <2>2. phase' = "none" /\ ended' = Append(ended, [at |-> clock, published |-> p])
    BY <2>1 DEF LeaveCycle
  <2>3. [at |-> clock, published |-> p] \in S!EndedType
    BY DEF CycleInv, SchedInv, Timed, S!EndedType
  <2> QED
    BY <1>0, <2>2, <2>3, AppendProperties DEF CarryInv
<1> QED
  BY <1>1, <1>2, <1>3, <1>4, <1>5, <1>6, <1>7, <1>8, NextSplit DEF Inside

\* The step that ends a cycle.
LEMMA EndedWhole ==
    ASSUME CycleInv, CarryInv, [Next]_vars, ended' # ended
    PROVE  LET published == ended'[Len(ended')].published IN
             /\ \A topic \in TopicSet : metrics.receivedIn[topic] = Cycle <=> published
             /\ \A t \in Tasks : metrics.fetchedIn[t] = Cycle <=> published /\ ~Raised(t)
<1> USE DEF CycleInv
<1>1. Leaving
  <2>1. ~Elsewhere /\ ~Inside
    BY ElsewhereFrame, InsideFrame DEF schedVars
  <2>2. ~Outside /\ ~OpenWindow
    BY DEF Outside, WaitTimesOut, WaitStopped, ReadStarted, Stop, Tick, OpenWindow,
           S!WaitTimesOut, S!WaitStopped, S!ReadStarted, S!Stop, S!Tick, S!BeginCycle
  <2> QED
    BY <2>1, <2>2, NextSplit
<1>2. PICK p \in BOOLEAN :
        /\ ended' = Append(ended, [at |-> clock, published |-> p])
        /\ p => Published
        /\ ~p => PreparationFails \/ Unwound
  BY <1>1 DEF Leaving, PreparationFails, Unwound, Published, LeaveCycle
<1>3. ended'[Len(ended')].published = p
  <2>1. ended'[Len(ended')] = [at |-> clock, published |-> p]
    BY <1>2 DEF CarryInv
  <2> QED
    BY <2>1
<1>4. CASE p
  <2>1. phase = "publish" /\ step = Len(TopicList) + Cardinality(Tasks) + 1
    BY <1>2, <1>4 DEF Published
  <2>2. /\ \A i \in DOMAIN TopicList : i < step
        /\ \A t \in Tasks : t < step - Len(TopicList)
    BY <2>1, ListsTyped, TaskCount
  <2>3. \A topic \in TopicSet : metrics.receivedIn[topic] = Cycle
    BY <2>1, <2>2, ListsTyped DEF CarryInv
  <2>4. \A t \in Tasks : metrics.fetchedIn[t] = Cycle <=> ~Raised(t)
    BY <2>1, <2>2 DEF CarryInv
  <2> QED
    BY <1>3, <1>4, <2>3, <2>4
<1>5. CASE ~p
  <2>1. phase \notin {"none", "publish"}
    BY <1>2, <1>5 DEF PreparationFails, Unwound
  <2>2. \A topic \in TopicSet : metrics.receivedIn[topic] # Cycle
    BY <2>1, ListsTyped DEF CountInv, NotYet
  <2>3. \A t \in Tasks : metrics.fetchedIn[t] # Cycle
    BY <2>1 DEF CountInv, NotYet
  <2> QED
    BY <1>3, <1>5, <2>2, <2>3
<1> QED
  BY <1>4, <1>5

\* When a cycle ends, what carries its number is every topic and every fetch
\* that did not raise, or nothing at all.
THEOREM TestCyclePublishesWhole == Spec => AllOrNothing
<1>1. Init => CarryInv
  BY DEF Init, S!Init, CarryInv
<1>2. CycleInv /\ CarryInv /\ [Next]_vars =>
        [ended' # ended =>
          LET published == ended'[Len(ended')].published IN
          /\ \A topic \in TopicSet :
               metrics.receivedIn[topic] = Cycle <=> published
          /\ \A t \in Tasks :
               metrics.fetchedIn[t] = Cycle <=>
                 published /\ ~(IsSync(t) /\ sync[PairOf(t)].st = "raised")]_vars
  BY EndedWhole DEF Raised
<1> QED
  BY <1>1, <1>2, CarryKept, CycleInductive, PTL DEF Spec, AllOrNothing
=============================================================================
