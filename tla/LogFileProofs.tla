---------------------------- MODULE LogFileProofs ----------------------------
(***************************************************************************)
(* What may get lost from the log, and that the reports credit what is     *)
(* left rightly: for any number of records, any clock and any age.         *)
(***************************************************************************)
EXTENDS LogFile, WellFoundedInduction, SequenceTheorems, TLAPS

-----------------------------------------------------------------------------
(* Least and greatest.  LeastNat is what the inductions below rest on.     *)

LEMMA LeastNat ==
    ASSUME NEW T, T \subseteq Nat, T # {}
    PROVE  \E x \in T : \A y \in T : x <= y
<1>1. PICK x \in T : \A y \in T : ~ (<<y, x>> \in OpToRel(<, Nat))
  BY NatLessThanWellFounded, WFMin, Zenon
<1>2. ASSUME NEW y \in T
      PROVE  x <= y
  <2>1. <<y, x>> \notin OpToRel(<, Nat)
    BY <1>1
  <2>2. ~ (y < x)
    BY <2>1 DEF OpToRel
  <2> QED
    BY <2>2
<1> QED
  BY <1>2

LEMMA MaxOf ==
    ASSUME NEW n \in Nat, NEW T, T \subseteq 1 .. n, T # {}
    PROVE  Max(T) \in T /\ \A x \in T : x <= Max(T)
<1> DEFINE below == {m \in Nat : \E x \in T : m = n - x}
<1>1. below \subseteq Nat /\ below # {}
  <2>1. PICK x \in T : TRUE
    OBVIOUS
  <2>2. n - x \in below
    OBVIOUS
  <2> QED
    BY <2>2
<1>2. PICK y \in below : \A z \in below : y <= z
  BY <1>1, LeastNat
<1>3. PICK top \in T : y = n - top
  BY <1>2
<1>4. ASSUME NEW x \in T
      PROVE  top >= x
  <2>1. n - x \in below
    OBVIOUS
  <2>2. n - top <= n - x
    BY <1>2, <1>3, <2>1
  <2> QED
    BY <2>2
<1> QED
  BY <1>3, <1>4 DEF Max

-----------------------------------------------------------------------------
(* What the purge keeps.  Kept is a fold over the lines; IsFold is the     *)
(* equation of the recursive function in it.                               *)

\* The last line up to i with a timestamp, 0 when there is none.
EntryAt(lines, i) ==
    LET entries == {j \in 1 .. i : lines[j].part = 1}
    IN  IF entries # {} THEN Max(entries) ELSE 0

KeepsAt(lines, cutoff, i) ==
    EntryAt(lines, i) = 0 \/ log[lines[EntryAt(lines, i)].rec].at >= cutoff

KeptAt(lines, cutoff) == {i \in DOMAIN lines : KeepsAt(lines, cutoff, i)}

IsFold(g, lines, K, n) ==
    g = [s \in SUBSET (1 .. n) |->
           IF s = {} THEN << >>
           ELSE IF Max(s) \in K THEN Append(g[s \ {Max(s)}], lines[Max(s)])
                                ELSE g[s \ {Max(s)}]]

LEMMA FoldExists ==
    ASSUME NEW lines, NEW K
    PROVE  \A n \in Nat : \E g : IsFold(g, lines, K, n)
<1> DEFINE Fails == {n \in Nat : ~ \E g : IsFold(g, lines, K, n)}
<1>1. SUFFICES ASSUME Fails # {}
               PROVE  FALSE
  OBVIOUS
<1>2. PICK n \in Fails : \A m \in Fails : n <= m
  BY <1>1, LeastNat
<1>3. n # 0
  <2> DEFINE g == [s \in SUBSET (1 .. 0) |-> << >>]
  <2>1. \A s \in SUBSET (1 .. 0) : s = {}
    OBVIOUS
  <2>2. IsFold(g, lines, K, 0)
    BY <2>1 DEF IsFold
  <2> QED
    BY <2>2
<1>4. n - 1 \in Nat /\ n - 1 \notin Fails
  BY <1>2, <1>3
<1>5. PICK f : IsFold(f, lines, K, n - 1)
  BY <1>4
<1> DEFINE g == [s \in SUBSET (1 .. n) |->
                   IF n \notin s THEN f[s]
                   ELSE IF n \in K THEN Append(f[s \ {n}], lines[n]) ELSE f[s \ {n}]]
<1>6. ASSUME NEW s \in SUBSET (1 .. n)
      PROVE  g[s] = IF s = {} THEN << >>
                    ELSE IF Max(s) \in K THEN Append(g[s \ {Max(s)}], lines[Max(s)])
                                         ELSE g[s \ {Max(s)}]
  <2>1. CASE s = {}
    <3>1. s \in SUBSET (1 .. n - 1) /\ f[s] = << >>
      BY <1>5, <2>1 DEF IsFold
    <3> QED
      BY <2>1, <3>1
  <2>2. CASE s # {} /\ n \notin s
    <3>1. s \in SUBSET (1 .. n - 1) /\ s \ {Max(s)} \in SUBSET (1 .. n)
      <4>1. \A x \in s : x \in 1 .. n /\ x # n
        BY <2>2
      <4>2. \A x \in s : x \in 1 .. n - 1
        BY <4>1
      <4> QED
        BY <4>2
    <3>2. n \notin s \ {Max(s)}
      BY <2>2
    <3>3. g[s] = f[s] /\ g[s \ {Max(s)}] = f[s \ {Max(s)}]
      BY <2>2, <3>1, <3>2
    <3>4. f[s] = IF Max(s) \in K THEN Append(f[s \ {Max(s)}], lines[Max(s)])
                                 ELSE f[s \ {Max(s)}]
      BY <1>5, <2>2, <3>1 DEF IsFold
    <3> QED
      BY <2>2, <3>3, <3>4
  <2>3. CASE n \in s
    <3>1. Max(s) = n
      <4>1. Max(s) \in s /\ n <= Max(s) /\ Max(s) \in 1 .. n
        BY <2>3, MaxOf
      <4> QED
        BY <4>1
    <3>2. s \ {n} \in SUBSET (1 .. n) /\ n \notin s \ {n}
      OBVIOUS
    <3>3. g[s \ {n}] = f[s \ {n}]
      BY <3>2
    <3> QED
      BY <2>3, <3>1, <3>3
  <2> QED
    BY <2>1, <2>2, <2>3
<1>7. g = [s \in SUBSET (1 .. n) |-> g[s]]
  OBVIOUS
<1>8. IsFold(g, lines, K, n)
  <2> HIDE DEF g
  <2> QED
    BY <1>6, <1>7, Zenon DEF IsFold
<1> QED
  BY <1>8

LEMMA KeptIsFold ==
    ASSUME NEW P, NEW lines \in Seq(P), NEW cutoff
    PROVE  \E g : /\ IsFold(g, lines, KeptAt(lines, cutoff), Len(lines))
                  /\ Kept(lines, cutoff) = g[1 .. Len(lines)]
<1> DEFINE indices == [i \in DOMAIN lines |-> i]
           Fold(g) == g = [s \in SUBSET DOMAIN indices |->
                             IF s = {} THEN << >>
                             ELSE IF KeepsAt(lines, cutoff, indices[Max(s)])
                                  THEN Append(g[s \ {Max(s)}], lines[indices[Max(s)]])
                                  ELSE g[s \ {Max(s)}]]
<1>1. Kept(lines, cutoff) = (CHOOSE g : Fold(g))[DOMAIN indices]
  BY Zenon DEF Kept, FoldLeftDomain, FoldLeft, MapThenFoldSet, SelectLastInSubSeq,
               KeepsAt, EntryAt
<1>2. DOMAIN lines = 1 .. Len(lines) /\ DOMAIN indices = 1 .. Len(lines) /\ Len(lines) \in Nat
  OBVIOUS
<1>3. ASSUME NEW s \in SUBSET (1 .. Len(lines)), s # {}
      PROVE  /\ indices[Max(s)] = Max(s)
             /\ Max(s) \in KeptAt(lines, cutoff) <=> KeepsAt(lines, cutoff, Max(s))
  <2>1. Max(s) \in 1 .. Len(lines)
    BY <1>2, <1>3, MaxOf
  <2> QED
    BY <1>2, <2>1 DEF KeptAt
<1>4. ASSUME NEW g
      PROVE  Fold(g) <=> IsFold(g, lines, KeptAt(lines, cutoff), Len(lines))
  BY <1>2, <1>3 DEF IsFold
<1>5. \E g : Fold(g)
  <2> HIDE DEF Fold
  <2> QED
    BY <1>2, <1>4, FoldExists
<1> QED
  <2> HIDE DEF Fold, indices
  <2>1. Fold(CHOOSE g : Fold(g))
    BY <1>5
  <2> QED
    BY <1>1, <1>2, <1>4, <2>1

\* The lines at I, each once and in their order.
Selects(out, lines, I) ==
    \E at \in [1 .. Len(out) -> I] :
        /\ \A m, n \in 1 .. Len(out) : m < n => at[m] < at[n]
        /\ \A i \in I : \E m \in 1 .. Len(out) : at[m] = i
        /\ \A m \in 1 .. Len(out) : out[m] = lines[at[m]]

LEMMA AppendSelects ==
    ASSUME NEW P, NEW lines \in Seq(P), NEW i \in 1 .. Len(lines),
           NEW I, I \subseteq 1 .. i - 1, NEW out \in Seq(P), Selects(out, lines, I)
    PROVE  Selects(Append(out, lines[i]), lines, I \cup {i})
<1> DEFINE new == Append(out, lines[i])
           l == Len(out)
<1>1. PICK at \in [1 .. l -> I] :
        /\ \A m, n \in 1 .. l : m < n => at[m] < at[n]
        /\ \A j \in I : \E m \in 1 .. l : at[m] = j
        /\ \A m \in 1 .. l : out[m] = lines[at[m]]
  BY DEF Selects
<1>2. /\ l \in Nat /\ Len(new) = l + 1 /\ new[l + 1] = lines[i]
      /\ \A m \in 1 .. l : new[m] = out[m]
  OBVIOUS
<1> DEFINE new_at == [m \in 1 .. l + 1 |-> IF m = l + 1 THEN i ELSE at[m]]
<1>3. new_at \in [1 .. l + 1 -> I \cup {i}]
  BY <1>2
<1>4. ASSUME NEW m \in 1 .. l + 1, NEW n \in 1 .. l + 1, m < n
      PROVE  new_at[m] < new_at[n]
  <2>1. m \in 1 .. l /\ new_at[m] = at[m] /\ at[m] \in I /\ at[m] \in 1 .. i - 1
    <3>1. m \in 1 .. l /\ m # l + 1
      BY <1>2, <1>4
    <3> QED
      BY <3>1
  <2>2. CASE n = l + 1
    BY <2>1, <2>2
  <2>3. CASE n \in 1 .. l
    BY <1>1, <1>2, <1>4, <2>1, <2>3
  <2> QED
    BY <1>2, <2>2, <2>3
<1>5. ASSUME NEW j \in I \cup {i}
      PROVE  \E m \in 1 .. l + 1 : new_at[m] = j
  <2>1. CASE j = i
    BY <1>2, <2>1
  <2>2. CASE j \in I
    <3>1. PICK m \in 1 .. l : at[m] = j
      BY <1>1, <2>2
    <3>2. m \in 1 .. l + 1 /\ new_at[m] = j
      BY <1>2, <3>1
    <3> QED
      BY <3>2
  <2> QED
    BY <2>1, <2>2
<1>6. ASSUME NEW m \in 1 .. l + 1
      PROVE  new[m] = lines[new_at[m]]
  <2>1. CASE m = l + 1
    BY <1>2, <2>1
  <2>2. CASE m \in 1 .. l
    BY <1>1, <1>2, <2>2
  <2> QED
    BY <1>2, <2>1, <2>2
<1> HIDE DEF new, new_at
<1>7. /\ new_at \in [1 .. Len(new) -> I \cup {i}]
      /\ \A m, n \in 1 .. Len(new) : m < n => new_at[m] < new_at[n]
      /\ \A j \in I \cup {i} : \E m \in 1 .. Len(new) : new_at[m] = j
      /\ \A m \in 1 .. Len(new) : new[m] = lines[new_at[m]]
  BY <1>2, <1>3, <1>4, <1>5, <1>6
<1>8. Selects(new, lines, I \cup {i})
  BY <1>7 DEF Selects
<1> QED
  BY <1>8 DEF new

LEMMA FoldSelects ==
    ASSUME NEW P, NEW lines \in Seq(P), NEW K, K \subseteq 1 .. Len(lines),
           NEW g, IsFold(g, lines, K, Len(lines))
    PROVE  g[1 .. Len(lines)] \in Seq(P) /\ Selects(g[1 .. Len(lines)], lines, K)
<1> DEFINE Good(i) == g[1 .. i] \in Seq(P) /\ Selects(g[1 .. i], lines, K \cap 1 .. i)
           Fails == {i \in Nat : i <= Len(lines) /\ ~ Good(i)}
<1>1. Len(lines) \in Nat
  OBVIOUS
<1>2. Good(0)
  <2>1. 1 .. 0 = {} /\ {} \in SUBSET (1 .. Len(lines))
    BY <1>1
  <2>2. g[{}] = << >>
    BY <2>1 DEF IsFold
  <2>3. Selects(<< >>, lines, {})
    <3> DEFINE at == [m \in 1 .. Len(<< >>) |-> 0]
    <3>1. at \in [1 .. Len(<< >>) -> {}] /\ \A m \in 1 .. Len(<< >>) : FALSE
      OBVIOUS
    <3> QED
      BY <3>1 DEF Selects
  <2>4. g[{}] \in Seq(P) /\ Selects(g[{}], lines, {})
    BY <2>2, <2>3
  <2> QED
    BY <2>1, <2>4
<1>3. ASSUME NEW i \in 1 .. Len(lines), Good(i - 1)
      PROVE  Good(i)
  <2>1. Max(1 .. i) = i /\ (1 .. i) \ {i} = 1 .. i - 1
    <3>1. i \in Nat /\ i \in 1 .. i /\ 1 .. i # {}
      OBVIOUS
    <3>2. Max(1 .. i) \in 1 .. i /\ i <= Max(1 .. i)
      BY <3>1, MaxOf
    <3> QED
      BY <3>1, <3>2
  <2>2. g[1 .. i] = IF i \in K THEN Append(g[1 .. i - 1], lines[i]) ELSE g[1 .. i - 1]
    <3>1. 1 .. i \in SUBSET (1 .. Len(lines)) /\ 1 .. i # {}
      <4>1. i \in 1 .. i /\ \A x \in 1 .. i : x \in 1 .. Len(lines)
        BY <1>1
      <4> QED
        BY <4>1
    <3> QED
      BY <2>1, <3>1 DEF IsFold
  <2>3. g[1 .. i - 1] \in Seq(P) /\ Selects(g[1 .. i - 1], lines, K \cap 1 .. i - 1)
    BY <1>3
  <2>4. CASE i \in K
    <3>1. K \cap 1 .. i = (K \cap 1 .. i - 1) \cup {i} /\ lines[i] \in P
      BY <2>4
    <3>2. Selects(Append(g[1 .. i - 1], lines[i]), lines, (K \cap 1 .. i - 1) \cup {i})
      BY <2>3, AppendSelects
    <3>3. g[1 .. i] = Append(g[1 .. i - 1], lines[i])
      BY <2>2, <2>4
    <3>4. Append(g[1 .. i - 1], lines[i]) \in Seq(P)
      BY <2>3, <3>1
    <3> QED
      BY <3>1, <3>2, <3>3, <3>4, Zenon
  <2>5. CASE i \notin K
    <3>1. K \cap 1 .. i = K \cap 1 .. i - 1
      BY <2>5
    <3> QED
      BY <2>2, <2>3, <2>5, <3>1
  <2> QED
    BY <2>4, <2>5
<1>4. Fails = {}
  <2> HIDE DEF Good
  <2>1. SUFFICES ASSUME Fails # {}
                 PROVE  FALSE
    OBVIOUS
  <2>2. PICK i \in Fails : \A j \in Fails : i <= j
    BY <2>1, LeastNat
  <2>3. i \in 1 .. Len(lines)
    BY <1>1, <1>2, <2>2
  <2>4. i - 1 \in Nat /\ i - 1 \notin Fails
    BY <2>2, <2>3
  <2> QED
    BY <1>3, <2>2, <2>3, <2>4
<1>5. Good(Len(lines))
  <2> HIDE DEF Good
  <2>1. Len(lines) <= Len(lines) /\ Len(lines) \notin Fails
    BY <1>1, <1>4
  <2> QED
    BY <1>1, <2>1
<1>6. K \cap 1 .. Len(lines) = K
  OBVIOUS
<1> QED
  BY <1>5, <1>6

\* The purge keeps the lines it means to keep, in a file of any length.
LEMMA KeptSelects ==
    ASSUME NEW P, NEW lines \in Seq(P), NEW cutoff
    PROVE  /\ Kept(lines, cutoff) \in Seq(P)
           /\ Selects(Kept(lines, cutoff), lines, KeptAt(lines, cutoff))
<1>1. PICK g : /\ IsFold(g, lines, KeptAt(lines, cutoff), Len(lines))
               /\ Kept(lines, cutoff) = g[1 .. Len(lines)]
  BY KeptIsFold
<1>2. KeptAt(lines, cutoff) \subseteq 1 .. Len(lines)
  BY DEF KeptAt
<1> QED
  BY <1>1, <1>2, FoldSelects

-----------------------------------------------------------------------------
(* The inductive invariant.                                                *)

\* The last record that is not in the buffer any more.
Written == Len(log) - Len(buffer)

RecsIn(lines) == {lines[i].rec : i \in DOMAIN lines}

\* The buffer holds the records from there on, and no error outside a flush.
BufferIsRest ==
    /\ Len(buffer) <= Len(log) /\ Len(log) <= MaxRecords
    /\ \A i \in DOMAIN buffer : buffer[i] = Written + i
    /\ ~flushing => \A i \in DOMAIN buffer : log[buffer[i]].kind # "error"

TimesGrow ==
    /\ \A r \in DOMAIN log : log[r].at <= clock
    /\ \A q, r \in DOMAIN log : q <= r => log[q].at <= log[r].at

\* Record h is of that kind and the last one of it up to r.
LastUpTo(h, r, kind) ==
    /\ h \in 1 .. r /\ log[h].kind = kind
    /\ \A q \in h + 1 .. r : log[q].kind # kind

\* The program knows its headings, and what it logs beneath them does.
HeadingsKnown ==
    /\ proc # "down" => run # 0
    /\ run # 0 => LastUpTo(run, Len(log), "start")
    /\ cycle # 0 => run < cycle /\ LastUpTo(cycle, Len(log), "period")
    /\ container # 1 => container \in DOMAIN log /\ log[container].kind = "start"

BeneathHeadings ==
    \A r \in DOMAIN log :
        /\ log[r].of <= r
        /\ log[r].kind = "result" => LastUpTo(log[r].of, r, "period")
        /\ log[r].kind = "connect" => LastUpTo(log[r].of, r, "start")

\* What a crash took is older than the process, and took what was beneath it.
CrashTakesRest ==
    /\ proc # "down" => \A c \in crashed : c < run
    /\ \A r \in DOMAIN log : log[r].of \in crashed => r <= Written

\* Lines are whole and in order, as in WholeAndInOrder.
Whole(lines) ==
    \A i \in DOMAIN lines : \A line \in ToSet(Lines(lines[i].rec)) : line \in ToSet(lines)

InOrder(lines) ==
    \A i, j \in DOMAIN lines :
        i < j => \/ lines[i].rec < lines[j].rec
                 \/ lines[i].rec = lines[j].rec /\ lines[i].part < lines[j].part

\* No line is of a record that is still in the buffer, or beneath one that a
\* crash took.
FromWritten(lines) ==
    \A r \in RecsIn(lines) : r \in 1 .. Written /\ log[r].of \notin crashed

\* A purge takes from the front: what is missing further on was raced or crashed.
NoHoles(lines) ==
    \A p \in RecsIn(lines), r \in 1 .. Written :
        p < r => r \in RecsIn(lines) \cup raced \cup crashed

FileInv(lines) == Whole(lines) /\ InOrder(lines) /\ FromWritten(lines) /\ NoHoles(lines)

\* LossAccountedFor, of a file that purges with this cutoff have been at.
LossesUpTo(lines, cutoff) ==
    \A r \in 1 .. Written :
        r \in RecsIn(lines) \cup raced \cup crashed \/ log[r].at < cut \/ log[r].at < cutoff

\* The file, and what is about to replace it.
Copies ==
    {[lines |-> file, cutoff |-> cut]} \cup
    {[lines |-> p.tmp, cutoff |-> p.cutoff] : p \in {q \in {purge} : q.st = "replace"}}

CopyInv(copy) ==
    /\ Whole(copy.lines) /\ InOrder(copy.lines)
    /\ FromWritten(copy.lines) /\ NoHoles(copy.lines)
    /\ LossesUpTo(copy.lines, copy.cutoff)

LogInv ==
    BufferIsRest /\ TimesGrow /\ HeadingsKnown /\ BeneathHeadings /\ CrashTakesRest

IInv == TypeOK /\ LogInv /\ \A copy \in Copies : CopyInv(copy)

-----------------------------------------------------------------------------
(* Logging.                                                                *)

Logging == Start \/ LogConnect \/ LogPeriod \/ LogResult \/ LogError

LEMMA Lengths ==
    ASSUME TypeOK
    PROVE  /\ Len(log) \in Nat /\ DOMAIN log = 1 .. Len(log)
           /\ Len(buffer) \in Nat /\ DOMAIN buffer = 1 .. Len(buffer)
           /\ Written \in Int
           /\ \A r \in DOMAIN log : log[r].at \in Nat /\ log[r].of \in Nat
           /\ clock \in Nat /\ cut \in Int /\ MaxClock \in Nat /\ MaxRecords \in Nat \ {0}
<1>1. MaxClock \in Nat /\ MaxRecords \in Nat \ {0}
  BY LogFileAssumption DEF LogFileAssumption
<1>2. /\ log \in Seq([kind : Kinds, at : 0 .. MaxClock, of : 1 .. MaxRecords])
      /\ buffer \in Seq(1 .. Len(log)) /\ clock \in 0 .. MaxClock /\ cut \in Int
  BY DEF TypeOK
<1>3. /\ Len(log) \in Nat /\ DOMAIN log = 1 .. Len(log)
      /\ Len(buffer) \in Nat /\ DOMAIN buffer = 1 .. Len(buffer)
  BY <1>2
<1>4. ASSUME NEW r \in DOMAIN log
      PROVE  log[r].at \in Nat /\ log[r].of \in Nat
  <2>1. log[r] \in [kind : Kinds, at : 0 .. MaxClock, of : 1 .. MaxRecords]
    BY <1>2, <1>3, ElementOfSeq
  <2> QED
    BY <1>1, <2>1
<1> QED
  BY <1>1, <1>2, <1>3, <1>4 DEF Written

\* What a record adds, and that it changes nothing of what was there.
LEMMA RecordAdds ==
    ASSUME TypeOK, NEW kind, NEW of, Record(kind, of)
    PROVE  /\ Len(log') = Len(log) + 1 /\ DOMAIN log' = 1 .. Len(log) + 1
           /\ \A r \in DOMAIN log : log'[r] = log[r]
           /\ log'[Len(log) + 1] = [kind |-> kind, at |-> clock, of |-> of]
           /\ Len(buffer') = Len(buffer) + 1 /\ DOMAIN buffer' = 1 .. Len(buffer) + 1
           /\ \A i \in DOMAIN buffer : buffer'[i] = buffer[i]
           /\ buffer'[Len(buffer) + 1] = Len(log) + 1
           /\ Written' = Written
<1>1. Len(log) \in Nat /\ DOMAIN log = 1 .. Len(log)
  BY Lengths
<1>2. Len(buffer) \in Nat /\ DOMAIN buffer = 1 .. Len(buffer)
  BY Lengths
<1>3. log \in Seq([kind : Kinds, at : 0 .. MaxClock, of : 1 .. MaxRecords])
  BY DEF TypeOK
<1>4. buffer \in Seq(1 .. Len(log))
  BY DEF TypeOK
<1>5. log' = Append(log, [kind |-> kind, at |-> clock, of |-> of])
  BY DEF Record
<1>6. buffer' = Append(buffer, Len(log) + 1)
  BY DEF Record
<1>7. /\ Len(log') = Len(log) + 1 /\ DOMAIN log' = 1 .. Len(log) + 1
      /\ \A r \in DOMAIN log : log'[r] = log[r]
      /\ log'[Len(log) + 1] = [kind |-> kind, at |-> clock, of |-> of]
  BY <1>1, <1>3, <1>5
<1>8. /\ Len(buffer') = Len(buffer) + 1 /\ DOMAIN buffer' = 1 .. Len(buffer) + 1
      /\ \A i \in DOMAIN buffer : buffer'[i] = buffer[i]
      /\ buffer'[Len(buffer) + 1] = Len(log) + 1
  BY <1>2, <1>4, <1>6
<1> QED
  BY <1>1, <1>2, <1>7, <1>8 DEF Written

\* The five actions have this in common.
LEMMA LoggingRecords ==
    ASSUME TypeOK, HeadingsKnown, Logging
    PROVE  /\ UNCHANGED <<clock, file, purge, cut, lost>>
           /\ \E kind \in Kinds, of \in 1 .. Len(log) + 1 :
                /\ Record(kind, of)
                /\ ~flushing /\ flushing' = (kind = "error")
                /\ kind = "start" <=> proc = "down"
                /\ kind = "start" => run' = Len(log) + 1 /\ cycle' = 0 /\ of = run'
                                     /\ container' \in {container, run'}
                /\ kind # "start" => UNCHANGED <<run, container>> /\ proc = "up"
                /\ proc' = "up"
                /\ kind = "period" => cycle' = Len(log) + 1 /\ of = cycle'
                /\ kind \notin {"start", "period"} => cycle' \in {0, cycle}
                /\ kind = "connect" => of = run
                /\ kind = "result" => cycle # 0 /\ of = cycle
                /\ kind = "error" => of = Len(log) + 1
<1>1. Len(log) \in Nat /\ run \in 0 .. Len(log) /\ cycle \in 0 .. Len(log)
  BY Lengths DEF TypeOK
<1>2. CASE Start
  <2>1. Record("start", Len(log) + 1) /\ ~flushing /\ flushing' = FALSE
    BY <1>2 DEF Start, TypeOK
  <2>2. /\ proc = "down" /\ proc' = "up" /\ run' = Len(log) + 1 /\ cycle' = 0
        /\ container' \in {container, run'}
        /\ UNCHANGED <<clock, file, purge, cut, lost>>
    BY <1>2 DEF Start, lost
  <2>3. "start" \in Kinds /\ Len(log) + 1 \in 1 .. Len(log) + 1
    BY <1>1 DEF Kinds
  <2> QED
    BY <2>1, <2>2, <2>3
<1>3. CASE LogConnect
  <2>1. Record("connect", run) /\ run \in 1 .. Len(log) + 1
    BY <1>1, <1>3 DEF LogConnect, LogRecord, HeadingsKnown
  <2> QED
    BY <1>3, <2>1 DEF LogConnect, LogRecord, Kinds, lost
<1>4. CASE LogPeriod
  <2>1. Record("period", Len(log) + 1) /\ Len(log) + 1 \in 1 .. Len(log) + 1
    BY <1>1, <1>4 DEF LogPeriod, LogRecord
  <2> QED
    BY <1>4, <2>1 DEF LogPeriod, LogRecord, Kinds, lost
<1>5. CASE LogResult
  <2>1. Record("result", cycle) /\ cycle \in 1 .. Len(log) + 1
    BY <1>1, <1>5 DEF LogResult, LogRecord
  <2> QED
    BY <1>5, <2>1 DEF LogResult, LogRecord, Kinds, lost
<1>6. CASE LogError
  <2>1. Record("error", Len(log) + 1) /\ Len(log) + 1 \in 1 .. Len(log) + 1
    BY <1>1, <1>6 DEF LogError, LogRecord
  <2> QED
    BY <1>6, <2>1 DEF LogError, LogRecord, Kinds, lost
<1> QED
  BY <1>2, <1>3, <1>4, <1>5, <1>6 DEF Logging

\* A heading stays the last one of its kind when something else is logged.
LEMMA LastStays ==
    ASSUME TypeOK, NEW kind, NEW of, Record(kind, of),
           NEW n, n = Len(log), NEW other, NEW h
    PROVE  /\ \A r \in DOMAIN log : LastUpTo(h, r, other) => LastUpTo(h, r, other)'
           /\ kind # other /\ LastUpTo(h, n, other) => LastUpTo(h, n + 1, other)'
           /\ LastUpTo(n + 1, n + 1, kind)'
<1>1. /\ n \in Nat /\ DOMAIN log = 1 .. n
      /\ \A q \in DOMAIN log : log'[q] = log[q]
      /\ log'[n + 1].kind = kind
  <2>1. log'[n + 1] = [kind |-> kind, at |-> clock, of |-> of]
    BY RecordAdds
  <2> QED
    BY <2>1, Lengths, RecordAdds
<1>2. ASSUME NEW r \in DOMAIN log, LastUpTo(h, r, other)
      PROVE  LastUpTo(h, r, other)'
  BY <1>1, <1>2 DEF LastUpTo
<1>3. ASSUME kind # other, LastUpTo(h, n, other)
      PROVE  LastUpTo(h, n + 1, other)'
  <2>1. h \in 1 .. n + 1 /\ log'[h].kind = other
    BY <1>1, <1>3 DEF LastUpTo
  <2>2. ASSUME NEW q \in h + 1 .. n + 1
        PROVE  log'[q].kind # other
    <3>1. CASE q = n + 1
      BY <1>1, <1>3, <3>1
    <3>2. CASE q \in h + 1 .. n
      BY <1>1, <1>3, <3>2 DEF LastUpTo
    <3> QED
      BY <1>1, <2>1, <3>1, <3>2
  <2> QED
    BY <2>1, <2>2 DEF LastUpTo
<1>4. LastUpTo(n + 1, n + 1, kind)'
  BY <1>1 DEF LastUpTo
<1> QED
  BY <1>2, <1>3, <1>4

LEMMA LoggingLog ==
    ASSUME TypeOK, LogInv, Logging
    PROVE  LogInv'
<1>1. /\ BufferIsRest /\ TimesGrow /\ HeadingsKnown /\ BeneathHeadings /\ CrashTakesRest
  BY DEF LogInv
<1>2. PICK kind \in Kinds, of \in 1 .. Len(log) + 1 :
        /\ Record(kind, of)
        /\ ~flushing /\ flushing' = (kind = "error")
        /\ kind = "start" <=> proc = "down"
        /\ kind = "start" => run' = Len(log) + 1 /\ cycle' = 0 /\ of = run'
                             /\ container' \in {container, run'}
        /\ kind # "start" => UNCHANGED <<run, container>> /\ proc = "up"
        /\ proc' = "up"
        /\ kind = "period" => cycle' = Len(log) + 1 /\ of = cycle'
        /\ kind \notin {"start", "period"} => cycle' \in {0, cycle}
        /\ kind = "connect" => of = run
        /\ kind = "result" => cycle # 0 /\ of = cycle
        /\ kind = "error" => of = Len(log) + 1
  BY <1>1, LoggingRecords
<1>3. UNCHANGED <<clock, file, purge, cut, raced, crashed>>
  BY <1>1, LoggingRecords DEF lost
<1>4. PICK n, l, newRun, newCycle :
        n = Len(log) /\ l = Len(buffer) /\ newRun = run' /\ newCycle = cycle'
  OBVIOUS
<1>5. Record(kind, of)
  BY <1>2
<1>6. /\ n \in Nat /\ DOMAIN log = 1 .. n /\ l \in Nat /\ DOMAIN buffer = 1 .. l
      /\ run \in 0 .. n /\ cycle \in 0 .. n /\ clock \in Nat /\ crashed \subseteq 1 .. n
      /\ container \in Nat /\ \A r \in DOMAIN log : log[r].at \in Nat /\ log[r].of \in Nat
  <2>1. /\ run \in 0 .. n /\ cycle \in 0 .. n /\ crashed \subseteq 1 .. n
        /\ container \in 1 .. MaxRecords
    BY <1>4 DEF TypeOK
  <2>2. MaxRecords \in Nat
    BY Lengths
  <2> QED
    BY <1>4, <2>1, <2>2, Lengths
<1>7. /\ Len(log') = n + 1 /\ DOMAIN log' = 1 .. n + 1
      /\ \A r \in 1 .. n : log'[r] = log[r]
      /\ log'[n + 1].kind = kind /\ log'[n + 1].at = clock /\ log'[n + 1].of = of
      /\ Len(buffer') = l + 1 /\ DOMAIN buffer' = 1 .. l + 1
      /\ \A i \in 1 .. l : buffer'[i] = buffer[i]
      /\ buffer'[l + 1] = n + 1
      /\ Written' = Written
  <2>1. log'[n + 1] = [kind |-> kind, at |-> clock, of |-> of]
    BY <1>4, <1>5, RecordAdds
  <2>2. log'[n + 1].kind = kind /\ log'[n + 1].at = clock /\ log'[n + 1].of = of
    BY <2>1
  <2>3. /\ Len(log') = n + 1 /\ DOMAIN log' = 1 .. n + 1
        /\ \A r \in 1 .. n : log'[r] = log[r]
    BY <1>4, <1>5, <1>6, RecordAdds
  <2>4. /\ Len(buffer') = l + 1 /\ DOMAIN buffer' = 1 .. l + 1
        /\ \A i \in 1 .. l : buffer'[i] = buffer[i]
        /\ buffer'[l + 1] = n + 1
        /\ Written' = Written
    BY <1>4, <1>5, <1>6, RecordAdds
  <2> QED
    BY <2>2, <2>3, <2>4
<1>8. n < MaxRecords /\ MaxRecords \in Nat /\ Written = n - l
  BY <1>4, <1>5, Lengths DEF Record, Written
<1>9. BufferIsRest'
  <2>1. ASSUME NEW i \in 1 .. l + 1
        PROVE  /\ buffer'[i] = Written + i
               /\ ~flushing' => log'[buffer'[i]].kind # "error"
    <3>1. CASE i = l + 1
      <4>1. buffer'[i] = Written + i /\ log'[buffer'[i]].kind = kind
        BY <1>6, <1>7, <1>8, <3>1
      <4>2. ~flushing' => kind # "error"
        BY <1>2
      <4> QED
        BY <4>1, <4>2
    <3>2. CASE i \in 1 .. l
      <4>1. buffer[i] = Written + i /\ l <= n
        BY <1>1, <1>4, <1>6, <3>2 DEF BufferIsRest
      <4>2. buffer[i] \in 1 .. n
        BY <1>6, <1>8, <3>2, <4>1
      <4>3. log[buffer[i]].kind # "error"
        BY <1>1, <1>2, <1>6, <3>2 DEF BufferIsRest
      <4> QED
        BY <1>7, <3>2, <4>1, <4>2, <4>3
    <3> QED
      BY <1>6, <3>1, <3>2
  <2>2. l + 1 <= n + 1 /\ n + 1 <= MaxRecords
    BY <1>1, <1>4, <1>6, <1>8 DEF BufferIsRest
  <2> QED
    BY <1>7, <2>1, <2>2 DEF BufferIsRest
<1>10. TimesGrow'
  <2>1. \A r \in 1 .. n : log[r].at <= clock
    BY <1>1, <1>6 DEF TimesGrow
  <2>2. \A r \in 1 .. n + 1 : log'[r].at <= clock
    <3>1. \A r \in 1 .. n + 1 : r = n + 1 \/ r \in 1 .. n
      BY <1>6
    <3> QED
      BY <1>6, <1>7, <2>1, <3>1
  <2>3. ASSUME NEW q \in 1 .. n + 1, NEW r \in 1 .. n + 1, q <= r
        PROVE  log'[q].at <= log'[r].at
    <3>1. CASE r = n + 1
      BY <1>7, <2>2, <3>1
    <3>2. CASE r # n + 1
      <4>1. q \in 1 .. n /\ r \in 1 .. n
        BY <1>6, <2>3, <3>2
      <4> QED
        BY <1>1, <1>6, <1>7, <2>3, <4>1 DEF TimesGrow
    <3> QED
      BY <3>1, <3>2
  <2> QED
    BY <1>3, <1>7, <2>2, <2>3 DEF TimesGrow
<1>11. HeadingsKnown'
  <2>1. newRun # 0 /\ LastUpTo(newRun, n + 1, "start")'
    <3>1. CASE kind = "start"
      <4>1. newRun = n + 1 /\ LastUpTo(n + 1, n + 1, "start")'
        BY <1>2, <1>4, <1>5, <3>1, LastStays
      <4> QED
        BY <1>6, <4>1
    <3>2. CASE kind # "start"
      <4>1. newRun = run /\ run # 0 /\ LastUpTo(newRun, n, "start")
        BY <1>1, <1>2, <1>4, <3>2 DEF HeadingsKnown
      <4> QED
        BY <1>4, <1>5, <3>2, <4>1, LastStays
    <3> QED
      BY <3>1, <3>2
  <2>2. newCycle # 0 => newRun < newCycle /\ LastUpTo(newCycle, n + 1, "period")'
    <3>1. CASE kind = "period"
      <4>1. newCycle = n + 1 /\ newRun = run /\ LastUpTo(n + 1, n + 1, "period")'
        BY <1>2, <1>4, <1>5, <3>1, LastStays
      <4> QED
        BY <1>6, <4>1
    <3>2. CASE kind = "start"
      BY <1>2, <1>4, <3>2
    <3>3. CASE kind \notin {"start", "period"}
      <4>1. newCycle \in {0, cycle} /\ newRun = run
        BY <1>2, <1>4, <3>3
      <4>2. newCycle # 0 => newRun < newCycle /\ LastUpTo(newCycle, n, "period")
        BY <1>1, <1>4, <4>1 DEF HeadingsKnown
      <4> QED
        BY <1>4, <1>5, <3>3, <4>2, LastStays
    <3> QED
      BY <3>1, <3>2, <3>3
  <2>3. container' # 1 => container' \in 1 .. n + 1 /\ log'[container'].kind = "start"
    <3>1. CASE container' = container
      BY <1>1, <1>6, <1>7, <3>1 DEF HeadingsKnown
    <3>2. CASE container' = n + 1 /\ kind = "start"
      BY <1>6, <1>7, <3>2
    <3> QED
      BY <1>2, <1>4, <3>1, <3>2
  <2> QED
    BY <1>4, <1>7, <2>1, <2>2, <2>3 DEF HeadingsKnown
<1>12. BeneathHeadings'
  <2>1. ASSUME NEW r \in 1 .. n, NEW h, h = log[r].of
        PROVE  /\ h <= r
               /\ log[r].kind = "result" => LastUpTo(h, r, "period")'
               /\ log[r].kind = "connect" => LastUpTo(h, r, "start")'
    <3>1. /\ h <= r
          /\ log[r].kind = "result" => LastUpTo(h, r, "period")
          /\ log[r].kind = "connect" => LastUpTo(h, r, "start")
      BY <1>1, <1>6, <2>1 DEF BeneathHeadings
    <3> QED
      BY <1>4, <1>5, <1>6, <3>1, LastStays
  <2>2. kind = "result" => LastUpTo(of, n + 1, "period")'
    <3>1. kind = "result" => LastUpTo(of, n, "period")
      BY <1>1, <1>2, <1>4 DEF HeadingsKnown
    <3> QED
      BY <1>4, <1>5, <3>1, LastStays
  <2>3. kind = "connect" => LastUpTo(of, n + 1, "start")'
    <3>1. kind = "connect" => LastUpTo(of, n, "start")
      BY <1>1, <1>2, <1>4 DEF HeadingsKnown
    <3> QED
      BY <1>4, <1>5, <3>1, LastStays
  <2>4. of <= n + 1
    BY <1>4, <1>6
  <2>5. ASSUME NEW r \in 1 .. n + 1, NEW h, h = log'[r].of
        PROVE  /\ h <= r
               /\ log'[r].kind = "result" => LastUpTo(h, r, "period")'
               /\ log'[r].kind = "connect" => LastUpTo(h, r, "start")'
    <3>1. CASE r = n + 1
      BY <1>7, <2>2, <2>3, <2>4, <2>5, <3>1
    <3>2. CASE r \in 1 .. n
      BY <1>7, <2>1, <2>5, <3>2
    <3> QED
      BY <1>6, <3>1, <3>2
  <2> QED
    BY <1>7, <2>5 DEF BeneathHeadings
<1>13. CrashTakesRest'
  <2>1. ASSUME NEW c \in crashed
        PROVE  c < newRun /\ of # c
    <3>1. CASE kind = "start"
      BY <1>2, <1>4, <1>6, <3>1
    <3>2. CASE kind # "start"
      <4>1. c < run /\ newRun = run
        BY <1>1, <1>2, <1>4, <3>2 DEF CrashTakesRest
      <4>2. of = run \/ of = n + 1 \/ (of = cycle /\ cycle # 0)
        <5>1. kind = "connect" \/ kind = "period" \/ kind = "result" \/ kind = "error"
          BY <3>2 DEF Kinds
        <5> QED
          BY <1>2, <1>4, <5>1
      <4>3. cycle # 0 => run < cycle
        BY <1>1 DEF HeadingsKnown
      <4> QED
        BY <1>6, <4>1, <4>2, <4>3
    <3> QED
      BY <3>1, <3>2
  <2>2. ASSUME NEW r \in 1 .. n + 1, log'[r].of \in crashed
        PROVE  r <= Written
    <3>1. r # n + 1
      BY <1>7, <2>1, <2>2
    <3>2. r \in 1 .. n /\ log[r].of \in crashed
      BY <1>6, <1>7, <2>2, <3>1
    <3> QED
      BY <1>1, <1>6, <3>2 DEF CrashTakesRest
  <2> QED
    BY <1>3, <1>4, <1>7, <2>1, <2>2 DEF CrashTakesRest
<1> QED
  BY <1>9, <1>10, <1>11, <1>12, <1>13 DEF LogInv

-----------------------------------------------------------------------------
(* The steps that log nothing.                                             *)

\* The buffer may shrink, and what a crash takes is all of it.
LEMMA LogStays ==
    ASSUME TypeOK, LogInv, UNCHANGED <<log, run, cycle, container>>,
           clock' \in Nat, clock <= clock',
           proc' # "down" => proc # "down" /\ crashed' = crashed,
           crashed' # crashed => Written' = Len(log),
           Written' \in Int, Written <= Written', BufferIsRest'
    PROVE  LogInv'
<1>1. /\ BufferIsRest /\ TimesGrow /\ HeadingsKnown /\ BeneathHeadings /\ CrashTakesRest
  BY DEF LogInv
<1>2. /\ Len(log) \in Nat /\ DOMAIN log = 1 .. Len(log) /\ Written \in Int /\ clock \in Nat
      /\ \A r \in DOMAIN log : log[r].at \in Nat /\ log[r].of \in Nat
  BY Lengths
<1>3. TimesGrow'
  BY <1>1, <1>2 DEF TimesGrow
<1>4. HeadingsKnown'
  BY <1>1 DEF HeadingsKnown, LastUpTo
<1>5. BeneathHeadings'
  BY <1>1 DEF BeneathHeadings, LastUpTo
<1>6. CrashTakesRest'
  <2>1. ASSUME NEW r \in DOMAIN log, log[r].of \in crashed'
        PROVE  r <= Written'
    <3>1. CASE log[r].of \in crashed
      <4>1. r <= Written
        BY <1>1, <2>1, <3>1 DEF CrashTakesRest
      <4> QED
        BY <1>2, <4>1
    <3>2. CASE log[r].of \notin crashed
      BY <1>2, <2>1, <3>2
    <3> QED
      BY <3>1, <3>2
  <2>2. proc' # "down" => \A c \in crashed' : c < run'
    BY <1>1 DEF CrashTakesRest
  <2> QED
    BY <1>2, <2>1, <2>2 DEF CrashTakesRest
<1> QED
  BY <1>1, <1>3, <1>4, <1>5, <1>6 DEF LogInv

\* A flush takes the buffer from its front.
LEMMA WriteFacts ==
    ASSUME TypeOK, LogInv, WriteRecord
    PROVE  /\ Head(buffer) = Written + 1 /\ Head(buffer) \in 1 .. Len(log)
           /\ Written' = Written + 1 /\ BufferIsRest'
           /\ buffer' \in Seq(1 .. Len(log)) /\ buffer # << >>
<1>1. buffer \in Seq(1 .. Len(log)) /\ buffer # << >> /\ buffer' = Tail(buffer)
  BY DEF TypeOK, WriteRecord
<1>2. /\ Len(buffer) \in Nat \ {0} /\ Head(buffer) = buffer[1] /\ 1 \in DOMAIN buffer
      /\ buffer' \in Seq(1 .. Len(log)) /\ Len(buffer') = Len(buffer) - 1
      /\ DOMAIN buffer' = 1 .. Len(buffer) - 1 /\ DOMAIN buffer = 1 .. Len(buffer)
      /\ \A i \in DOMAIN buffer' : buffer'[i] = buffer[i + 1] /\ i + 1 \in DOMAIN buffer
  BY <1>1
<1>3. Len(log) \in Nat /\ log' = log /\ Written = Len(log) - Len(buffer)
  BY Lengths DEF WriteRecord, Written
<1>4. Written' = Written + 1
  BY <1>2, <1>3 DEF Written
<1>5. Len(buffer) <= Len(log) /\ Len(log) <= MaxRecords /\ \A i \in DOMAIN buffer : buffer[i] = Written + i
  BY DEF LogInv, BufferIsRest
<1>6. Head(buffer) = Written + 1 /\ Head(buffer) \in 1 .. Len(log)
  BY <1>2, <1>3, <1>5
<1>7. ~flushing' => DOMAIN buffer' = {}
  <2>1. ~flushing' => buffer' = << >>
    BY DEF WriteRecord
  <2> QED
    BY <2>1
<1>8. \A i \in DOMAIN buffer' : buffer'[i] = Written' + i
  <2>1. ASSUME NEW i \in DOMAIN buffer'
        PROVE  buffer'[i] = Written' + i
    <3>1. buffer'[i] = Written + (i + 1) /\ i \in Nat
      BY <1>2, <1>5
    <3>2. Written \in Int
      BY Lengths
    <3> QED
      BY <1>4, <3>1, <3>2
  <2> QED
    BY <2>1
<1>9. BufferIsRest'
  BY <1>2, <1>3, <1>5, <1>7, <1>8 DEF BufferIsRest
<1> QED
  BY <1>1, <1>2, <1>4, <1>6, <1>9

LEMMA CrashFacts ==
    ASSUME TypeOK, LogInv, Crash
    PROVE  /\ Written' = Len(log) /\ Written <= Len(log) /\ Written' \in Int
           /\ crashed' = crashed \cup (Written + 1 .. Len(log))
           /\ BufferIsRest'
<1>1. /\ Len(log) \in Nat /\ Len(buffer) \in Nat /\ DOMAIN buffer = 1 .. Len(buffer)
      /\ Written = Len(log) - Len(buffer)
  BY Lengths DEF Written
<1>2. Len(buffer) <= Len(log) /\ Len(log) <= MaxRecords /\ \A i \in DOMAIN buffer : buffer[i] = Written + i
  BY DEF LogInv, BufferIsRest
<1>3. ToSet(buffer) = Written + 1 .. Len(log)
  <2>1. \A i \in DOMAIN buffer : buffer[i] \in Written + 1 .. Len(log)
    BY <1>1, <1>2
  <2>2. ASSUME NEW r \in Written + 1 .. Len(log)
        PROVE  r - Written \in DOMAIN buffer /\ buffer[r - Written] = r
    BY <1>1, <1>2
  <2> QED
    BY <2>1, <2>2 DEF ToSet
<1>4. {r \in ToSet(buffer) : flushing \/ log[r].kind # "error"} = ToSet(buffer)
  BY DEF LogInv, BufferIsRest, ToSet
<1>5. buffer' = << >> /\ log' = log /\ crashed' = crashed \cup (Written + 1 .. Len(log))
  BY <1>3, <1>4 DEF Crash
<1>6. Written' = Len(log)
  BY <1>1, <1>5 DEF Written
<1>7. BufferIsRest'
  BY <1>1, <1>2, <1>5 DEF BufferIsRest
<1> QED
  BY <1>1, <1>2, <1>5, <1>6, <1>7

LEMMA LogKept == TypeOK /\ LogInv /\ [Next]_vars => LogInv'
<1> SUFFICES ASSUME TypeOK, LogInv, [Next]_vars
             PROVE  LogInv'
  OBVIOUS
<1>1. /\ clock \in Nat /\ Written \in Int /\ Len(log) \in Nat /\ BufferIsRest
      /\ (flushing => buffer # << >>)
  BY Lengths DEF LogInv, TypeOK
<1>2. CASE Logging
  BY <1>2, LoggingLog
<1>3. CASE WriteRecord
  <2>1. /\ UNCHANGED <<log, run, cycle, container, clock, crashed>>
        /\ proc' # "down" => proc # "down"
    <3>1. proc # "down"
      BY <1>3 DEF WriteRecord, TypeOK
    <3> QED
      BY <1>3, <3>1 DEF WriteRecord
  <2> QED
    BY <1>1, <1>3, <2>1, LogStays, WriteFacts
<1>4. CASE Crash
  <2>1. UNCHANGED <<log, run, cycle, container, clock>> /\ proc' = "down"
    BY <1>4 DEF Crash
  <2> QED
    BY <1>1, <1>4, <2>1, LogStays, CrashFacts
<1>5. CASE Tick \/ Flush \/ Exit \/ PurgeRead \/ PurgeReplace \/ PurgeFails \/ UNCHANGED vars
  <2>1. /\ UNCHANGED <<log, run, cycle, container, crashed, buffer>>
        /\ clock' \in Nat /\ clock <= clock'
        /\ proc' # "down" => proc # "down"
    BY <1>1, <1>5 DEF Tick, Flush, Exit, PurgeRead, PurgeReplace, PurgeFails, vars, procVars, lost
  <2>2. flushing' = flushing \/ flushing' = TRUE
    BY <1>5 DEF Tick, Flush, Exit, PurgeRead, PurgeReplace, PurgeFails, vars, procVars, lost
  <2>3. Written' = Written /\ BufferIsRest'
    BY <1>1, <2>1, <2>2 DEF Written, BufferIsRest
  <2> QED
    BY <1>1, <2>1, <2>3, LogStays
<1> QED
  BY <1>2, <1>3, <1>4, <1>5 DEF Next, Logging

-----------------------------------------------------------------------------
(* Types.                                                                  *)

LEMMA MaxOfTwo ==
    ASSUME NEW a \in Int, NEW b \in Int
    PROVE  Max({a, b}) \in {a, b} /\ Max({a, b}) >= a /\ Max({a, b}) >= b
<1>1. \E x \in {a, b} : \A y \in {a, b} : x >= y
  <2>1. CASE a >= b
    BY <2>1
  <2>2. CASE b >= a
    BY <2>2
  <2> QED
    BY <2>1, <2>2
<1>2. Max({a, b}) \in {a, b} /\ \A y \in {a, b} : Max({a, b}) >= y
  BY <1>1 DEF Max
<1> QED
  BY <1>2

\* The lines of a record that has been logged.
LEMMA LinesOf ==
    ASSUME TypeOK, LogInv, NEW r \in DOMAIN log
    PROVE  /\ Lines(r) \in Seq(LineType) /\ Len(Lines(r)) \in 1 .. 2
           /\ \A i \in 1 .. Len(Lines(r)) : Lines(r)[i] = [rec |-> r, part |-> i]
<1>1. r \in 1 .. MaxRecords
  BY Lengths DEF LogInv, BufferIsRest
<1> DEFINE entry == [rec |-> r, part |-> 1]
           rest == [rec |-> r, part |-> 2]
<1>2. entry \in LineType /\ rest \in LineType
  BY <1>1 DEF LineType
<1> HIDE DEF entry, rest
<1>3. CASE log[r].kind = "error"
  <2>1. Lines(r) = <<entry, rest>>
    BY <1>3 DEF Lines, entry, rest
  <2>2. /\ <<entry, rest>> \in Seq(LineType) /\ Len(<<entry, rest>>) = 2
        /\ <<entry, rest>>[1] = entry /\ <<entry, rest>>[2] = rest
    BY <1>2
  <2>3. \A i \in 1 .. 2 : i = 1 \/ i = 2
    OBVIOUS
  <2> QED
    BY <2>1, <2>2, <2>3 DEF entry, rest
<1>4. CASE log[r].kind # "error"
  <2>1. Lines(r) = <<entry>>
    BY <1>4 DEF Lines, entry
  <2>2. <<entry>> \in Seq(LineType) /\ Len(<<entry>>) = 1 /\ <<entry>>[1] = entry
    BY <1>2
  <2>3. \A i \in 1 .. 1 : i = 1
    OBVIOUS
  <2> QED
    BY <2>1, <2>2, <2>3 DEF entry
<1> QED
  BY <1>3, <1>4

LEMMA TypeKept == TypeOK /\ LogInv /\ [Next]_vars => TypeOK'
<1> SUFFICES ASSUME TypeOK, LogInv, [Next]_vars
             PROVE  TypeOK'
  OBVIOUS
<1>1. /\ Len(log) \in Nat /\ Len(log) <= MaxRecords /\ MaxClock \in Nat /\ MaxAge \in Nat
      /\ MaxRecords \in Nat \ {0}
  BY Lengths, LogFileAssumption DEF LogFileAssumption, LogInv, BufferIsRest
<1>2. CASE Logging
  <2>1. PICK kind \in Kinds, of \in 1 .. Len(log) + 1 :
          /\ Record(kind, of)
          /\ flushing' \in BOOLEAN
          /\ proc' = "up"
          /\ run' \in {run, Len(log) + 1} /\ cycle' \in {0, cycle, Len(log) + 1}
          /\ container' \in {container, Len(log) + 1}
    BY <1>2, LoggingRecords DEF LogInv
  <2> DEFINE new == [kind |-> kind, at |-> clock, of |-> of]
             LogType == [kind : Kinds, at : 0 .. MaxClock, of : 1 .. MaxRecords]
  <2>2. /\ log' = Append(log, new) /\ buffer' = Append(buffer, Len(log) + 1)
        /\ Len(log) + 1 <= MaxRecords
    BY <1>1, <2>1 DEF Record
  <2>3. log \in Seq(LogType) /\ new \in LogType
    BY <1>1, <2>2 DEF TypeOK
  <2>4. log' \in Seq(LogType) /\ Len(log') = Len(log) + 1
    <3> HIDE DEF new, LogType
    <3> QED
      BY <2>2, <2>3
  <2>5. buffer' \in Seq(1 .. Len(log')) /\ buffer' # << >>
    <3>1. buffer \in Seq(1 .. Len(log))
      BY DEF TypeOK
    <3>2. 1 .. Len(log) \subseteq 1 .. Len(log) + 1
      BY <1>1
    <3>3. buffer \in Seq(1 .. Len(log) + 1)
      BY <3>1, <3>2, SeqMonotonic
    <3>4. Len(log) + 1 \in 1 .. Len(log) + 1
      BY <1>1
    <3>5. /\ Append(buffer, Len(log) + 1) \in Seq(1 .. Len(log) + 1)
          /\ Append(buffer, Len(log) + 1) # << >>
      BY <3>3, <3>4
    <3> QED
      BY <2>2, <2>4, <3>5
  <2>6. /\ run' \in 0 .. Len(log') /\ cycle' \in 0 .. Len(log') /\ container' \in 1 .. MaxRecords
        /\ raced \subseteq 1 .. Len(log') /\ crashed \subseteq 1 .. Len(log')
    <3>1. /\ run \in 0 .. Len(log) /\ cycle \in 0 .. Len(log) /\ container \in 1 .. MaxRecords
          /\ raced \subseteq 1 .. Len(log) /\ crashed \subseteq 1 .. Len(log)
      BY DEF TypeOK
    <3>2. \A r \in 1 .. Len(log) : r \in 1 .. Len(log')
      BY <1>1, <2>4
    <3>3. raced \subseteq 1 .. Len(log') /\ crashed \subseteq 1 .. Len(log')
      BY <3>1, <3>2
    <3>4. /\ run' \in 0 .. Len(log') /\ cycle' \in 0 .. Len(log')
          /\ container' \in 1 .. MaxRecords
      <4>1. Len(log) + 1 <= MaxRecords /\ Len(log') = Len(log) + 1
        BY <2>2, <2>4
      <4>2. /\ run' = run \/ run' = Len(log) + 1
            /\ cycle' = 0 \/ cycle' = cycle \/ cycle' = Len(log) + 1
            /\ container' = container \/ container' = Len(log) + 1
        BY <2>1
      <4> QED
        BY <1>1, <3>1, <4>1, <4>2
    <3> QED
      BY <3>3, <3>4
  <2>7. UNCHANGED <<clock, file, purge, cut, raced, crashed>>
    BY <1>2, LoggingRecords DEF LogInv, lost
  <2>8. proc' = "up" /\ flushing' \in BOOLEAN
    BY <2>1
  <2> QED
    BY <2>4, <2>5, <2>6, <2>7, <2>8 DEF TypeOK
<1>3. CASE WriteRecord
  <2>1. file' \in Seq(LineType)
    <3>1. Lines(Head(buffer)) \in Seq(LineType)
      BY <1>3, Lengths, LinesOf, WriteFacts
    <3> QED
      BY <1>3, <3>1 DEF WriteRecord, TypeOK
  <2>2. /\ UNCHANGED <<clock, log, run, cycle, container, purge, cut, crashed>>
        /\ buffer' \in Seq(1 .. Len(log)) /\ flushing' = (buffer' # << >>)
    BY <1>3, WriteFacts DEF WriteRecord
  <2>3. raced' \subseteq 1 .. Len(log)
    BY <1>3, WriteFacts DEF WriteRecord, TypeOK
  <2>4. proc' \in {"up", "closing", "down"} /\ (proc' = "down" => buffer' = << >>)
    <3>1. proc # "down" /\ proc \in {"up", "closing", "down"}
      BY <1>3, WriteFacts DEF TypeOK
    <3> QED
      BY <1>3, <3>1 DEF WriteRecord
  <2> QED
    BY <2>1, <2>2, <2>3, <2>4 DEF TypeOK
<1>4. CASE Crash
  <2>1. /\ UNCHANGED <<clock, log, run, cycle, container, file, purge, cut, raced>>
        /\ proc' = "down" /\ buffer' = << >> /\ flushing' = FALSE
    BY <1>4 DEF Crash
  <2>2. crashed' \subseteq 1 .. Len(log)
    <3>1. ToSet(buffer) \subseteq 1 .. Len(log)
      <4>1. buffer \in Seq(1 .. Len(log))
        BY DEF TypeOK
      <4> QED
        BY <4>1 DEF ToSet
    <3> QED
      BY <1>4, <3>1 DEF Crash, TypeOK
  <2>3. << >> \in Seq(1 .. Len(log))
    OBVIOUS
  <2> QED
    BY <2>1, <2>2, <2>3 DEF TypeOK
<1>5. CASE Tick \/ UNCHANGED vars
  <2>1. clock' \in 0 .. MaxClock
    <3>1. clock \in 0 .. MaxClock
      BY DEF TypeOK
    <3>2. clock' = clock \/ (clock < MaxClock /\ clock' = clock + 1)
      BY <1>5 DEF Tick, vars
    <3> QED
      BY <1>1, <3>1, <3>2
  <2>2. UNCHANGED <<log, proc, run, cycle, container, buffer, flushing, file, purge, cut, raced, crashed>>
    BY <1>5 DEF Tick, vars, procVars, lost
  <2> QED
    BY <2>1, <2>2 DEF TypeOK
<1>6. CASE Flush \/ Exit
  BY <1>6 DEF Flush, Exit, TypeOK, procVars, lost
<1>7. CASE PurgeRead
  <2>1. Kept(file, clock - MaxAge) \in Seq(LineType)
    BY KeptSelects DEF TypeOK
  <2>2. purge' \in [st : {"idle", "replace"}, cutoff : Int, tmp : Seq(LineType)]
    BY <1>1, <1>7, <2>1 DEF PurgeRead, TypeOK
  <2> QED
    BY <1>7, <2>2 DEF PurgeRead, TypeOK, procVars, lost
<1>8. CASE PurgeReplace \/ PurgeFails
  <2>1. purge.cutoff \in Int /\ purge.tmp \in Seq(LineType) /\ cut \in Int
    BY DEF TypeOK
  <2>2. file' \in Seq(LineType) /\ cut' \in Int
    BY <1>8, <2>1, MaxOfTwo DEF PurgeReplace, PurgeFails, TypeOK
  <2>3. purge' \in [st : {"idle", "replace"}, cutoff : Int, tmp : Seq(LineType)]
    <3>1. << >> \in Seq(LineType) /\ purge' = NoPurge
      BY <1>8 DEF PurgeReplace, PurgeFails
    <3> QED
      BY <3>1 DEF NoPurge
  <2>4. UNCHANGED <<clock, log, proc, run, cycle, container, buffer, flushing, raced, crashed>>
    BY <1>8 DEF PurgeReplace, PurgeFails, procVars, lost
  <2> QED
    BY <2>2, <2>3, <2>4 DEF TypeOK
<1> QED
  BY <1>2, <1>3, <1>4, <1>5, <1>6, <1>7, <1>8 DEF Next, Logging

-----------------------------------------------------------------------------
(* The file and its copy.                                                  *)

\* A copy of the file stays what it is while the program goes on, as long as
\* what is written elsewhere or crashes is recorded.
LEMMA CopyStays ==
    ASSUME TypeOK, LogInv, NEW copy, CopyInv(copy),
           DOMAIN log \subseteq DOMAIN log', \A r \in DOMAIN log : log'[r] = log[r],
           Written' \in Int, Written <= Written', Written + 1 .. Written' \subseteq raced' \cup crashed',
           raced \subseteq raced', crashed \subseteq crashed',
           \A r \in crashed' \ crashed : Written < r,
           cut' \in Int, cut <= cut'
    PROVE  CopyInv(copy)'
<1> DEFINE lines == copy.lines
<1>1. /\ Written \in Int /\ DOMAIN log = 1 .. Len(log) /\ Len(log) \in Nat /\ cut \in Int
      /\ Written <= Len(log)
      /\ \A r \in DOMAIN log : log[r].at \in Nat /\ log[r].of \in Nat
  BY Lengths DEF Written
<1>2. /\ Whole(lines) /\ InOrder(lines) /\ FromWritten(lines) /\ NoHoles(lines)
      /\ LossesUpTo(lines, copy.cutoff)
  BY DEF CopyInv
<1>3. ASSUME NEW r \in 1 .. Written
      PROVE  r \in DOMAIN log /\ log'[r] = log[r] /\ r \in 1 .. Written'
  BY <1>1
<1>4. \A i \in DOMAIN lines : lines[i].rec \in 1 .. Written
  BY <1>2 DEF FromWritten, RecsIn
<1>5. Whole(lines)'
  <2>1. ASSUME NEW i \in DOMAIN lines
        PROVE  Lines(lines[i].rec)' = Lines(lines[i].rec)
    BY <1>3, <1>4 DEF Lines
  <2> QED
    BY <1>2, <2>1 DEF Whole
<1>6. InOrder(lines)'
  BY <1>2 DEF InOrder
<1>7. FromWritten(lines)'
  <2>1. ASSUME NEW r \in RecsIn(lines)
        PROVE  r \in 1 .. Written' /\ log'[r].of \notin crashed'
    <3>1. r \in 1 .. Written /\ log[r].of \notin crashed
      BY <1>2, <2>1 DEF FromWritten
    <3>2. log[r].of <= r /\ log[r].of \in Nat
      BY <1>1, <1>3, <3>1 DEF LogInv, BeneathHeadings
    <3>3. log[r].of \notin crashed' \ crashed
      BY <1>1, <3>1, <3>2
    <3> QED
      BY <1>3, <3>1, <3>3
  <2> QED
    BY <2>1 DEF FromWritten, RecsIn
<1>8. NoHoles(lines)'
  <2>1. ASSUME NEW p \in RecsIn(lines), NEW r \in 1 .. Written', p < r
        PROVE  r \in RecsIn(lines) \cup raced' \cup crashed'
    <3>1. CASE r \in 1 .. Written
      BY <1>2, <2>1, <3>1 DEF NoHoles
    <3>2. CASE r \notin 1 .. Written
      BY <1>1, <2>1, <3>2
    <3> QED
      BY <3>1, <3>2
  <2> QED
    BY <2>1 DEF NoHoles, RecsIn
<1>9. LossesUpTo(lines, copy.cutoff)'
  <2>1. ASSUME NEW r \in 1 .. Written'
        PROVE  \/ r \in RecsIn(lines) \cup raced' \cup crashed'
               \/ log'[r].at < cut' \/ log'[r].at < copy.cutoff
    <3>1. CASE r \in 1 .. Written
      <4>1. \/ r \in RecsIn(lines) \cup raced \cup crashed
            \/ log[r].at < cut \/ log[r].at < copy.cutoff
        BY <1>2, <3>1 DEF LossesUpTo
      <4>2. log'[r] = log[r] /\ log[r].at \in Nat
        BY <1>1, <1>3, <3>1
      <4>3. log[r].at < cut => log[r].at < cut'
        BY <1>1, <4>2
      <4> QED
        BY <4>1, <4>2, <4>3
    <3>2. CASE r \notin 1 .. Written
      BY <1>1, <2>1, <3>2
    <3> QED
      BY <3>1, <3>2
  <2> QED
    BY <2>1 DEF LossesUpTo, RecsIn
<1> QED
  BY <1>5, <1>6, <1>7, <1>8, <1>9 DEF CopyInv

\* Writing a record adds its lines behind the others.
LEMMA WriteAdds ==
    ASSUME TypeOK, LogInv, CopyInv([lines |-> file, cutoff |-> cut]), WriteRecord,
           NEW copy, copy = [lines |-> file', cutoff |-> cut']
    PROVE  CopyInv(copy)'
<1> DEFINE lines == copy.lines
           h == Head(buffer)
           n == Len(file)
           new == Len(Lines(h))
<1>1. /\ h = Written + 1 /\ h \in DOMAIN log /\ Written' = Written + 1
      /\ Written \in Int /\ DOMAIN log = 1 .. Len(log)
  BY Lengths, WriteFacts
<1>2. /\ Lines(h) \in Seq(LineType) /\ new \in 1 .. 2
      /\ \A i \in 1 .. new : Lines(h)[i] = [rec |-> h, part |-> i]
  BY <1>1, LinesOf
<1>3. file \in Seq(LineType) /\ n \in Nat /\ DOMAIN file = 1 .. n
  BY DEF TypeOK
<1>4. /\ lines = file \o Lines(h) /\ lines \in Seq(LineType) /\ DOMAIN lines = 1 .. n + new
      /\ \A i \in 1 .. n : lines[i] = file[i]
      /\ \A i \in 1 .. new : lines[n + i] = [rec |-> h, part |-> i]
  <2>1. lines = file \o Lines(h)
    BY DEF WriteRecord
  <2> HIDE DEF h, lines
  <2>2. lines \in Seq(LineType) /\ Len(lines) = n + new
    BY <1>2, <1>3, <2>1, ConcatProperties
  <2>3. \A i \in 1 .. n : lines[i] = file[i]
    BY <1>2, <1>3, <2>1, ConcatProperties
  <2>4. ASSUME NEW i \in 1 .. new
        PROVE  lines[n + i] = Lines(h)[i]
    <3>1. n + i \in 1 .. n + new /\ ~ (n + i <= n) /\ (n + i) - n = i
      BY <1>2, <1>3
    <3> QED
      BY <1>2, <1>3, <2>1, <3>1, ConcatProperties
  <2> QED
    BY <1>2, <2>1, <2>2, <2>3, <2>4
<1>5. UNCHANGED <<log, cut, crashed>> /\ raced \subseteq raced'
  BY DEF WriteRecord
<1> HIDE DEF h, new
<1>6. ASSUME NEW i \in DOMAIN lines, i \notin 1 .. n
      PROVE  \E j \in 1 .. new : i = n + j /\ lines[i].rec = h /\ lines[i].part = j
  <2> HIDE DEF lines
  <2>1. i - n \in 1 .. new /\ i = n + (i - n)
    BY <1>2, <1>3, <1>4, <1>6
  <2>2. lines[n + (i - n)] = [rec |-> h, part |-> i - n]
    BY <1>4, <2>1
  <2>3. lines[i].rec = h /\ lines[i].part = i - n
    BY <2>1, <2>2
  <2> QED
    BY <2>1, <2>3
<1>7. /\ Whole(file) /\ InOrder(file) /\ FromWritten(file) /\ NoHoles(file)
      /\ LossesUpTo(file, cut)
  BY DEF CopyInv
<1>8. \A i \in 1 .. n : file[i].rec \in RecsIn(file) /\ file[i].rec \in 1 .. Written
  BY <1>3, <1>7 DEF FromWritten, RecsIn
<1>9. n + 1 \in DOMAIN lines /\ lines[n + 1].rec = h
  <2> HIDE DEF lines
  <2>1. 1 \in 1 .. new /\ n + 1 \in 1 .. n + new
    BY <1>2, <1>3
  <2>2. lines[n + 1] = [rec |-> h, part |-> 1]
    BY <1>4, <2>1
  <2> QED
    BY <1>4, <2>1, <2>2
<1>10. RecsIn(lines) = RecsIn(file) \cup {h}
  <2>1. RecsIn(lines) \subseteq RecsIn(file) \cup {h}
    <3>1. ASSUME NEW i \in DOMAIN lines
          PROVE  lines[i].rec \in RecsIn(file) \cup {h}
      <4>1. CASE i \in 1 .. n
        BY <1>4, <1>8, <4>1
      <4>2. CASE i \notin 1 .. n
        BY <1>6, <4>2
      <4> QED
        BY <4>1, <4>2
    <3> QED
      BY <3>1 DEF RecsIn
  <2>2. RecsIn(file) \subseteq RecsIn(lines)
    BY <1>2, <1>3, <1>4 DEF RecsIn
  <2>3. h \in RecsIn(lines)
    BY <1>9 DEF RecsIn
  <2> QED
    BY <2>1, <2>2, <2>3
<1>11. Whole(lines)'
  <2>1. ASSUME NEW i \in DOMAIN lines, NEW line \in ToSet(Lines(lines[i].rec))
        PROVE  line \in ToSet(lines)
    <3>1. CASE i \in 1 .. n
      <4>1. line \in ToSet(file)
        BY <1>3, <1>4, <1>7, <2>1, <3>1 DEF Whole
      <4> QED
        BY <1>2, <1>3, <1>4, <4>1 DEF ToSet
    <3>2. CASE i \notin 1 .. n
      <4>1. lines[i].rec = h
        BY <1>6, <3>2
      <4>2. PICK k \in DOMAIN Lines(h) : line = Lines(h)[k]
        BY <2>1, <4>1 DEF ToSet
      <4>3. k \in 1 .. new /\ n + k \in DOMAIN lines /\ lines[n + k] = line
        BY <1>2, <1>3, <1>4, <4>2 DEF new
      <4> QED
        BY <4>3 DEF ToSet
    <3> QED
      BY <3>1, <3>2
  <2>2. \A i \in DOMAIN lines : Lines(lines[i].rec)' = Lines(lines[i].rec)
    BY <1>5 DEF Lines
  <2> QED
    BY <2>1, <2>2 DEF Whole
<1>12. InOrder(lines)'
  <2>1. ASSUME NEW i \in DOMAIN lines, NEW j \in DOMAIN lines, i < j
        PROVE  \/ lines[i].rec < lines[j].rec
               \/ lines[i].rec = lines[j].rec /\ lines[i].part < lines[j].part
    <3>1. CASE i \in 1 .. n /\ j \in 1 .. n
      BY <1>3, <1>4, <1>7, <2>1, <3>1 DEF InOrder
    <3>2. CASE i \in 1 .. n /\ j \notin 1 .. n
      <4>1. lines[j].rec = Written + 1 /\ lines[i].rec \in 1 .. Written
        BY <1>1, <1>4, <1>6, <1>8, <3>2
      <4> QED
        BY <1>1, <4>1
    <3>3. CASE i \notin 1 .. n
      <4>1. j \notin 1 .. n
        BY <1>2, <1>3, <1>4, <2>1, <3>3
      <4>2. PICK k \in 1 .. new : i = n + k /\ lines[i].rec = h /\ lines[i].part = k
        BY <1>6, <3>3
      <4>3. PICK m \in 1 .. new : j = n + m /\ lines[j].rec = h /\ lines[j].part = m
        BY <1>6, <4>1
      <4>4. k < m
        BY <1>2, <1>3, <2>1, <4>2, <4>3
      <4> QED
        BY <4>2, <4>3, <4>4
    <3> QED
      BY <3>1, <3>2, <3>3
  <2> QED
    BY <2>1 DEF InOrder
<1>13. FromWritten(lines)'
  <2>1. ASSUME NEW r \in RecsIn(lines)
        PROVE  r \in 1 .. Written + 1 /\ log[r].of \notin crashed
    <3>1. CASE r \in RecsIn(file)
      BY <1>1, <1>7, <3>1 DEF FromWritten
    <3>2. CASE r = h
      <4>1. ~ (h <= Written)
        BY <1>1
      <4> QED
        BY <1>1, <3>2, <4>1 DEF LogInv, CrashTakesRest
    <3> QED
      BY <1>10, <3>1, <3>2
  <2> QED
    BY <1>1, <1>5, <2>1 DEF FromWritten, RecsIn
<1>14. NoHoles(lines)'
  <2>1. ASSUME NEW p \in RecsIn(lines), NEW r \in 1 .. Written + 1, p < r
        PROVE  r \in RecsIn(lines) \cup raced' \cup crashed
    <3>1. CASE r = h
      BY <1>10, <3>1
    <3>2. CASE r # h
      <4>1. r \in 1 .. Written /\ p \in RecsIn(file)
        BY <1>1, <1>10, <2>1, <3>2
      <4> QED
        BY <1>5, <1>7, <1>10, <2>1, <4>1 DEF NoHoles
    <3> QED
      BY <3>1, <3>2
  <2> QED
    BY <1>1, <1>5, <2>1 DEF NoHoles, RecsIn
<1>15. LossesUpTo(lines, cut)'
  <2>1. ASSUME NEW r \in 1 .. Written + 1
        PROVE  r \in RecsIn(lines) \cup raced' \cup crashed \/ log[r].at < cut
    <3>1. CASE r = h
      BY <1>10, <3>1
    <3>2. CASE r # h
      <4>1. r \in 1 .. Written
        BY <1>1, <3>2
      <4> QED
        BY <1>5, <1>7, <1>10, <4>1 DEF LossesUpTo
    <3> QED
      BY <3>1, <3>2
  <2> QED
    BY <1>1, <1>5, <2>1 DEF LossesUpTo, RecsIn
<1> QED
  BY <1>11, <1>12, <1>13, <1>14, <1>15 DEF CopyInv

\* In a file of whole records a line goes by the age of its own record.
LEMMA KeptByAge ==
    ASSUME TypeOK, LogInv, NEW lines \in Seq(LineType), NEW cutoff \in Int,
           Whole(lines), InOrder(lines), FromWritten(lines)
    PROVE  KeptAt(lines, cutoff) = {i \in DOMAIN lines : log[lines[i].rec].at >= cutoff}
<1>1. DOMAIN lines = 1 .. Len(lines) /\ Len(lines) \in Nat
  OBVIOUS
<1>2. ASSUME NEW i \in DOMAIN lines
      PROVE  EntryAt(lines, i) # 0 /\ lines[EntryAt(lines, i)].rec = lines[i].rec
  <2> DEFINE r == lines[i].rec
             entries == {k \in 1 .. i : lines[k].part = 1}
  <2>1. r \in DOMAIN log
    BY Lengths DEF FromWritten, RecsIn, Written
  <2>2. \A k \in DOMAIN lines : lines[k].part \in {1, 2} /\ lines[k].rec \in Nat
    <3>1. \A k \in DOMAIN lines : lines[k] \in LineType
      OBVIOUS
    <3> QED
      BY <3>1 DEF LineType
  <2>3. PICK j \in DOMAIN lines : lines[j].rec = r /\ lines[j].part = 1
    <3>1. 1 \in DOMAIN Lines(r) /\ Lines(r)[1] = [rec |-> r, part |-> 1]
      BY <2>1, LinesOf
    <3>2. [rec |-> r, part |-> 1] \in ToSet(Lines(r))
      BY <3>1 DEF ToSet
    <3>3. [rec |-> r, part |-> 1] \in ToSet(lines)
      BY <3>2 DEF Whole
    <3>4. PICK j \in DOMAIN lines : lines[j] = [rec |-> r, part |-> 1]
      BY <3>3 DEF ToSet
    <3> QED
      BY <3>4
  <2>4. j <= i
    <3>1. SUFFICES ASSUME i < j
                   PROVE  FALSE
      BY <1>1
    <3>2. \/ lines[i].rec < lines[j].rec
          \/ lines[i].rec = lines[j].rec /\ lines[i].part < lines[j].part
      BY <3>1 DEF InOrder
    <3> QED
      BY <2>2, <2>3, <3>2
  <2>5. j \in entries /\ entries \subseteq 1 .. i /\ i \in Nat
    BY <1>1, <2>3, <2>4
  <2> DEFINE e == Max(entries)
  <2>6. e \in entries /\ j <= e
    BY <2>5, MaxOf
  <2> HIDE DEF e
  <2>7. e \in DOMAIN lines /\ e <= i /\ lines[e].part = 1
    BY <1>1, <2>6
  <2>8. lines[e].rec = r
    <3>1. SUFFICES ASSUME lines[e].rec # r
                   PROVE  FALSE
      OBVIOUS
    <3>2. j < e /\ e < i
      BY <1>1, <2>3, <2>6, <2>7, <3>1
    <3>3. r < lines[e].rec
      BY <2>3, <2>7, <3>2 DEF InOrder
    <3>4. \/ lines[e].rec < r
          \/ lines[e].rec = r
      BY <2>7, <3>2 DEF InOrder
    <3> QED
      BY <2>2, <2>7, <3>3, <3>4
  <2>9. EntryAt(lines, i) = e
    BY <2>5 DEF EntryAt, e
  <2> QED
    BY <1>1, <2>7, <2>8, <2>9
<1>3. ASSUME NEW i \in DOMAIN lines
      PROVE  KeepsAt(lines, cutoff, i) <=> log[lines[i].rec].at >= cutoff
  BY <1>2 DEF KeepsAt
<1> QED
  BY <1>3 DEF KeptAt

\* A purge copies all that is no older than its cutoff.
LEMMA ReadCopies ==
    ASSUME TypeOK, LogInv, CopyInv([lines |-> file, cutoff |-> cut]), NEW cutoff \in Int,
           NEW copy, copy = [lines |-> Kept(file, cutoff), cutoff |-> cutoff]
    PROVE  CopyInv(copy)
<1> DEFINE lines == copy.lines
           l == Len(lines)
<1>1. /\ Whole(file) /\ InOrder(file) /\ FromWritten(file) /\ NoHoles(file)
      /\ LossesUpTo(file, cut)
  BY DEF CopyInv
<1>2. file \in Seq(LineType) /\ lines \in Seq(LineType) /\ DOMAIN lines = 1 .. l
  <2>1. file \in Seq(LineType)
    BY DEF TypeOK
  <2>2. lines \in Seq(LineType)
    BY <2>1, KeptSelects
  <2> QED
    BY <2>1, <2>2
<1>3. KeptAt(file, cutoff) = {i \in DOMAIN file : log[file[i].rec].at >= cutoff}
  BY <1>1, <1>2, KeptByAge
<1>4. Selects(lines, file, KeptAt(file, cutoff))
  BY <1>2, KeptSelects
<1>5. PICK at \in [1 .. l -> KeptAt(file, cutoff)] :
        /\ \A m, n \in 1 .. l : m < n => at[m] < at[n]
        /\ \A i \in KeptAt(file, cutoff) : \E m \in 1 .. l : at[m] = i
        /\ \A m \in 1 .. l : lines[m] = file[at[m]]
  BY <1>4 DEF Selects
<1> HIDE DEF lines, l
<1>6. ASSUME NEW m \in 1 .. l
      PROVE  /\ at[m] \in DOMAIN file /\ lines[m] = file[at[m]]
             /\ log[lines[m].rec].at >= cutoff
  BY <1>3, <1>5
<1>7. ASSUME NEW i \in DOMAIN file, log[file[i].rec].at >= cutoff
      PROVE  \E m \in 1 .. l : lines[m] = file[i]
  BY <1>3, <1>5, <1>7
<1>8. RecsIn(lines) \subseteq RecsIn(file) /\ \A r \in RecsIn(lines) : log[r].at >= cutoff
  BY <1>2, <1>6 DEF RecsIn
<1>9. ASSUME NEW r \in RecsIn(file), log[r].at >= cutoff
      PROVE  r \in RecsIn(lines)
  BY <1>2, <1>7, <1>9 DEF RecsIn
<1>10. Whole(lines)
  <2>1. ASSUME NEW m \in 1 .. l, NEW line \in ToSet(Lines(lines[m].rec))
        PROVE  line \in ToSet(lines)
    <3> DEFINE r == lines[m].rec
    <3>1. r \in DOMAIN log
      <4>1. r \in RecsIn(lines)
        BY <1>2 DEF RecsIn
      <4>2. r \in 1 .. Written
        BY <1>1, <1>8, <4>1 DEF FromWritten
      <4> QED
        BY <4>2, Lengths DEF Written
    <3>2. line.rec = r
      <4>1. PICK k \in DOMAIN Lines(r) : line = Lines(r)[k]
        BY DEF ToSet
      <4>2. Lines(r)[k] = [rec |-> r, part |-> k]
        BY <3>1, <4>1, LinesOf
      <4> QED
        BY <4>1, <4>2
    <3>3. PICK i \in DOMAIN file : line = file[i]
      BY <1>1, <1>6 DEF Whole, ToSet
    <3>4. \E k \in 1 .. l : lines[k] = file[i]
      BY <1>6, <1>7, <3>2, <3>3
    <3> QED
      BY <1>2, <3>3, <3>4 DEF ToSet
  <2> QED
    BY <1>2, <2>1 DEF Whole
<1>11. InOrder(lines)
  <2>1. ASSUME NEW m \in 1 .. l, NEW n \in 1 .. l, m < n
        PROVE  \/ lines[m].rec < lines[n].rec
               \/ lines[m].rec = lines[n].rec /\ lines[m].part < lines[n].part
    <3>1. at[m] < at[n]
      BY <1>5, <2>1
    <3> QED
      BY <1>1, <1>6, <3>1 DEF InOrder
  <2> QED
    BY <1>2, <2>1 DEF InOrder
<1>12. FromWritten(lines)
  BY <1>1, <1>8 DEF FromWritten
<1>13. NoHoles(lines)
  <2>1. ASSUME NEW p \in RecsIn(lines), NEW r \in 1 .. Written, p < r
        PROVE  r \in RecsIn(lines) \cup raced \cup crashed
    <3>1. r \in RecsIn(file) \cup raced \cup crashed
      BY <1>1, <1>8, <2>1 DEF NoHoles
    <3>2. log[p].at <= log[r].at /\ log[p].at >= cutoff
      <4>1. p \in DOMAIN log /\ r \in DOMAIN log
        BY <1>1, <1>8, Lengths DEF FromWritten, Written
      <4> QED
        BY <1>8, <2>1, <4>1, Lengths DEF LogInv, TimesGrow
    <3>3. log[r].at >= cutoff
      <4>1. p \in DOMAIN log /\ r \in DOMAIN log
        BY <1>1, <1>8, Lengths DEF FromWritten, Written
      <4> QED
        BY <3>2, <4>1, Lengths
    <3> QED
      BY <1>9, <3>1, <3>3
  <2> QED
    BY <2>1 DEF NoHoles
<1>14. LossesUpTo(lines, cutoff)
  <2>1. ASSUME NEW r \in 1 .. Written
        PROVE  \/ r \in RecsIn(lines) \cup raced \cup crashed
               \/ log[r].at < cut \/ log[r].at < cutoff
    <3>1. r \in DOMAIN log /\ log[r].at \in Nat
      BY Lengths DEF Written
    <3>2. r \in RecsIn(file) \cup raced \cup crashed \/ log[r].at < cut
      BY <1>1 DEF LossesUpTo
    <3> QED
      BY <1>9, <3>1, <3>2
  <2> QED
    BY <2>1 DEF LossesUpTo
<1> QED
  BY <1>10, <1>11, <1>12, <1>13, <1>14 DEF CopyInv, lines

\* Every step leaves every copy whole, and accounts for what it lacks.
LEMMA CopiesKept ==
    ASSUME TypeOK, LogInv, \A copy \in Copies : CopyInv(copy), [Next]_vars,
           NEW new \in Copies'
    PROVE  CopyInv(new)'
<1> DEFINE copying == purge.st = "replace"
           of_file == [lines |-> file, cutoff |-> cut]
           of_purge == [lines |-> purge.tmp, cutoff |-> purge.cutoff]
<1>1. CopyInv(of_file) /\ (copying => CopyInv(of_purge))
  BY DEF Copies
<1>2. \/ new = [lines |-> file', cutoff |-> cut']
      \/ purge'.st = "replace" /\ new = [lines |-> purge'.tmp, cutoff |-> purge'.cutoff]
  BY DEF Copies
<1>3. /\ Written \in Int /\ cut \in Int /\ DOMAIN log = 1 .. Len(log) /\ Len(log) \in Nat
      /\ clock \in Nat
  BY Lengths
<1>4. CASE Logging
  <2>1. PICK kind \in Kinds, of \in 1 .. Len(log) + 1 : Record(kind, of)
    BY <1>4, LoggingRecords DEF LogInv
  <2>2. UNCHANGED <<file, purge, cut, raced, crashed>>
    BY <1>4, LoggingRecords DEF LogInv, lost
  <2>3. CopyInv(new)
    BY <1>1, <1>2, <2>2
  <2>4. /\ Written' = Written /\ DOMAIN log \subseteq DOMAIN log'
        /\ \A r \in DOMAIN log : log'[r] = log[r]
    <3>1. /\ Written' = Written /\ DOMAIN log' = 1 .. Len(log) + 1
          /\ \A r \in DOMAIN log : log'[r] = log[r]
      BY <2>1, RecordAdds
    <3> QED
      BY <1>3, <3>1
  <2> QED
    BY <1>3, <2>2, <2>3, <2>4, CopyStays
<1>5. CASE WriteRecord
  <2>1. UNCHANGED <<log, purge, cut, crashed>> /\ Written' = Written + 1
    BY <1>5, WriteFacts DEF WriteRecord
  <2>2. CASE new = [lines |-> file', cutoff |-> cut']
    BY <1>1, <1>5, <2>2, WriteAdds
  <2>3. CASE copying /\ new = of_purge
    <3>1. raced' = raced \cup {Written + 1}
      BY <1>5, <2>3, WriteFacts DEF WriteRecord
    <3>2. Written + 1 .. Written' \subseteq raced' \cup crashed'
      BY <1>3, <2>1, <3>1
    <3> QED
      BY <1>1, <1>3, <2>1, <2>3, <3>1, <3>2, CopyStays
  <2> QED
    BY <1>2, <2>1, <2>2, <2>3
<1>6. CASE Crash
  <2>1. UNCHANGED <<log, file, purge, cut, raced>>
    BY <1>6 DEF Crash
  <2>2. /\ Written' \in Int /\ Written <= Written' /\ Written' = Len(log)
        /\ crashed' = crashed \cup (Written + 1 .. Len(log))
    BY <1>6, CrashFacts
  <2>3. CopyInv(new)
    BY <1>1, <1>2, <2>1
  <2>4. \A r \in crashed' \ crashed : Written < r
    BY <1>3, <2>2
  <2> QED
    BY <1>3, <2>1, <2>2, <2>3, <2>4, CopyStays
<1>7. ASSUME UNCHANGED <<log, buffer, raced, crashed>>, cut' \in Int, cut <= cut', CopyInv(new)
      PROVE  CopyInv(new)'
  <2>1. Written' = Written
    BY <1>7 DEF Written
  <2>2. Written + 1 .. Written' = {}
    BY <1>3, <2>1
  <2> QED
    BY <1>3, <1>7, <2>1, <2>2, CopyStays
<1>8. CASE Tick \/ Flush \/ Exit \/ PurgeFails \/ UNCHANGED vars
  <2>1. /\ UNCHANGED <<log, buffer, raced, crashed, file, cut>>
        /\ purge' = purge \/ purge'.st = "idle"
    BY <1>8 DEF Tick, Flush, Exit, PurgeFails, NoPurge, vars, procVars, lost
  <2>2. CopyInv(new)
    BY <1>1, <1>2, <2>1
  <2> QED
    BY <1>3, <1>7, <2>1, <2>2
<1>9. CASE PurgeRead
  <2>1. /\ UNCHANGED <<log, buffer, raced, crashed, file, cut>>
        /\ purge' = [st |-> "replace", cutoff |-> clock - MaxAge,
                     tmp |-> Kept(file, clock - MaxAge)]
    BY <1>9 DEF PurgeRead, procVars, lost
  <2>2. clock - MaxAge \in Int
    BY <1>3, LogFileAssumption DEF LogFileAssumption
  <2>3. CopyInv(new)
    <3>1. CASE new = of_file
      BY <1>1, <3>1
    <3>2. CASE new = [lines |-> Kept(file, clock - MaxAge), cutoff |-> clock - MaxAge]
      BY <1>1, <2>2, <3>2, ReadCopies
    <3> QED
      BY <1>2, <2>1, <3>1, <3>2
  <2> QED
    BY <1>3, <1>7, <2>1, <2>3
<1>10. CASE PurgeReplace
  <2>1. /\ UNCHANGED <<log, buffer, raced, crashed>> /\ copying
        /\ file' = purge.tmp /\ purge'.st = "idle" /\ cut' = Max({cut, purge.cutoff})
    BY <1>10 DEF PurgeReplace, NoPurge, procVars, lost
  <2>2. purge.cutoff \in Int /\ cut' \in Int /\ cut <= cut' /\ purge.cutoff <= cut'
    <3>1. purge.cutoff \in Int
      BY DEF TypeOK
    <3> QED
      BY <1>3, <2>1, <3>1, MaxOfTwo
  <2>3. new.lines = purge.tmp /\ new.cutoff = cut'
    BY <1>2, <2>1
  <2>4. CopyInv(of_purge)
    BY <1>1, <2>1
  <2>5. LossesUpTo(purge.tmp, cut')
    <3>1. ASSUME NEW r \in 1 .. Written
          PROVE  \/ r \in RecsIn(purge.tmp) \cup raced \cup crashed
                 \/ log[r].at < cut \/ log[r].at < cut'
      <4>1. log[r].at \in Nat
        BY Lengths DEF Written
      <4>2. \/ r \in RecsIn(purge.tmp) \cup raced \cup crashed
            \/ log[r].at < cut \/ log[r].at < purge.cutoff
        BY <2>4 DEF CopyInv, LossesUpTo
      <4> QED
        BY <2>2, <4>1, <4>2
    <3> QED
      BY <3>1 DEF LossesUpTo
  <2>6. CopyInv(new)
    BY <2>3, <2>4, <2>5 DEF CopyInv
  <2> QED
    BY <1>7, <2>1, <2>2, <2>6
<1> QED
  BY <1>4, <1>5, <1>6, <1>8, <1>9, <1>10 DEF Next, Logging

-----------------------------------------------------------------------------
(* The theorems.                                                           *)

LEMMA InitInv == Init => IInv
<1> SUFFICES ASSUME Init
             PROVE  IInv
  OBVIOUS
<1>1. /\ Len(log) = 0 /\ DOMAIN log = {} /\ Len(buffer) = 0 /\ DOMAIN buffer = {}
      /\ DOMAIN file = {} /\ Written = 0 /\ 1 .. Written = {}
  BY DEF Init, Written
<1>2. /\ MaxAge \in Nat /\ MaxRecords \in Nat \ {0} /\ MaxClock \in Nat
  BY LogFileAssumption DEF LogFileAssumption
<1>3. TypeOK
  <2>1. /\ log \in Seq([kind : Kinds, at : 0 .. MaxClock, of : 1 .. MaxRecords])
        /\ buffer \in Seq(1 .. Len(log)) /\ file \in Seq(LineType)
    BY DEF Init
  <2>2. /\ clock \in 0 .. MaxClock /\ run \in 0 .. Len(log) /\ cycle \in 0 .. Len(log)
        /\ container \in 1 .. MaxRecords /\ cut \in Int
    BY <1>1, <1>2 DEF Init
  <2>3. purge \in [st : {"idle", "replace"}, cutoff : Int, tmp : Seq(LineType)]
    BY DEF Init, NoPurge
  <2> QED
    BY <2>1, <2>2, <2>3 DEF TypeOK, Init
<1>4. LogInv
  BY <1>1, <1>2 DEF Init, LogInv, BufferIsRest, TimesGrow, HeadingsKnown, BeneathHeadings,
                    CrashTakesRest
<1>5. Copies = {[lines |-> file, cutoff |-> cut]}
  BY DEF Init, NoPurge, Copies
<1>6. CopyInv([lines |-> file, cutoff |-> cut])
  BY <1>1 DEF CopyInv, Whole, InOrder, FromWritten, NoHoles, LossesUpTo, RecsIn
<1> QED
  BY <1>3, <1>4, <1>5, <1>6 DEF IInv

\* The invariant that the other theorems follow from.
THEOREM LogFileInductive == Spec => []IInv
<1>1. IInv /\ [Next]_vars => IInv'
  <2> SUFFICES ASSUME IInv, [Next]_vars
               PROVE  IInv'
    OBVIOUS
  <2>1. TypeOK /\ LogInv /\ \A copy \in Copies : CopyInv(copy)
    BY DEF IInv
  <2>2. TypeOK' /\ LogInv'
    BY <2>1, TypeKept, LogKept
  <2>3. \A copy \in Copies' : CopyInv(copy)'
    BY <2>1, CopiesKept
  <2> QED
    BY <2>2, <2>3 DEF IInv
<1> QED
  BY <1>1, InitInv, PTL DEF Spec

\* The variables of the log file keep their types.
THEOREM LogFileTypeCorrect == Spec => []TypeOK
<1>1. IInv => TypeOK
  BY DEF IInv
<1> QED
  BY <1>1, LogFileInductive, PTL

LEMMA FileCopy ==
    ASSUME IInv
    PROVE  /\ TypeOK /\ LogInv
           /\ Whole(file) /\ InOrder(file) /\ FromWritten(file) /\ NoHoles(file)
           /\ LossesUpTo(file, cut)
           /\ Written \in Int /\ Len(log) \in Nat /\ DOMAIN log = 1 .. Len(log)
           /\ Written <= Len(log) /\ DOMAIN file = 1 .. Len(file) /\ Len(file) \in Nat
<1>1. TypeOK /\ LogInv /\ CopyInv([lines |-> file, cutoff |-> cut])
  BY DEF IInv, Copies
<1>2. /\ Written \in Int /\ Len(log) \in Nat /\ DOMAIN log = 1 .. Len(log)
      /\ Written <= Len(log)
  BY <1>1, Lengths DEF Written
<1>3. DOMAIN file = 1 .. Len(file) /\ Len(file) \in Nat
  BY <1>1 DEF TypeOK
<1> QED
  BY <1>1, <1>2, <1>3 DEF CopyInv

\* LossAccountedFor: a record that has been logged is in the file or the
\* buffer, unless a purge found it too old, it was written while a purge
\* replaced the file, or the process was killed before it was written.
THEOREM LogFileLosses == Spec => []LossAccountedFor
<1>1. IInv => LossAccountedFor
  <2> SUFFICES ASSUME IInv, NEW r \in DOMAIN log
               PROVE  \/ r \in ToSet(Recs(file)) \cup ToSet(buffer)
                      \/ log[r].at < cut
                      \/ r \in raced \cup crashed
    BY DEF LossAccountedFor
  <2>1. CASE r \in 1 .. Written
    <3>1. RecsIn(file) = ToSet(Recs(file))
      BY DEF RecsIn, Recs, ToSet
    <3> QED
      BY <2>1, <3>1, FileCopy DEF LossesUpTo
  <2>2. CASE r \notin 1 .. Written
    <3>1. /\ Len(buffer) \in Nat /\ DOMAIN buffer = 1 .. Len(buffer)
          /\ Written = Len(log) - Len(buffer)
      BY FileCopy, Lengths DEF Written
    <3>2. \A i \in DOMAIN buffer : buffer[i] = Written + i
      BY FileCopy DEF LogInv, BufferIsRest
    <3>3. r - Written \in DOMAIN buffer /\ buffer[r - Written] = r
      BY <2>2, <3>1, <3>2, FileCopy
    <3> QED
      BY <3>3 DEF ToSet
  <2> QED
    BY <2>1, <2>2
<1> QED
  BY <1>1, LogFileInductive, PTL

\* WholeAndInOrder: after any purge the file holds whole records, each once
\* and in the order of logging.
THEOREM LogFileWhole == Spec => []WholeAndInOrder
<1>1. IInv => WholeAndInOrder
  BY FileCopy, Zenon DEF WholeAndInOrder, Whole, InOrder
<1> QED
  BY <1>1, LogFileInductive, PTL

\* A record in the file whose own heading is missing there has no earlier
\* heading of that kind there either.
LEMMA HeadingShown ==
    ASSUME IInv, NEW kind, \A q \in raced : log[q].kind # kind,
           NEW r \in RecsIn(file), LastUpTo(log[r].of, r, kind),
           NEW p \in RecsIn(file), log[p].kind = kind, p <= r
    PROVE  log[r].of \in RecsIn(file)
<1> DEFINE c == log[r].of
<1>1. r \in 1 .. Written /\ p \in 1 .. Written /\ c \notin crashed /\ Written \in Int
  BY FileCopy DEF FromWritten
<1>2. c \in 1 .. r /\ log[c].kind = kind /\ \A q \in c + 1 .. r : log[q].kind # kind
  BY DEF LastUpTo
<1> HIDE DEF c
<1>3. p <= c
  BY <1>1, <1>2
<1>4. CASE p < c
  <2>1. c \in RecsIn(file) \cup raced \cup crashed
    BY <1>1, <1>2, <1>4, FileCopy DEF NoHoles
  <2> QED
    BY <1>1, <1>2, <2>1 DEF c
<1> QED
  BY <1>1, <1>2, <1>3, <1>4 DEF c

\* ResultsKeepTheirWindow: the loss report shows a result under the window of
\* its own cycle or not at all, whatever was purged or lost in a crash.
THEOREM LogFileResults == Spec => []ResultsKeepTheirWindow
<1>1. IInv => ResultsKeepTheirWindow
  <2> SUFFICES ASSUME IInv, \A r \in raced : log[r].kind # "period",
                      NEW entry \in ScanSummary(file)
               PROVE  log[entry[2]].of = entry[1]
    BY DEF ResultsKeepTheirWindow
  <2> DEFINE periods(i) == {j \in 1 .. i : log[file[j].rec].kind = "period"}
             last(i) == IF periods(i) # {} THEN Max(periods(i)) ELSE 0
  <2>1. ScanSummary(file) =
          {<<file[last(i)].rec, file[i].rec>> :
             i \in {j \in DOMAIN file : log[file[j].rec].kind = "result" /\ last(j) # 0}}
    BY Zenon DEF ScanSummary, SelectLastInSubSeq
  <2>2. PICK i \in DOMAIN file :
          /\ log[file[i].rec].kind = "result" /\ last(i) # 0
          /\ entry = <<file[last(i)].rec, file[i].rec>>
    BY <2>1
  <2> DEFINE r == file[i].rec
             c == log[r].of
             w == Max(periods(i))
             p == file[w].rec
  <2>3. /\ DOMAIN file = 1 .. Len(file) /\ Len(file) \in Nat /\ InOrder(file)
        /\ i \in Nat /\ 1 .. i \subseteq DOMAIN file
    <3>1. DOMAIN file = 1 .. Len(file) /\ Len(file) \in Nat /\ InOrder(file)
      BY FileCopy
    <3> QED
      BY <3>1
  <2>4. w \in periods(i) /\ \A j \in periods(i) : j <= w
    <3>1. periods(i) \subseteq 1 .. i /\ periods(i) # {}
      BY <2>2
    <3> HIDE DEF periods
    <3> QED
      BY <2>3, <3>1, MaxOf
  <2>5. entry[1] = p /\ entry[2] = r
    BY <2>2
  <2> HIDE DEF w
  <2>6. w \in DOMAIN file /\ w \in 1 .. i /\ log[p].kind = "period"
    BY <2>3, <2>4
  <2>7. /\ r \in RecsIn(file) /\ p \in RecsIn(file)
        /\ r \in 1 .. Written /\ p \in 1 .. Written /\ Written \in Int
    BY <2>2, <2>6, FileCopy DEF RecsIn, FromWritten
  <2>8. LastUpTo(c, r, "period")
    <3>1. r \in DOMAIN log
      BY <2>7, FileCopy
    <3> QED
      BY <2>2, <3>1, FileCopy DEF LogInv, BeneathHeadings
  <2>9. c \in 1 .. r /\ log[c].kind = "period" /\ \A q \in c + 1 .. r : log[q].kind # "period"
    BY <2>8 DEF LastUpTo
  <2>10. p <= r
    <3>1. w = i \/ w < i
      BY <2>3, <2>6
    <3> QED
      BY <2>3, <2>6, <2>7, <3>1 DEF InOrder
  <2>11. c \in RecsIn(file)
    BY <2>6, <2>7, <2>8, <2>10, HeadingShown
  <2>12. PICK k \in DOMAIN file : file[k].rec = c
    BY <2>11 DEF RecsIn
  <2>13. c <= p
    <3>1. k <= i
      <4>1. c < r
        <5>1. c # r
          BY <2>2, <2>9
        <5> QED
          BY <2>7, <2>9, <5>1
      <4>2. i < k => r < c \/ r = c
        BY <2>3, <2>12 DEF InOrder
      <4> HIDE DEF r, c
      <4> QED
        BY <2>3, <2>7, <2>9, <2>12, <4>1, <4>2
    <3>2. k \in periods(i)
      BY <2>3, <2>9, <2>12, <3>1
    <3>3. k <= w
      BY <2>4, <3>2
    <3>4. k = w \/ k < w
      BY <2>6, <2>12, <3>3, FileCopy
    <3> HIDE DEF r, c, periods
    <3> QED
      BY <2>6, <2>7, <2>9, <2>12, <3>4, FileCopy DEF InOrder
  <2>14. p <= c
    <3> HIDE DEF r, c, p
    <3> QED
      BY <2>6, <2>7, <2>9, <2>10
  <2> HIDE DEF r, c, p
  <2>15. c = p
    BY <2>7, <2>9, <2>13, <2>14
  <2> QED
    BY <2>5, <2>15 DEF c
<1> QED
  BY <1>1, LogFileInductive, PTL

\* ConnectionsKeepTheirRestart: so does the restart history with connections
\* and restarts, whatever part of the log the container still has.
THEOREM LogFileConnections == Spec => []ConnectionsKeepTheirRestart
<1>1. IInv => ConnectionsKeepTheirRestart
  <2> SUFFICES ASSUME IInv, \A r \in raced : log[r].kind # "start",
                      NEW entry \in RestartHistory(ReadSources)
               PROVE  log[entry[2]].of = entry[1]
    BY DEF ConnectionsKeepTheirRestart
  <2> DEFINE prev(r) == {s \in ReadSources : s < r /\ log[s].kind = "start"}
  <2>1. PICK r \in ReadSources :
          log[r].kind = "connect" /\ prev(r) # {} /\ entry = <<Max(prev(r)), r>>
    BY DEF RestartHistory
  <2> DEFINE c == log[r].of
             s == Max(prev(r))
  <2>2. ReadSources = RecsIn(file) \cup container .. Len(log)
    BY DEF ReadSources, RecsIn, Recs, ToSet
  <2>3. /\ RecsIn(file) \subseteq 1 .. Written /\ Written \in Int /\ Len(log) \in Nat
        /\ Written <= Len(log) /\ container \in Nat /\ container >= 1
    <3>1. container \in 1 .. MaxRecords /\ MaxRecords \in Nat
      BY FileCopy, Lengths DEF TypeOK
    <3> QED
      BY <3>1, FileCopy DEF FromWritten
  <2>4. ReadSources \subseteq 1 .. Len(log)
    BY <2>2, <2>3
  <2>5. /\ s \in ReadSources /\ s < r /\ log[s].kind = "start"
        /\ \A q \in prev(r) : q <= s
    <3>1. prev(r) \subseteq 1 .. Len(log)
      BY <2>4
    <3>2. s \in prev(r) /\ \A q \in prev(r) : q <= s
      <4> HIDE DEF prev
      <4> QED
        BY <2>1, <2>3, <3>1, MaxOf
    <3> QED
      BY <3>2
  <2> HIDE DEF s
  <2>6. LastUpTo(c, r, "start")
    <3>1. r \in DOMAIN log
      BY <2>4, FileCopy
    <3> QED
      BY <2>1, <3>1, FileCopy DEF LogInv, BeneathHeadings
  <2>7. /\ c \in 1 .. r /\ log[c].kind = "start" /\ c < r /\ r \in 1 .. Len(log)
        /\ \A q \in c + 1 .. r : log[q].kind # "start"
    <3>1. c \in 1 .. r /\ log[c].kind = "start" /\ \A q \in c + 1 .. r : log[q].kind # "start"
      BY <2>6 DEF LastUpTo
    <3>2. c # r
      BY <2>1, <3>1
    <3> QED
      BY <2>4, <3>1, <3>2
  <2> HIDE DEF c
  <2>8. s <= c
    BY <2>4, <2>5, <2>7
  <2>9. c \in ReadSources
    <3>1. CASE c = s
      BY <2>5, <3>1
    <3>2. CASE c >= container
      BY <2>2, <2>3, <2>7, <3>2
    <3>3. CASE s < c /\ c < container
      <4>1. r < container
        <5>1. SUFFICES ASSUME container <= r
                       PROVE  FALSE
          BY <2>3, <2>7
        <5>2. container # 1
          BY <2>7, <3>3
        <5>3. log[container].kind = "start"
          BY <5>2, FileCopy DEF LogInv, HeadingsKnown
        <5>4. container \in c + 1 .. r
          BY <2>3, <2>7, <3>3, <5>1
        <5> QED
          BY <2>7, <5>3, <5>4
      <4>2. r \in RecsIn(file) /\ s \in RecsIn(file)
        BY <2>1, <2>2, <2>3, <2>4, <2>5, <3>3, <4>1
      <4>3. s <= r
        BY <2>4, <2>5
      <4>4. c \in RecsIn(file)
        BY <2>5, <2>6, <4>2, <4>3, HeadingShown DEF c
      <4> QED
        BY <2>2, <4>4
    <3> QED
      BY <2>3, <2>4, <2>5, <2>7, <2>8, <3>1, <3>2, <3>3
  <2>10. c <= s
    BY <2>5, <2>7, <2>9
  <2>11. c = s
    BY <2>4, <2>5, <2>7, <2>8, <2>10
  <2> QED
    BY <2>1, <2>11 DEF c, s
<1> QED
  BY <1>1, LogFileInductive, PTL
=============================================================================
