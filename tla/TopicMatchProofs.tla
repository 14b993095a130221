-------------------------- MODULE TopicMatchProofs --------------------------
(***************************************************************************)
(* What the query of a configured topic stands for, and that subscription, *)
(* query and replay channel agree: for every set of level names and every  *)
(* length of a topic.                                                      *)
(***************************************************************************)
EXTENDS TopicMatch, SequenceTheorems, TLAPS

-----------------------------------------------------------------------------
(* Topics as sequences.                                                    *)

\* A configured topic is a topic with nothing, "/" or "/#" behind it.
Behind(filter, topic) ==
    \/ filter = topic
    \/ filter = topic \o <<Empty>>
    \/ filter = topic \o <<Hash>>

LEMMA Distinct == Hash # Empty
BY DEF Hash, Empty

LEMMA TopicIsSeq ==
    ASSUME NEW t \in Topics
    PROVE  /\ t \in Seq(Levels) /\ Len(t) \in Nat \ {0} /\ DOMAIN t = 1 .. Len(t)
           /\ t # << >>
           /\ \A i \in 1 .. Len(t) : t[i] \in Levels /\ t[i] # Hash /\ t[i] # Empty
<1>1. PICK n \in 1 .. MaxLevels : t \in [1 .. n -> Levels]
  BY DEF Topics
<1>2. n \in Nat \ {0} /\ Hash \notin Levels /\ Empty \notin Levels
  <2>1. MaxLevels \in Nat /\ Hash \notin Levels /\ Empty \notin Levels
    BY TopicMatchAssumption DEF TopicMatchAssumption
  <2> QED
    BY <1>1, <2>1
<1>3. t \in Seq(Levels) /\ Len(t) = n /\ DOMAIN t = 1 .. n
  <2>1. t \in [1 .. n -> Levels] /\ DOMAIN t = 1 .. n
    BY <1>1
  <2>2. t \in Seq(Levels)
    BY <1>2, <2>1, SeqDef
  <2> QED
    BY <1>2, <2>1, <2>2, LenProperties
<1> QED
  BY <1>1, <1>2, <1>3

LEMMA FilterIsTopic ==
    ASSUME NEW f \in Filters
    PROVE  \E t \in Topics : Behind(f, t)
BY DEF Filters, Behind

\* The one level behind a topic.
LEMMA OneMore ==
    ASSUME NEW t \in Topics, NEW last
    PROVE  /\ Len(t \o <<last>>) = Len(t) + 1
           /\ (t \o <<last>>)[Len(t) + 1] = last
           /\ \A i \in 1 .. Len(t) : (t \o <<last>>)[i] = t[i]
           /\ SubSeq(t \o <<last>>, 1, Len(t)) = t
           /\ SubSeq(t, 1, Len(t)) = t
<1> DEFINE S == Levels \cup {last}
<1>1. t \in Seq(S) /\ <<last>> \in Seq(S) /\ Len(<<last>>) = 1 /\ Len(t) \in Nat \ {0}
  <2>1. t \in Seq(Levels) /\ Len(t) \in Nat \ {0}
    BY TopicIsSeq
  <2>2. Levels \subseteq S /\ last \in S
    OBVIOUS
  <2> HIDE DEF S
  <2>3. t \in Seq(S)
    BY <2>1, <2>2, SeqMonotonic
  <2>4. <<last>> \in Seq(S) /\ Len(<<last>>) = 1
    BY <2>2
  <2> QED
    BY <2>1, <2>3, <2>4
<1>2. /\ Len(t \o <<last>>) = Len(t) + 1
      /\ \A i \in 1 .. Len(t) + 1 : (t \o <<last>>)[i] =
           IF i <= Len(t) THEN t[i] ELSE <<last>>[i - Len(t)]
  <2> HIDE DEF S
  <2> QED
    BY <1>1, ConcatProperties
<1>3. SubSeq(t \o <<last>>, 1, Len(t)) = SubSeq(t, 1, Len(t))
  <2> HIDE DEF S
  <2> QED
    BY <1>1, SubSeqOfConcat1
<1>4. SubSeq(t, 1, Len(t)) = t
  <2> HIDE DEF S
  <2> QED
    BY <1>1, SubSeqFull
<1>5. (t \o <<last>>)[Len(t) + 1] = last
  BY <1>1, <1>2
<1> QED
  BY <1>1, <1>2, <1>3, <1>4, <1>5

\* A wildcard ends in "#", and nothing else does.
LEMMA WildcardBehind ==
    ASSUME NEW t \in Topics, NEW f, Behind(f, t)
    PROVE  /\ IsWildcard(f) <=> f = t \o <<Hash>>
           /\ IsWildcard(f) => Front(f) = t
<1>1. Len(t) \in Nat \ {0} /\ t[Len(t)] # Hash
  BY TopicIsSeq
<1>2. CASE f = t
  <2>1. ~IsWildcard(f)
    BY <1>1, <1>2 DEF IsWildcard, Last
  <2>2. Len(t \o <<Hash>>) = Len(t) + 1
    BY OneMore
  <2> QED
    BY <1>1, <1>2, <2>1, <2>2
<1>3. CASE f = t \o <<Empty>>
  <2>1. Len(f) = Len(t) + 1 /\ f[Len(t) + 1] = Empty /\ (t \o <<Hash>>)[Len(t) + 1] = Hash
    BY <1>3, OneMore
  <2> QED
    BY <2>1, Distinct DEF IsWildcard, Last
<1>4. CASE f = t \o <<Hash>>
  <2>1. Len(f) = Len(t) + 1 /\ f[Len(t) + 1] = Hash /\ SubSeq(f, 1, Len(t)) = t
    BY <1>4, OneMore
  <2> QED
    BY <1>1, <1>4, <2>1 DEF IsWildcard, Last, Front
<1> QED
  BY <1>2, <1>3, <1>4 DEF Behind

-----------------------------------------------------------------------------
\* The query is the topic before the wildcard or the slash: all trailing empty
\* levels are gone and nothing else.
LEMMA QueryIsTopic ==
    ASSUME NEW t \in Topics, NEW f, Behind(f, t)
    PROVE  TopicToQuery(f) = t
<1> DEFINE prefix == IF IsWildcard(f) THEN Front(f) ELSE f
           kept == {n \in 0 .. Len(prefix) :
                      \A i \in n + 1 .. Len(prefix) : prefix[i] = Empty}
<1>1. Len(t) \in Nat \ {0} /\ \A i \in 1 .. Len(t) : t[i] # Empty
  BY TopicIsSeq
<1>2. prefix = t \/ prefix = t \o <<Empty>>
  BY WildcardBehind DEF Behind
<1>3. /\ Len(prefix) \in {Len(t), Len(t) + 1}
      /\ Len(prefix) = Len(t) + 1 => prefix[Len(t) + 1] = Empty
      /\ \A i \in 1 .. Len(t) : prefix[i] = t[i]
      /\ SubSeq(prefix, 1, Len(t)) = t
  <2> HIDE DEF prefix
  <2> QED
    BY <1>1, <1>2, OneMore
<1>4. TopicToQuery(f) = SubSeq(prefix, 1, CHOOSE n \in kept : \A m \in kept : n <= m)
  BY DEF TopicToQuery
<1> HIDE DEF prefix
<1>5. Len(t) \in kept
  BY <1>1, <1>3
<1>6. \A m \in kept : Len(t) <= m
  <2> SUFFICES ASSUME NEW m \in kept, m < Len(t) PROVE FALSE
    BY <1>1, <1>3
  <2>1. Len(t) \in m + 1 .. Len(prefix)
    BY <1>1, <1>3
  <2> QED
    BY <1>1, <1>3, <2>1
<1>7. kept \subseteq Nat
  OBVIOUS
<1> HIDE DEF kept
<1>8. (CHOOSE n \in kept : \A m \in kept : n <= m) = Len(t)
  <2>1. \A n \in kept : (\A m \in kept : n <= m) => n = Len(t)
    BY <1>1, <1>5, <1>6, <1>7
  <2> QED
    BY <1>5, <1>6, <2>1
<1> QED
  BY <1>3, <1>4, <1>8

-----------------------------------------------------------------------------
(* The theorems.                                                           *)

Chosen == configured \in Filters /\ published \in Topics

LEMMA AlwaysChosen == Spec => []Chosen
<1>1. Init => Chosen
  BY DEF Init, Chosen
<1>2. Chosen /\ [Next]_vars => Chosen'
  BY DEF Chosen, Next, Publish, vars
<1> QED
  BY <1>1, <1>2, PTL DEF Spec

\* What a subscription takes in, the service is asked for.
THEOREM TopicMatchRequested == Spec => []BaselineIsRequested
<1>1. Chosen => BaselineIsRequested
  <2> SUFFICES ASSUME Chosen, TopicMatches(configured, published)
               PROVE  ServiceMatches(TopicToQuery(configured), published)
    BY DEF BaselineIsRequested
  <2>1. PICK t \in Topics : Behind(configured, t)
    BY FilterIsTopic DEF Chosen
  <2>2. TopicToQuery(configured) = t /\ t # << >>
    BY <2>1, QueryIsTopic, TopicIsSeq
  <2>3. CASE IsWildcard(configured)
    <3>1. IsPrefix(t, published)
      BY <2>1, <2>3, WildcardBehind DEF TopicMatches
    <3> QED
      BY <2>2, <3>1 DEF ServiceMatches
  <2>4. CASE ~IsWildcard(configured)
    <3>1. configured = published
      BY <2>4 DEF TopicMatches
    <3>2. TopicToQuery(configured) = published /\ published # << >>
      BY <3>1, QueryIsTopic, TopicIsSeq DEF Chosen, Behind
    <3>3. IsPrefix(published, published)
      BY TopicIsSeq DEF Chosen, IsPrefix
    <3> QED
      BY <3>2, <3>3 DEF ServiceMatches
  <2> QED
    BY <2>3, <2>4
<1> QED
  BY AlwaysChosen, <1>1, PTL

\* What the service is asked for under a wildcard, the subscription takes in:
\* the two counts that are compared are of the same messages.
THEOREM TopicMatchExact == Spec => []WildcardIsExact
<1>1. Chosen => WildcardIsExact
  <2> SUFFICES ASSUME Chosen, IsWildcard(configured),
                      ServiceMatches(TopicToQuery(configured), published)
               PROVE  TopicMatches(configured, published)
    BY DEF WildcardIsExact
  <2>1. PICK t \in Topics : Behind(configured, t)
    BY FilterIsTopic DEF Chosen
  <2>2. TopicToQuery(configured) = t /\ Front(configured) = t
    BY <2>1, QueryIsTopic, WildcardBehind
  <2> QED
    BY <2>2 DEF ServiceMatches, TopicMatches
<1> QED
  BY AlwaysChosen, <1>1, PTL

\* ReplayIsAwaited: channel and query stand for the same messages, a topic
\* configured with a trailing "/" aside.
THEOREM TopicMatchAwaited == Spec => []ReplayIsAwaited
<1>1. Chosen /\ BaselineIsRequested => ReplayIsAwaited
  <2> SUFFICES ASSUME Chosen, BaselineIsRequested
               PROVE  ReplayIsAwaited
    OBVIOUS
  <2>1. PICK t \in Topics : Behind(configured, t)
    BY FilterIsTopic DEF Chosen
  <2>2. TopicToQuery(configured) = t /\ t # << >>
    BY <2>1, QueryIsTopic, TopicIsSeq
  <2>3. ASSUME ChannelMatches(configured, published)
        PROVE  ServiceMatches(TopicToQuery(configured), published)
    <3>1. CASE published = configured
      <4>1. TopicToQuery(configured) = published /\ published # << >>
        BY <3>1, QueryIsTopic, TopicIsSeq DEF Chosen, Behind
      <4>2. IsPrefix(published, published)
        BY TopicIsSeq DEF Chosen, IsPrefix
      <4> QED
        BY <4>1, <4>2 DEF ServiceMatches
    <3>2. CASE IsStrictPrefix(TopicToQuery(configured), published)
      BY <2>2, <3>2 DEF ServiceMatches, IsStrictPrefix
    <3>3. CASE TopicMatches(configured, published)
      BY <3>3 DEF BaselineIsRequested
    <3> QED
      BY <2>3, <3>1, <3>2, <3>3 DEF ChannelMatches
  <2>4. ASSUME ServiceMatches(TopicToQuery(configured), published), Last(configured) # Empty
        PROVE  ChannelMatches(configured, published)
    <3>1. IsPrefix(t, published)
      BY <2>2, <2>4 DEF ServiceMatches
    <3>2. CASE configured = t
      BY <2>2, <3>1, <3>2 DEF ChannelMatches, IsStrictPrefix
    <3>3. CASE configured = t \o <<Hash>>
      BY <2>1, <3>1, <3>3, WildcardBehind DEF ChannelMatches, TopicMatches
    <3>4. configured # t \o <<Empty>>
      <4>1. Len(t) \in Nat /\ Len(t \o <<Empty>>) = Len(t) + 1
        BY TopicIsSeq, OneMore
      <4>2. Last(t \o <<Empty>>) = Empty
        BY <4>1, OneMore DEF Last
      <4> QED
        BY <2>4, <4>2
    <3> QED
      BY <2>1, <3>2, <3>3, <3>4 DEF Behind
  <2> QED
    BY <2>3, <2>4 DEF ReplayIsAwaited
<1> QED
  BY AlwaysChosen, TopicMatchRequested, <1>1, PTL
=============================================================================
