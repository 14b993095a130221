----------------------------- MODULE TopicMatch -----------------------------
(***************************************************************************)
(* The four ways SCGRep relates a configured topic to the topic a message  *)
(* was published under: the MQTT filter it subscribes to and files         *)
(* messages by, the query it sends to a Global Replay service              *)
(* (scgrep/util.py), and the channel it awaits the replay on               *)
(* (scgrep/replay_registry.py).                                            *)
(*                                                                         *)
(* A topic is the sequence of its levels; a trailing "/" is an empty last  *)
(* level, a trailing "/#" a last level "#".  Config.from_env has refused   *)
(* the other wildcards.                                                    *)
(***************************************************************************)
EXTENDS Naturals, Sequences, SequencesExt

CONSTANTS
    Levels,   \* the level names
    MaxLevels \* bound on the levels of a topic

\* The level that is a wildcard, and the one behind a trailing "/".
Hash == "#"
Empty == ""

ASSUME TopicMatchAssumption ==
    /\ Hash \notin Levels /\ Empty \notin Levels
    /\ MaxLevels \in Nat \ {0}

\* The topics a message may be published under.
Topics == UNION {[1 .. n -> Levels] : n \in 1 .. MaxLevels}

\* What SUBSCRIPTION_TOPICS may hold: a topic, on its own, with a trailing
\* "/" or a trailing "/#".
Filters == Topics \cup {t \o <<Empty>> : t \in Topics} \cup {t \o <<Hash>> : t \in Topics}

VARIABLES
    configured,  \* one of SUBSCRIPTION_TOPICS
    published    \* the topic of the message at hand

vars == <<configured, published>>

-----------------------------------------------------------------------------
(* The matchers.                                                           *)

IsWildcard(filter) == Last(filter) = Hash

\* Mutant: "/#" takes in only what is below.
TopicMatchesBeneath(filter, topic) ==
    IF IsWildcard(filter) THEN IsStrictPrefix(Front(filter), topic)
                          ELSE filter = topic

\* topic_matches: "/#" takes in the level above it and all below.
TopicMatches(filter, topic) ==
    IF IsWildcard(filter) THEN IsPrefix(Front(filter), topic)
                          ELSE filter = topic

\* Mutant: the wildcard is sent to the service as it is.
QueryKeepsWildcard(filter) == filter

\* topic_to_query: without a trailing "/#", then without trailing "/".
TopicToQuery(filter) ==
    LET prefix == IF IsWildcard(filter) THEN Front(filter) ELSE filter
        kept == {n \in 0 .. Len(prefix) :
                   \A i \in n + 1 .. Len(prefix) : prefix[i] = Empty}
    IN  SubSeq(prefix, 1, CHOOSE n \in kept : \A m \in kept : n <= m)

\* A Global Replay service matches whole levels as a prefix.
ServiceMatches(query, topic) == query # << >> /\ IsPrefix(query, topic)

\* Mutant: nothing but a subtopic beneath the channel is accepted.
ChannelMatchesBeneath(channel, topic) ==
    IsStrictPrefix(TopicToQuery(channel), topic)

\* _channel_matches: the channel itself, anything beneath it, or an MQTT
\* match.
ChannelMatches(channel, topic) ==
    \/ topic = channel
    \/ IsStrictPrefix(TopicToQuery(channel), topic)
    \/ TopicMatches(channel, topic)

-----------------------------------------------------------------------------
Init == configured \in Filters /\ published \in Topics

\* Another message, under another topic.
Publish(topic) ==
    /\ topic # published
    /\ published' = topic
    /\ UNCHANGED configured

Next == \E topic \in Topics : Publish(topic)

Spec == Init /\ [][Next]_vars

-----------------------------------------------------------------------------
(* Properties.                                                             *)

\* A message of the baseline is one the service was asked for: a correct
\* service never looks as if it had lost it.
BaselineIsRequested ==
    TopicMatches(configured, published) =>
        ServiceMatches(TopicToQuery(configured), published)

\* For a configured topic that ends in "/#" the service is asked for nothing
\* else: the baseline and the replay are counts of the same messages.
WildcardIsExact ==
    IsWildcard(configured) /\ ServiceMatches(TopicToQuery(configured), published)
        => TopicMatches(configured, published)

\* The replay of a topic is awaited where the service sends it: what arrives on
\* the channel was asked for, and what was asked for is recorded as an arrival,
\* unless the topic was configured with a trailing "/", which the query drops
\* and the channel keeps.
ReplayIsAwaited ==
    /\ ChannelMatches(configured, published) =>
         ServiceMatches(TopicToQuery(configured), published)
    /\ ServiceMatches(TopicToQuery(configured), published) /\ Last(configured) # Empty =>
         ChannelMatches(configured, published)
=============================================================================
