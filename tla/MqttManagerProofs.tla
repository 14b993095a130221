------------------------- MODULE MqttManagerProofs -------------------------
(***************************************************************************)
(* The wait for Redis ends, and the status of a broker is true: for every  *)
(* timeout, length of a ping, set of brokers and number of faults.         *)
(***************************************************************************)
EXTENDS MqttManager, TLAPS

-----------------------------------------------------------------------------
(* The inductive invariant, in parts.                                      *)

\* What is left to wait is bounded where the wait begins: a sleep begins
\* before the deadline only, and one ping follows it.
WaitBounded ==
    /\ main = "ping" => until <= Timeout + RetryInterval + MaxPing
    /\ main = "sleep" => until <= Timeout + RetryInterval

\* The status is 1 from on_connect on, and 0 until then.
StatusFollows ==
    \A b \in Brokers :
        /\ client[b] = "up" => status[b] = "1"
        /\ client[b] \in {"waiting", "failed"} => status[b] = "0"

IInv == TypeOK /\ StartUpBounded /\ WaitBounded /\ StatusFollows

LEMMA Constants ==
    /\ Timeout \in Nat /\ RetryInterval \in Nat /\ MaxPing \in Nat /\ MaxFaults \in Nat
    /\ \A b \in Brokers : Plan(b) \subseteq Roles
BY MqttManagerAssumption DEF MqttManagerAssumption, Plan

-----------------------------------------------------------------------------
LEMMA InitIInv == Init => IInv
BY Constants DEF Init, IInv, TypeOK, StartUpBounded, WaitBounded, StatusFollows, Alive

\* The wait for Redis.
LEMMA WaitIInv ==
    ASSUME IInv, RedisChanges \/ Tick \/ PingReturns \/ Wake
    PROVE  IInv'
<1>1. UNCHANGED <<client, link, sent, subs, status, silent, faults>>
  BY DEF RedisChanges, Tick, PingReturns, Wake, brokerVars, gauges
<1>2. TypeOK'
  <2>1. /\ clock' \in Nat /\ until' \in Nat /\ redis' \in BOOLEAN
        /\ main' \in {"ping", "sleep", "start", "exit3"} \cup {main}
    <3>1. CASE RedisChanges
      BY <3>1 DEF IInv, TypeOK, RedisChanges
    <3>2. CASE Tick
      BY <3>2 DEF IInv, TypeOK, Tick
    <3>3. CASE PingReturns
      BY <3>3, Constants DEF IInv, TypeOK, PingReturns
    <3>4. CASE Wake
      BY <3>4, Constants DEF IInv, TypeOK, Wake
    <3> QED
      BY <3>1, <3>2, <3>3, <3>4
  <2> QED
    BY <1>1, <2>1 DEF IInv, TypeOK
<1>3. (StartUpBounded /\ WaitBounded)'
  <2>1. CASE RedisChanges
    BY <2>1 DEF RedisChanges, IInv, StartUpBounded, WaitBounded
  <2>2. CASE Tick
    BY <2>2, Constants DEF Tick, IInv, TypeOK, StartUpBounded, WaitBounded
  <2>3. CASE PingReturns
    BY <2>3, Constants DEF PingReturns, IInv, TypeOK, StartUpBounded, WaitBounded
  <2>4. CASE Wake
    BY <2>4, Constants DEF Wake, IInv, TypeOK, StartUpBounded, WaitBounded
  <2> QED
    BY <2>1, <2>2, <2>3, <2>4
<1>4. StatusFollows'
  BY <1>1 DEF IInv, StatusFollows
<1> QED
  BY <1>2, <1>3, <1>4 DEF IInv

\* After the wait its clock stands still.
LEMMA StartKept ==
    ASSUME IInv, UNCHANGED startVars,
           main' \in {main, "run", "stop", "exit0", "killed"}
    PROVE  (StartUpBounded /\ WaitBounded)'
BY DEF IInv, StartUpBounded, WaitBounded, startVars

\* The main thread leaves the clients as they are.
LEMMA MainIInv ==
    ASSUME IInv, Started \/ Killed \/ Stop \/ Exit \/ Silence
    PROVE  IInv'
<1>1. UNCHANGED <<startVars, client, status, faults>>
  BY DEF Started, Killed, Stop, Exit, Silence, gauges
<1>2. /\ main' \in {main, "run", "stop", "exit0", "killed"}
      /\ link' \in [Brokers -> BOOLEAN]
      /\ sent' \in [Brokers -> SUBSET Roles] /\ subs' \in [Brokers -> SUBSET Roles]
      /\ silent' \in [Brokers -> BOOLEAN]
  BY DEF IInv, TypeOK, Started, Killed, Stop, Exit, Close, Silence, brokerVars, gauges
<1>3. TypeOK'
  BY <1>1, <1>2 DEF IInv, TypeOK, startVars
<1>4. StatusFollows'
  BY <1>1 DEF IInv, StatusFollows
<1> QED
  BY <1>1, <1>2, <1>3, <1>4, StartKept DEF IInv

\* A step that brings one client to the state c with the status s.
LEMMA ClientStep ==
    ASSUME IInv, NEW b \in Brokers, UNCHANGED <<main, startVars>>,
           NEW c \in Alive \cup {"failed", "dead", "stopped", "raised"},
           NEW s \in {"0", "1"},
           client' = [client EXCEPT ![b] = c], status' = [status EXCEPT ![b] = s],
           c = "up" => s = "1",
           c \in {"waiting", "failed"} => s = "0",
           link' \in [Brokers -> BOOLEAN], sent' \in [Brokers -> SUBSET Roles],
           subs' \in [Brokers -> SUBSET Roles], silent' \in [Brokers -> BOOLEAN],
           faults' \in 0 .. MaxFaults
    PROVE  IInv'
<1>1. /\ client'[b] = c /\ status'[b] = s
      /\ \A o \in Brokers \ {b} : client'[o] = client[o] /\ status'[o] = status[o]
  BY DEF IInv, TypeOK
<1>2. c # "none" /\ s # "absent"
  BY DEF Alive
<1>3. TypeOK'
  BY <1>1, <1>2 DEF IInv, TypeOK, startVars
<1>4. StatusFollows'
  BY <1>1 DEF IInv, StatusFollows
<1> QED
  BY <1>3, <1>4, StartKept DEF IInv

\* A step that leaves the clients and their status as they are.
LEMMA StatusKept ==
    ASSUME IInv, UNCHANGED <<main, startVars, client, status>>,
           link' \in [Brokers -> BOOLEAN], sent' \in [Brokers -> SUBSET Roles],
           subs' \in [Brokers -> SUBSET Roles], silent' \in [Brokers -> BOOLEAN],
           faults' \in 0 .. MaxFaults
    PROVE  IInv'
<1>1. TypeOK'
  BY DEF IInv, TypeOK, startVars
<1>2. StatusFollows'
  BY DEF IInv, StatusFollows
<1> QED
  BY <1>1, <1>2, StartKept DEF IInv

LEMMA BrokerIInv ==
    ASSUME IInv, NEW b \in Brokers,
           \/ Connect(b) \/ ConnectRaises(b) \/ StopClient(b) \/ StopRaises(b)
           \/ Accept(b) \/ Refuse(b) \/ OnConnect(b) \/ Subscribed(b)
           \/ LinkBreaks(b) \/ OnDisconnect(b)
           \/ OnMessage(b) \/ OnMessageRaises(b) \/ KeepaliveEnds(b)
    PROVE  IInv'
<1> USE DEF SetStatus, Close, brokerVars, gauges
<1>0. /\ client \in [Brokers -> Alive \cup {"none", "failed", "dead", "stopped", "raised"}]
      /\ link \in [Brokers -> BOOLEAN]
      /\ sent \in [Brokers -> SUBSET Roles] /\ subs \in [Brokers -> SUBSET Roles]
      /\ status \in [Brokers -> {"absent", "0", "1"}] /\ silent \in [Brokers -> BOOLEAN]
      /\ faults \in 0 .. MaxFaults /\ faults \in Nat
      /\ client[b] # "none" => status[b] \in {"0", "1"}
      /\ client = [client EXCEPT ![b] = @] /\ status = [status EXCEPT ![b] = @]
  BY DEF IInv, TypeOK
<1>1. CASE Connect(b)
  BY <1>0, <1>1, ClientStep DEF Connect, Alive
<1>2. CASE ConnectRaises(b)
  BY <1>0, <1>2, ClientStep DEF ConnectRaises, Alive
<1>3. CASE StopClient(b)
  BY <1>0, <1>3, ClientStep DEF StopClient, Alive
<1>4. CASE StopRaises(b)
  BY <1>0, <1>4, ClientStep DEF StopRaises, Alive
<1>5. CASE Accept(b)
  BY <1>0, <1>5, ClientStep DEF Accept, Alive
<1>6. CASE Refuse(b)
  <2>1. client' = [client EXCEPT ![b] = "waiting"] /\ faults' \in 0 .. MaxFaults
    BY <1>0, <1>6, Constants DEF Refuse
  <2> QED
    BY <1>0, <1>6, <2>1, ClientStep DEF Refuse, Alive
<1>7. CASE OnConnect(b)
  BY <1>0, <1>7, ClientStep, Constants DEF OnConnect, Alive
<1>8. CASE Subscribed(b)
  BY <1>0, <1>8, StatusKept, Constants DEF Subscribed
<1>9. CASE LinkBreaks(b)
  <2>1. faults' \in 0 .. MaxFaults
    BY <1>0, <1>9, Constants DEF LinkBreaks
  <2> QED
    BY <1>0, <1>9, <2>1, StatusKept DEF LinkBreaks
<1>10. CASE OnDisconnect(b)
  BY <1>0, <1>10, ClientStep DEF OnDisconnect, Alive
<1>11. CASE OnMessage(b)
  BY <1>0, <1>11, StatusKept DEF OnMessage, Stamped
<1>12. CASE OnMessageRaises(b)
  BY <1>0, <1>12, ClientStep DEF OnMessageRaises, Stamped, Alive
<1>13. CASE KeepaliveEnds(b)
  BY <1>0, <1>13, StatusKept DEF KeepaliveEnds
<1> QED
  BY <1>1, <1>2, <1>3, <1>4, <1>5, <1>6, <1>7, <1>8, <1>9, <1>10, <1>11, <1>12, <1>13

LEMMA NextIInv == IInv /\ [Next]_vars => IInv'
<1> SUFFICES ASSUME IInv, [Next]_vars PROVE IInv'
  OBVIOUS
<1>1. CASE UNCHANGED vars
  BY <1>1 DEF vars, startVars, brokerVars, gauges, IInv, TypeOK, StartUpBounded, WaitBounded,
              StatusFollows
<1>2. CASE Next
  BY <1>2, WaitIInv, MainIInv, BrokerIInv DEF Next
<1> QED
  BY <1>1, <1>2

-----------------------------------------------------------------------------
(* The theorems.                                                           *)

\* The invariant the theorems below rest on.
THEOREM MqttManagerInductive == Spec => []IInv
BY InitIInv, NextIInv, PTL DEF Spec

\* The types, and that a broker has its gauges from the first attempt on.
THEOREM MqttManagerTypeCorrect == Spec => []TypeOK
<1>1. IInv => TypeOK
  BY DEF IInv
<1> QED
  BY MqttManagerInductive, <1>1, PTL

\* The wait for Redis is over no later than one sleep and one ping past the
\* deadline, and given up no earlier than the deadline.
THEOREM MqttManagerStartUpBounded == Spec => []StartUpBounded
<1>1. IInv => StartUpBounded
  BY DEF IInv
<1> QED
  BY MqttManagerInductive, <1>1, PTL

\* A broker that can deliver reads 1, one without a connection reads 0, for
\* every number of brokers, faults and takeovers.
THEOREM MqttManagerStatusTruthful == Spec => []StatusTruthful
<1>1. IInv => StatusTruthful
  BY DEF IInv, StatusFollows, StatusTruthful, Served
<1> QED
  BY MqttManagerInductive, <1>1, PTL
=============================================================================
