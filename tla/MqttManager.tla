---------------------------- MODULE MqttManager ----------------------------
(***************************************************************************)
(* A process from its start to its exit: main and _wait_for_redis          *)
(* (scgrep/main.py) on the main thread, and MqttManager                    *)
(* (scgrep/mqtt_client.py) with one network thread per broker.             *)
(*                                                                         *)
(* A broker drops connections, refuses them, and closes a connection when  *)
(* another one comes in under its client id.  What the program knows of    *)
(* this is what paho's callbacks tell it; what the operator knows are two  *)
(* gauges, the status of the broker and the age of its last message.       *)
(***************************************************************************)
EXTENDS Naturals

CONSTANTS
    GlobalBrokers, \* BROKERS: addresses, host and port
    ReplayBrokers, \* GLOBAL_REPLAY_BROKER_URLS, by default the same
    Host,          \* [Brokers -> hosts]: the host of an address
    Server,        \* [Brokers -> servers]: what answers at an address
    Timeout,       \* REDIS_STARTUP_TIMEOUT
    RetryInterval, \* the two seconds between two pings
    MaxPing,       \* what a ping may take at most
    MaxFaults      \* bound on the connections refused or lost

\* start makes one plan per unique address.
Brokers == GlobalBrokers \cup ReplayBrokers

ASSUME MqttManagerAssumption ==
    /\ Timeout \in Nat /\ RetryInterval \in Nat /\ MaxPing \in Nat
    /\ MaxFaults \in Nat

VARIABLES
    main,    \* where the main thread is
    clock,   \* time.monotonic() since the start, while Redis is awaited
    until,   \* when the ping at hand or the sleep ends at the latest
    redis,   \* whether Redis answers
    client,  \* the state of each broker's client and its network thread
    link,    \* whether the broker has the connection open
    sent,    \* the subscriptions of a SUBSCRIBE on its way over it
    subs,    \* the subscriptions the broker holds for it
    status,  \* broker_status_flag
    silent,  \* broker_last_message_age has grown beyond any threshold
    faults   \* connections refused or lost so far

startVars == <<clock, until, redis>>
brokerVars == <<link, sent, subs>>
gauges == <<status, silent>>
vars == <<main, startVars, client, brokerVars, gauges, faults>>

Roles == {"baseline", "replay"}

Alive == {"waiting", "accepted", "up"}

TypeOK ==
    /\ main \in {"ping", "sleep", "start", "run", "stop",
                 "exit0", "exit1", "exit3", "killed"}
    /\ clock \in Nat /\ until \in Nat /\ redis \in BOOLEAN
    /\ client \in [Brokers -> Alive \cup {"none", "failed", "dead", "stopped",
                                         "raised"}]
    /\ link \in [Brokers -> BOOLEAN]
    /\ sent \in [Brokers -> SUBSET Roles]
    /\ subs \in [Brokers -> SUBSET Roles]
    /\ status \in [Brokers -> {"absent", "0", "1"}]
    /\ silent \in [Brokers -> BOOLEAN]
    /\ faults \in 0 .. MaxFaults
    \* The gauges of a broker exist from the first attempt.
    /\ \A b \in Brokers : client[b] = "none" <=> status[b] = "absent"

Init ==
    /\ main = "ping" /\ clock = 0 /\ until = MaxPing /\ redis \in BOOLEAN
    /\ client = [b \in Brokers |-> "none"]
    /\ link = [b \in Brokers |-> FALSE]
    /\ sent = [b \in Brokers |-> {}]
    /\ subs = [b \in Brokers |-> {}]
    /\ status = [b \in Brokers |-> "absent"]
    /\ silent = [b \in Brokers |-> FALSE]
    /\ faults = 0

-----------------------------------------------------------------------------
(* _wait_for_redis.                                                        *)

RedisChanges ==
    /\ main \in {"ping", "sleep"}
    /\ redis' = ~redis
    /\ UNCHANGED <<main, clock, until, client, brokerVars, gauges, faults>>

Tick ==
    /\ main \in {"ping", "sleep"}
    /\ clock < until
    /\ clock' = clock + 1
    /\ UNCHANGED <<main, until, redis, client, brokerVars, gauges, faults>>

\* Mutant: the deadline is set anew at each attempt.
PingReturnsSliding ==
    /\ main = "ping"
    /\ LET deadline == until - MaxPing + Timeout
       IN  \/ redis /\ main' = "start" /\ UNCHANGED until
           \/ ~redis /\ clock >= deadline /\ main' = "exit3" /\ UNCHANGED until
           \/ /\ ~redis /\ clock < deadline
              /\ main' = "sleep"
              /\ until' = clock + RetryInterval
    /\ UNCHANGED <<clock, redis, client, brokerVars, gauges, faults>>

\* The ping is answered, or fails: before the deadline it is tried again,
\* after it main returns 3.
PingReturns ==
    /\ main = "ping"
    /\ \/ redis /\ main' = "start" /\ UNCHANGED until
       \/ ~redis /\ clock >= Timeout /\ main' = "exit3" /\ UNCHANGED until
       \/ /\ ~redis /\ clock < Timeout
          /\ main' = "sleep"
          /\ until' = clock + RetryInterval
    /\ UNCHANGED <<clock, redis, client, brokerVars, gauges, faults>>

Wake ==
    /\ main = "sleep" /\ clock = until
    /\ main' = "ping"
    /\ until' = clock + MaxPing
    /\ UNCHANGED <<clock, redis, client, brokerVars, gauges, faults>>

-----------------------------------------------------------------------------
(* MqttManager.start and stop, on the main thread.                         *)

\* The connections of these brokers are closed, with what is on its way over
\* them; sessions are clean, so their subscriptions end too.
Close(set) ==
    /\ link' = [b \in Brokers |-> link[b] /\ b \notin set]
    /\ sent' = [b \in Brokers |-> IF b \in set THEN {} ELSE sent[b]]
    /\ subs' = [b \in Brokers |-> IF b \in set THEN {} ELSE subs[b]]

SetStatus(b, value) == status' = [status EXCEPT ![b] = value]

\* What a broker is subscribed to: the union over the roles it has.
Plan(b) == {r \in Roles : \/ r = "baseline" /\ b \in GlobalBrokers
                          \/ r = "replay" /\ b \in ReplayBrokers}

\* Mutant: the host is left out.
ClientIdUniform(b) == "scgrep"

\* scgrep-<subscriber id>-<host>, of which the host is what differs.
ClientId(b) == Host[b]

\* Mutant: the status is first set by a callback.
ConnectUnread(b) ==
    /\ main = "start" /\ client[b] = "none"
    /\ client' = [client EXCEPT ![b] = "waiting"]
    /\ UNCHANGED <<main, startVars, brokerVars, gauges, faults>>

\* _connect: both gauges begin, then the network thread; connect_async may
\* raise, which is logged.
Connect(b) ==
    /\ main = "start" /\ client[b] = "none"
    /\ SetStatus(b, "0")
    /\ client' = [client EXCEPT ![b] = "waiting"]
    /\ UNCHANGED <<main, startVars, brokerVars, silent, faults>>

ConnectRaises(b) ==
    /\ main = "start" /\ client[b] = "none"
    /\ SetStatus(b, "0")
    /\ client' = [client EXCEPT ![b] = "failed"]
    /\ UNCHANGED <<main, startVars, brokerVars, silent, faults>>

\* All brokers are connected to; the signal handlers are installed.
Started ==
    /\ main = "start" /\ \A b \in Brokers : client[b] # "none"
    /\ main' = "run"
    /\ UNCHANGED <<startVars, client, brokerVars, gauges, faults>>

\* A signal before there is a handler ends the process where it is.
Killed ==
    /\ main \in {"ping", "sleep", "start"}
    /\ main' = "killed"
    /\ Close(Brokers)
    /\ UNCHANGED <<startVars, client, gauges, faults>>

\* A signal makes Scheduler.run return.
Stop ==
    /\ main = "run"
    /\ main' = "stop"
    /\ UNCHANGED <<startVars, client, brokerVars, gauges, faults>>

\* disconnect and loop_stop; on_disconnect may or may not be called yet.
StopClient(b) ==
    /\ main = "stop" /\ client[b] \in Alive \cup {"dead"}
    /\ client' = [client EXCEPT ![b] = "stopped"]
    /\ Close({b})
    /\ SetStatus(b, "0") \/ UNCHANGED status
    /\ UNCHANGED <<main, startVars, silent, faults>>

\* Mutant: the exception leaves the loop over the clients.
StopRaisesOut(b) ==
    /\ main = "stop" /\ client[b] \in Alive \cup {"dead"}
    /\ client' = [client EXCEPT ![b] = "raised"]
    /\ main' = "exit1"
    /\ UNCHANGED <<startVars, brokerVars, gauges, faults>>

\* One of the two raises: stop goes on with the next client.
StopRaises(b) ==
    /\ main = "stop" /\ client[b] \in Alive \cup {"dead"}
    /\ client' = [client EXCEPT ![b] = "raised"]
    /\ UNCHANGED <<main, startVars, brokerVars, gauges, faults>>

\* main returns; the threads left end with the process.
Exit ==
    /\ main = "stop" /\ \A b \in Brokers : client[b] \in {"failed", "stopped", "raised"}
    /\ main' = "exit0"
    /\ Close(Brokers)
    /\ UNCHANGED <<startVars, client, gauges, faults>>

-----------------------------------------------------------------------------
(* The network thread of a broker, and the broker.                         *)

Running == main \in {"start", "run", "stop"}

\* The broker accepts the connection, with a clean session, and closes the
\* one it has under the same client id.
Accept(b) ==
    /\ Running /\ client[b] = "waiting"
    /\ client' = [client EXCEPT ![b] = "accepted"]
    /\ LET closed == {o \in Brokers \ {b} :
                        Server[o] = Server[b] /\ ClientId(o) = ClientId(b)}
           out == closed \cup {b}
       IN  /\ link' = [o \in Brokers |-> o = b \/ (link[o] /\ o \notin closed)]
           /\ sent' = [o \in Brokers |-> IF o \in out THEN {} ELSE sent[o]]
           /\ subs' = [o \in Brokers |-> IF o \in out THEN {} ELSE subs[o]]
    /\ UNCHANGED <<main, startVars, gauges, faults>>

\* on_connect with another reason code: paho tries again.
Refuse(b) ==
    /\ Running /\ client[b] = "waiting"
    /\ faults < MaxFaults
    /\ faults' = faults + 1
    /\ SetStatus(b, "0")
    /\ UNCHANGED <<main, startVars, client, brokerVars, silent>>

\* on_connect: sends a SUBSCRIBE, at every connection; one that goes out on a
\* connection closed meanwhile is lost.
OnConnect(b) ==
    /\ Running /\ client[b] = "accepted"
    /\ client' = [client EXCEPT ![b] = "up"]
    /\ SetStatus(b, "1")
    /\ sent' = [sent EXCEPT ![b] = IF link[b] THEN Plan(b) ELSE {}]
    /\ UNCHANGED <<main, startVars, link, subs, silent, faults>>

\* The broker receives the SUBSCRIBE.
Subscribed(b) ==
    /\ Running /\ sent[b] # {}
    /\ subs' = [subs EXCEPT ![b] = @ \cup sent[b]]
    /\ sent' = [sent EXCEPT ![b] = {}]
    /\ UNCHANGED <<main, startVars, client, link, gauges, faults>>

LinkBreaks(b) ==
    /\ Running /\ link[b]
    /\ faults < MaxFaults
    /\ faults' = faults + 1
    /\ Close({b})
    /\ UNCHANGED <<main, startVars, client, gauges>>

\* Mutant: the status is left as it is.
OnDisconnectQuiet(b) ==
    /\ Running /\ client[b] \in {"accepted", "up"} /\ ~link[b]
    /\ client' = [client EXCEPT ![b] = "waiting"]
    /\ UNCHANGED <<main, startVars, brokerVars, gauges, faults>>

\* The thread finds the connection closed, at the latest by its keepalive.
OnDisconnect(b) ==
    /\ Running /\ client[b] \in {"accepted", "up"} /\ ~link[b]
    /\ client' = [client EXCEPT ![b] = "waiting"]
    /\ SetStatus(b, "0")
    /\ UNCHANGED <<main, startVars, brokerVars, silent, faults>>

\* Mutant: one time of arrival for all brokers.
StampedForAll(b) == [o \in Brokers |-> FALSE]

\* _track_messages notes the time of an arrival, per broker.
Stamped(b) == [silent EXCEPT ![b] = FALSE]

\* A message arrives: its time is noted, then it is handled.
OnMessage(b) ==
    /\ Running /\ client[b] = "up" /\ link[b] /\ subs[b] # {}
    /\ silent' = Stamped(b)
    /\ UNCHANGED <<main, startVars, client, brokerVars, status, faults>>

\* The handler raises: the thread ends, without a further callback.
OnMessageRaises(b) ==
    /\ Running /\ client[b] = "up" /\ link[b] /\ subs[b] # {}
    /\ silent' = Stamped(b)
    /\ client' = [client EXCEPT ![b] = "dead"]
    /\ UNCHANGED <<main, startVars, brokerVars, status, faults>>

\* The broker gives up a client that no longer answers.
KeepaliveEnds(b) ==
    /\ Running /\ client[b] = "dead" /\ link[b]
    /\ Close({b})
    /\ UNCHANGED <<main, startVars, client, gauges, faults>>

\* Time passes without a message.
Silence ==
    /\ Running /\ \E b \in Brokers : client[b] # "none" /\ ~silent[b]
    /\ silent' = [b \in Brokers |-> client[b] # "none"]
    /\ UNCHANGED <<main, startVars, client, brokerVars, status, faults>>

-----------------------------------------------------------------------------
Next ==
    \/ RedisChanges \/ Tick \/ PingReturns \/ Wake
    \/ Started \/ Killed \/ Stop \/ Exit \/ Silence
    \/ \E b \in Brokers :
         \/ Connect(b) \/ ConnectRaises(b) \/ StopClient(b) \/ StopRaises(b)
         \/ Accept(b) \/ Refuse(b) \/ OnConnect(b) \/ Subscribed(b)
         \/ LinkBreaks(b) \/ OnDisconnect(b)
         \/ OnMessage(b) \/ OnMessageRaises(b) \/ KeepaliveEnds(b)

\* The main thread runs; so does every network thread, and a broker answers
\* it; time passes.
Fairness ==
    /\ WF_vars(Tick) /\ WF_vars(PingReturns) /\ WF_vars(Wake) /\ WF_vars(Silence)
    /\ WF_vars(Started \/ Exit \/ \E b \in Brokers : Connect(b) \/ ConnectRaises(b)
                                                  \/ StopClient(b) \/ StopRaises(b))
    /\ \A b \in Brokers :
         /\ WF_vars(Accept(b)) /\ WF_vars(OnConnect(b) \/ OnDisconnect(b))
         /\ WF_vars(Subscribed(b)) /\ WF_vars(KeepaliveEnds(b))

Spec == Init /\ [][Next]_vars /\ Fairness

-----------------------------------------------------------------------------
(* Properties.                                                             *)

\* Messages of both roles can come in.
Served(b) == client[b] = "up" /\ link[b] /\ subs[b] = Plan(b)

\* The deadline is tested after a failed ping only, so the wait for Redis
\* exceeds it, by one sleep and one ping at most; and main gives up no earlier.
StartUpBounded ==
    /\ clock <= Timeout + RetryInterval + MaxPing
    /\ main = "exit3" => clock >= Timeout

\* A broker that can deliver reads 1; one whose connection the program knows
\* to be closed, or that it could not even try, reads 0.
StatusTruthful ==
    \A b \in Brokers :
        /\ Served(b) => status[b] = "1"
        /\ client[b] \in {"waiting", "failed"} => status[b] = "0"

\* A broker from which nothing can come in any more, be it that its network
\* thread has died with the status at 1, is given away by its own gauges,
\* whatever the other brokers deliver.
StalledFeedShows ==
    \A b \in Brokers :
        <>[]~Served(b) => <>[](~Running \/ status[b] = "0" \/ silent[b])

\* When connections cease to be lost, every broker is subscribed to for each
\* of its roles for good, unless its thread has died: reconnecting renews
\* subscriptions, and a client pushes another one off the broker only where
\* two ports of one host lead to one server.
EveryBrokerServed ==
    \A b \in Brokers :
        (\A o \in Brokers \ {b} : Host[o] # Host[b] \/ Server[o] # Server[b])
        => <>[](\/ Served(b)
                \/ client[b] \in {"failed", "dead"}
                \/ main \notin {"start", "run"})

\* mqtt_client.py:257, of whatever brokers are configured: start is to "connect
\* to each unique broker with the union of its subscriptions", a broker being a
\* host and a port (265).
EveryUniqueBrokerServed ==
    \A b \in Brokers :
        <>[](\/ Served(b)
             \/ client[b] \in {"failed", "dead"}
             \/ main \notin {"start", "run"})

\* A stop request ends in exit code 0, whatever state the clients are in.
ShutdownEnds == main = "stop" ~> main = "exit0"
=============================================================================
