--------------------------- MODULE MCMqttManager ---------------------------
(* MqttManager with two addresses of one server: of two hosts, or two ports *)
(* of one host.                                                             *)
EXTENDS MqttManager

CONSTANTS b1, b2

OwnHost == [b \in {b1, b2} |-> b]
OneHost == [b \in {b1, b2} |-> "host"]
OneServer == [b \in {b1, b2} |-> "cluster"]
=============================================================================
