---------------------------- MODULE MCMqttPublisher ----------------------------
(* Values for checking MqttPublisher. *)
EXTENDS MqttPublisher

CONSTANTS k1, k2

NoTimeout == 0
=============================================================================
