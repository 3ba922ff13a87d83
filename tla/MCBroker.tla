------------------------------ MODULE MCBroker ------------------------------
(* Instances of Broker for TLC. *)
EXTENDS Broker

CONSTANTS o1, o2

\* o1 is enabled by the reviewed configuration, o2 is born disabled.
MCConfigEnabled == [o \in Orgs |-> o = o1]

=============================================================================
