---------------------------- MODULE MC_ExampleApp ----------------------------
EXTENDS ExampleApp

(* A broker that may refuse the CONNECT (bad user name or password) and   *)
(* answer the QoS 1 publish or the PUBREL with an error reason code.      *)
MC_RejectsAccepted == {"connack", "puback", "pubcomp"}

(* A broker that may answer the QoS 2 publish with an error PUBREC (for   *)
(* example not authorized, 0x87).                                          *)
MC_RejectsQos2 == {"pubrec"}

=============================================================================
