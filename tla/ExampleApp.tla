----------------------------- MODULE ExampleApp -----------------------------
(***************************************************************************)
(* The example program cl_cpp17_mqtt_pub.cpp: it connects to a broker,    *)
(* publishes topic1 (QoS 0), topic2 (QoS 1) and topic3 (QoS 2) back to    *)
(* back, and disconnects when the QoS 2 publish reports its PUBCOMP.  The *)
(* three handlers of struct app are the program's actions; they run one  *)
(* at a time, in the order their completions were queued on the          *)
(* io_context.                                                            *)
(*                                                                         *)
(* The client (client.ipp), the endpoint and the broker are not in src:   *)
(* they are the environment, modelled from the spec and MQTT: the         *)
(* framing stream writes the packets handed to it one at a time, in call *)
(* order (what StreamWrite is shown to do, as WriteChannel); the          *)
(* connection carries packets in order in each direction (c2b, b2c); the *)
(* broker answers PUBLISHes in the order received (MQTT 4.6); the client *)
(* answers PUBREC with PUBREL itself (auto_pub_response, set by the       *)
(* client constructor) and completes async_publish on PUBACK, on PUBCOMP, *)
(* or on a PUBREC that carries an error reason code (spec 4.4); a lost    *)
(* connection fails every pending call with connection_reset (spec 4.6). *)
(* The client's packet id manager hands out the lowest free id and takes *)
(* it back when the publish that used it completes (spec 7, examples 2-3).*)
(***************************************************************************)
EXTENDS Naturals, Sequences, SequencesExt

CONSTANTS
    BrokerRejects,  \* the broker responses that may carry an error reason code
    Faults,         \* whether the connection may be lost at any time
    MaxId           \* the largest packet id (65535)

VARIABLES
    conn,      \* "none" (no transport yet), "open" or "closed"
    outq,      \* packets handed to the framing stream, not yet written
    c2b,       \* packets on their way from the client to the broker
    b2c,       \* packets on their way from the broker to the client
    closing,   \* the broker will close (it refused the CONNECT or sent DISCONNECT)
    calls,     \* the state of each call the program makes
    handlers,  \* completions queued on the io_context for the app's handlers
    pid        \* the packet id each publish holds (0: none), pid_man_

vars == <<conn, outq, c2b, b2c, closing, calls, handlers, pid>>

(* The program takes two ids of a fresh client: both are free.             *)
ASSUME MaxId >= 2

Ok == "success"
Reset == "connection_reset"
Topics == <<"topic1", "topic2", "topic3">>
Calls == {"handshake", "start", "disconnect"} \cup ToSet(Topics)

Pkt(t, topic, ok) == [t |-> t, topic |-> topic, qos |-> 0, ok |-> ok]
Publish(topic, qos) == [t |-> "publish", topic |-> topic, qos |-> qos, ok |-> TRUE]

(* acquire_unique_packet_id(): the lowest id not in use, or nullopt.        *)
FreeIds == (1..MaxId) \ {pid[t] : t \in ToSet(Topics)}
AcquireUniquePacketId == IF FreeIds = {} THEN 0 ELSE CHOOSE i \in FreeIds : \A j \in FreeIds : i <= j
Completion(call, ec, connack, slots) ==
    [call |-> call, ec |-> ec, connack |-> connack, slots |-> slots]

-----------------------------------------------------------------------------
(* Calls the program makes, in order.  On an open connection a call sends *)
(* its packet to the stream and is pending; on a closed one it completes at once with   *)
(* connection_reset.  async_disconnect is given as::detached: it never    *)
(* queues a completion.                                                    *)
Issue(cs, pkts) ==
    LET open == conn = "open"
        failed == SelectSeq(cs, LAMBDA c : ~open /\ c # "disconnect")
    IN /\ calls' = [c \in Calls |->
                      IF c \in ToSet(cs) THEN IF open THEN "pending" ELSE "done"
                      ELSE calls[c]]
       /\ outq' = IF open THEN outq \o pkts ELSE outq
       /\ handlers' = Tail(handlers) \o
                        [i \in DOMAIN failed |-> Completion(failed[i], Reset, FALSE, {})]

(* app::app: start the underlying handshake.                                *)
AppConstructed == [c \in Calls |-> IF c = "handshake" THEN "pending" ELSE "idle"]

(* main: with a host and a port the app is constructed and ioc.run()      *)
(* runs it; otherwise the usage line is printed and nothing starts.       *)
Init ==
    /\ conn = "none"
    /\ outq = <<>>
    /\ c2b = <<>>
    /\ b2c = <<>>
    /\ closing = FALSE
    /\ \E argcIs3 \in BOOLEAN :
          calls = IF argcIs3 THEN AppConstructed ELSE [c \in Calls |-> "idle"]
    /\ handlers = <<>>
    /\ pid = [t \in ToSet(Topics) |-> 0]

(* handle_underlying_handshake: on success, async_start (CONNECT).          *)
HandleUnderlyingHandshake ==
    /\ handlers # <<>> /\ Head(handlers).call = "handshake"
    /\ IF Head(handlers).ec # Ok
       THEN /\ handlers' = Tail(handlers)
            /\ UNCHANGED <<outq, calls>>
       ELSE Issue(<<"start">>, <<Pkt("connect", "", TRUE)>>)
    /\ UNCHANGED <<conn, c2b, b2c, closing, pid>>

(* Mutant: topic3 is published with at_least_once (a copied call).        *)
HandleStartResponseQos1Twice ==
    /\ handlers # <<>> /\ Head(handlers).call = "start"
    /\ IF Head(handlers).ec # Ok \/ ~Head(handlers).connack
       THEN /\ handlers' = Tail(handlers)
            /\ UNCHANGED <<outq, calls, pid>>
       ELSE /\ Issue(Topics, <<Publish("topic1", 0), Publish("topic2", 1), Publish("topic3", 1)>>)
            /\ LET id2 == AcquireUniquePacketId
                   id3 == CHOOSE i \in FreeIds \ {id2} : \A j \in FreeIds \ {id2} : i <= j
               IN pid' = [pid EXCEPT !["topic2"] = id2, !["topic3"] = id3]
    /\ UNCHANGED <<conn, c2b, b2c, closing>>

(* handle_start_response: on success with a CONNACK (whatever its reason  *)
(* code), the three publishes, back to back; topic2 and topic3 each take  *)
(* *acquire_unique_packet_id() just before their call.                     *)
HandleStartResponse ==
    /\ handlers # <<>> /\ Head(handlers).call = "start"
    /\ IF Head(handlers).ec # Ok \/ ~Head(handlers).connack
       THEN /\ handlers' = Tail(handlers)
            /\ UNCHANGED <<outq, calls, pid>>
       ELSE /\ Issue(Topics, <<Publish("topic1", 0), Publish("topic2", 1), Publish("topic3", 2)>>)
            /\ LET id2 == AcquireUniquePacketId
                   id3 == CHOOSE i \in FreeIds \ {id2} : \A j \in FreeIds \ {id2} : i <= j
               IN pid' = [pid EXCEPT !["topic2"] = id2, !["topic3"] = id3]
    /\ UNCHANGED <<conn, c2b, b2c, closing>>

(* Mutant: the PUBCOMP test is dropped; any successful result disconnects.*)
HandlePublishResponseAnyResult ==
    /\ handlers # <<>> /\ Head(handlers).call \in ToSet(Topics)
    /\ IF Head(handlers).ec # Ok
       THEN /\ handlers' = Tail(handlers)
            /\ UNCHANGED <<outq, calls>>
       ELSE Issue(<<"disconnect">>, <<Pkt("disconnect", "", TRUE)>>)
    /\ UNCHANGED <<conn, c2b, b2c, closing, pid>>

(* handle_publish_response: on success with a PUBCOMP, async_disconnect.    *)
HandlePublishResponse ==
    /\ handlers # <<>> /\ Head(handlers).call \in ToSet(Topics)
    /\ IF Head(handlers).ec # Ok \/ "pubcomp" \notin Head(handlers).slots
       THEN /\ handlers' = Tail(handlers)
            /\ UNCHANGED <<outq, calls>>
       ELSE Issue(<<"disconnect">>, <<Pkt("disconnect", "", TRUE)>>)
    /\ UNCHANGED <<conn, c2b, b2c, closing, pid>>

-----------------------------------------------------------------------------
(* The environment.                                                        *)

(* async_underlying_handshake completes.                                   *)
HandshakeComplete ==
    /\ calls["handshake"] = "pending"
    /\ \E ec \in {Ok, "host_not_found"} :
          /\ conn' = IF ec = Ok THEN "open" ELSE "none"
          /\ calls' = [calls EXCEPT !["handshake"] = "done"]
          /\ handlers' = Append(handlers, Completion("handshake", ec, FALSE, {}))
    /\ UNCHANGED <<outq, c2b, b2c, closing, pid>>

(* The connection ends: every pending call fails with connection_reset;   *)
(* clean_start discards the session, so the ids stay with their calls.    *)
Lost ==
    /\ UNCHANGED pid
    /\ conn' = "closed"
    /\ outq' = <<>>
    /\ c2b' = <<>>
    /\ b2c' = <<>>
    /\ calls' = [c \in Calls |-> IF calls[c] = "pending" THEN "done" ELSE calls[c]]
    /\ handlers' = handlers \o
         LET failed == SelectSeq(<<"start">> \o Topics, LAMBDA c : calls[c] = "pending")
         IN [i \in DOMAIN failed |-> Completion(failed[i], Reset, FALSE, {})]

(* The broker's answer to a packet, and whether it may be an error.       *)
Response(p) ==
    CASE p.t = "connect" -> "connack"
      [] p.t = "publish" /\ p.qos = 1 -> "puback"
      [] p.t = "publish" /\ p.qos = 2 -> "pubrec"
      [] p.t = "pubrel" -> "pubcomp"
      [] OTHER -> "none"
Outcomes(t) == IF t \in BrokerRejects THEN BOOLEAN ELSE {TRUE}

(* The stream writes its next packet.  A QoS 0 PUBLISH is then done: its  *)
(* async_publish completes.                                                *)
WritePacket ==
    /\ conn = "open" /\ outq # <<>>
    /\ outq' = Tail(outq)
    /\ c2b' = Append(c2b, Head(outq))
    /\ IF Head(outq).t = "publish" /\ Head(outq).qos = 0
       THEN /\ calls' = [calls EXCEPT ![Head(outq).topic] = "done"]
            /\ handlers' = Append(handlers, Completion(Head(outq).topic, Ok, FALSE, {}))
       ELSE UNCHANGED <<calls, handlers>>
    /\ UNCHANGED <<conn, b2c, closing, pid>>

(* The broker takes the next packet the client sent and answers it, in    *)
(* the order received; after a refused CONNECT it only closes.  A QoS 0   *)
(* PUBLISH has no answer.                                                  *)
BrokerRecv ==
    /\ conn = "open" /\ ~closing /\ c2b # <<>>
    /\ Head(c2b).t # "disconnect"
    /\ c2b' = Tail(c2b)
    /\ IF Response(Head(c2b)) = "none"
       THEN UNCHANGED <<b2c, closing>>
       ELSE \E ok \in Outcomes(Response(Head(c2b))) :
                 /\ b2c' = Append(b2c, Pkt(Response(Head(c2b)), Head(c2b).topic, ok))
                 /\ closing' = (Head(c2b).t = "connect" /\ ~ok)
    /\ UNCHANGED <<conn, outq, calls, handlers, pid>>

(* The client's async_disconnect closes once DISCONNECT is written.        *)
DisconnectSent ==
    /\ conn = "open" /\ Pkt("disconnect", "", TRUE) \in ToSet(c2b)
    /\ Lost
    /\ UNCHANGED closing

(* The client reads the next packet the broker sent.                      *)
ClientRecv ==
    /\ conn = "open" /\ b2c # <<>>
    /\ b2c' = Tail(b2c)
    /\ LET p == Head(b2c)
           Complete(c, slots) ==
               /\ calls' = [calls EXCEPT ![c] = "done"]
               /\ handlers' = Append(handlers, Completion(c, Ok, TRUE, slots))
               /\ pid' = IF c \in ToSet(Topics) THEN [pid EXCEPT ![c] = 0] ELSE pid
               /\ UNCHANGED outq
       IN CASE p.t = "connack" -> Complete("start", {})
            [] p.t = "puback" -> Complete(p.topic, {"puback"})
            [] p.t = "pubrec" /\ p.ok ->
                  outq' = Append(outq, Pkt("pubrel", p.topic, TRUE)) /\ UNCHANGED <<calls, handlers, pid>>
            [] p.t = "pubrec" -> Complete(p.topic, {"pubrec"})
            [] p.t = "pubcomp" -> Complete(p.topic, {"pubrec", "pubcomp"})
            [] p.t = "disconnect" ->    \* to recv_queue_; the program never calls async_recv
                  UNCHANGED <<outq, calls, handlers, pid>>
    /\ UNCHANGED <<conn, c2b, closing>>

(* The broker (v5) ends the session: it sends DISCONNECT, then closes.   *)
BrokerDisconnect ==
    /\ Faults /\ conn = "open" /\ ~closing
    /\ b2c' = Append(b2c, Pkt("disconnect", "", TRUE))
    /\ closing' = TRUE
    /\ UNCHANGED <<conn, outq, c2b, calls, handlers, pid>>

(* The broker closes after a refused CONNECT or its DISCONNECT; the       *)
(* client has read all it sent before that.                               *)
PeerClose ==
    /\ conn = "open" /\ closing /\ b2c = <<>>
    /\ Lost
    /\ UNCHANGED closing

(* The connection is lost (transport error, broker gone).                  *)
ConnectionLost ==
    /\ Faults /\ conn = "open"
    /\ Lost
    /\ UNCHANGED closing

Program == HandleUnderlyingHandshake \/ HandleStartResponse \/ HandlePublishResponse

Next ==
    \/ Program
    \/ HandshakeComplete \/ WritePacket \/ BrokerRecv \/ DisconnectSent \/ ClientRecv
    \/ BrokerDisconnect \/ PeerClose \/ ConnectionLost

(* io_context::run runs every queued handler; the transport, the client   *)
(* and the broker go on while they can.  Connection loss is never forced. *)
Fairness ==
    /\ WF_vars(HandleUnderlyingHandshake) /\ WF_vars(HandleStartResponse)
    /\ WF_vars(HandlePublishResponse) /\ WF_vars(HandshakeComplete)
    /\ WF_vars(WritePacket)
    /\ WF_vars(BrokerRecv) /\ WF_vars(DisconnectSent) /\ WF_vars(ClientRecv)
    /\ WF_vars(PeerClose)

Spec == Init /\ [][Next]_vars /\ Fairness

-----------------------------------------------------------------------------
(* The program disconnects only once every publish has its result: the    *)
(* QoS 2 PUBCOMP that triggers async_disconnect comes after the broker's  *)
(* answers to topic1 and topic2, so no publish is cut off by the          *)
(* program's own DISCONNECT.                                               *)
DisconnectAfterResponses ==
    calls["disconnect"] # "idle" => \A t \in ToSet(Topics) : calls[t] = "done"

(* The program comes to an end (line 9: "Finally, it disconnects"): no    *)
(* call is pending, no handler is queued and the connection is closed, so *)
(* ioc.run() returns.                                                      *)
Terminated ==
    /\ handlers = <<>>
    /\ conn # "open"
    /\ \A c \in Calls : calls[c] # "pending"
AppFinishes == <>Terminated

=============================================================================
