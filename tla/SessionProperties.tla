------------------------- MODULE SessionProperties -------------------------
(***************************************************************************)
(* What a session owes its two peers, whatever the broker connection and   *)
(* the shed do meanwhile.                                                  *)
(***************************************************************************)
EXTENDS Session

\* Packets on their way from the client, read by the proxy or not.
FromClient == Range(c2p) \cup Range(snap.client_buf)

\* Packets on their way to the client, the leftovers of the last broker
\* connection included.
ToClient == Range(p2c) \cup Range(leftover) \cup Range(snap.broker_buf) \cup Range(b2p)

\* The same with what the windows would send again and what waits for the broker.
BrokerBound == FromClient \cup Range(p2b) \cup Raws(windows.c2b) \cup Range(buffer)
ClientBound == ToClient \cup Raws(windows.b2c)

Has(packets, types, id) == \E p \in packets : p.type \in types /\ p.id = id

\* Everything has come to rest on a working broker connection.
Quiet ==
  /\ phase = "connected" /\ link = "up"
  /\ c2p = << >> /\ p2c = << >> /\ p2b = << >> /\ b2p = << >>

----------------------------------------------------------------------------
\* Every variable of the proxy keeps its shape: vectors of window entries with
\* distinct packet ids and states of their own direction (what vec_insert,
\* vec_remove and from_snapshot maintain), a bounded outage buffer, a snapshot
\* only while frozen, of what the session has, and a reason exactly when the
\* session has ended.
ControlOK ==
  /\ phase \in {"connected", "outage", "connack", "suback", "replay", "frozen", "ended"}
  /\ link \in {"none", "syn", "up", "dead"}
  /\ why \in {"none", "client", "fault", "keepalive", "overflow", "establish"}
  /\ phase = "ended" <=> why # "none"
  /\ phase \notin {"frozen", "ended"} => (link = "none" <=> phase = "outage")
  /\ freezes \in Nat

StreamsOK ==
  /\ IsSeq(c2p) /\ IsSeq(p2c) /\ IsSeq(p2b) /\ IsSeq(b2p)
  /\ IsSeq(leftover) /\ IsSeq(snap.client_buf) /\ IsSeq(snap.broker_buf)
  /\ IsSeq(buffer) /\ Len(buffer) <= BufferMax
  /\ windows \in Windows(Raws(windows.c2b), Raws(windows.b2c))
  /\ IF phase = "frozen"
     THEN /\ snap.windows = snapshot(windows) /\ snap.buffered = buffer
          /\ snap.subscriptions = subscriptions
     ELSE snap = NoSnap

TypeOK == ControlOK /\ StreamsOK

----------------------------------------------------------------------------
(* Both directions.                                                        *)

QosTypes == {"PUBLISH", "PUBACK", "PUBREC", "PUBREL", "PUBCOMP"}

\* p is q but for the DUP bit.
Same(p, q) == p.type = q.type /\ p.id = q.id /\ p.qos = q.qos /\ p.body = q.body

OnlyFrom(before, after) ==
  \A p \in after : p.type \in QosTypes => \E q \in before : Same(p, q)

MovesOnly == OnlyFrom(BrokerBound, BrokerBound') /\ OnlyFrom(ClientBound, ClientBound')

\* The chain of acknowledgements is end to end (design.md): in none of its phases,
\* by tracking, buffering, replaying, freezing or adopting, does the proxy make
\* a PUBLISH or an acknowledgement that was not on its way in that direction.
ProxyMovesOnly == [][Proxy => MovesOnly]_vars

----------------------------------------------------------------------------
(* Client to broker.                                                       *)

\* The withholding policy (outage.rs): the client is told a QoS 1 or QoS 2
\* message was delivered only if the broker has routed it.
NoFalseAck == cAcked \subseteq Range(bGot)

\* The client no longer waits for id, or its message was routed.
Routed(id) == cOut[id].st \in {"pub", "rel"} => cOut[id].body \in Range(bGot)

\* A packet on its way to the broker, and one on its way to the client, is true to
\* what the client has in flight: a PUBLISH carries the message its id stands
\* for, and a PUBREL or an acknowledgement is about a message that was routed.
ClientFlow(p) ==
  /\ p.type = "PUBLISH" => p.qos \in 0..2
  /\ p.type = "PUBLISH" /\ p.qos > 0 =>
       p.id \in 1..cIds /\ (cOut[p.id].st \in {"pub", "rel"} => cOut[p.id].body = p.body)
  /\ p.type = "PUBREL" => p.id \in 1..cIds /\ Routed(p.id)

ClientAnswer(p) ==
  p.type \in {"PUBACK", "PUBREC", "PUBCOMP"} => p.id \in 1..cIds /\ Routed(p.id)

\* Why it holds: that is so wherever a packet is, in a socket, a read buffer, a
\* window or the outage buffer, and of the ids the broker remembers.  The ids
\* are not used again (Reuse is FALSE).
AckInv ==
  /\ cIds \in 0..MaxId /\ DOMAIN cOut = Ids /\ IsSeq(bGot) /\ cSent \in Nat
  /\ \A p \in BrokerBound : ClientFlow(p)
  /\ \A p \in ClientBound : ClientAnswer(p)
  /\ \A id \in bRecvd : id \in 1..cIds /\ Routed(id)
  /\ NoFalseAck

\* A request of the client that has not been answered is never forgotten: the
\* packet that continues it is still with the proxy (socket, read buffer, c2b
\* window or outage buffer), or its answer is on the way.
Retained ==
  phase # "ended" =>
    \A id \in Ids :
      LET kept == FromClient \cup Raws(windows.c2b) \cup Range(buffer)
      IN  /\ cOut[id].st = "pub" => \/ Has(kept, {"PUBLISH"}, id)
                                    \/ Has(ToClient, {"PUBACK", "PUBREC"}, id)
          /\ cOut[id].st = "rel" => \/ Has(kept, {"PUBREL"}, id)
                                    \/ Has(ToClient, {"PUBCOMP"}, id)

\* The invariant behind Retained, in three parts; ids are not used again.  A packet
\* fits the QoS and the state of the message its id stands for: PUBACK is an answer to
\* QoS 1, and who has not seen a PUBREC has sent no PUBREL and gets no PUBCOMP.
QosFlow(p) ==
  /\ p.type = "PUBLISH" /\ p.id # NoId => p.qos > 0 /\ p.qos = ClientQoS[p.body]
  /\ p.type = "PUBREL" => cOut[p.id].st # "pub"

QosAnswer(p) ==
  /\ p.type = "PUBACK" /\ cOut[p.id].st \in {"pub", "rel"} => ClientQoS[cOut[p.id].body] = 1
  /\ p.type = "PUBCOMP" => cOut[p.id].st # "pub"

QosInv ==
  /\ \A p \in BrokerBound : QosFlow(p)
  /\ \A p \in ClientBound : QosAnswer(p)
  /\ \A id \in Ids : cOut[id].st = "rel" => ClientQoS[cOut[id].body] = 2

\* What the client has sent and the proxy has not passed on.
Unsent == FromClient \cup Range(buffer)

\* No two PUBLISHes of one id.
Once(s) ==
  \A i, j \in DOMAIN s :
    s[i].type = "PUBLISH" /\ s[j].type = "PUBLISH" /\ s[i].id = s[j].id /\ s[i].id # NoId => i = j

\* A PUBLISH that was not passed on is the only one of its id, and no broker has
\* answered it: it cannot come in behind the PUBREL and take its slot.
FreshInv ==
  /\ \A id \in Ids :
       Has(Unsent, {"PUBLISH"}, id) =>
         /\ cOut[id].st # "rel"
         /\ ~ Has(Range(p2b) \cup Raws(windows.c2b), {"PUBLISH"}, id)
         /\ ~ Has(ClientBound, {"PUBREC"}, id)
  /\ Once(snap.client_buf \o c2p)
  /\ \A id \in Ids :
       ~ (Has(FromClient, {"PUBLISH"}, id) /\ Has(Range(buffer), {"PUBLISH"}, id))

\* Retained, without the answers that are lost when a connection or a leftover is;
\* and the window still tracks an id its client has released.
KeptInv ==
  phase # "ended" =>
    \A id \in Ids :
      LET kept == Unsent \cup Raws(windows.c2b)
      IN  /\ cOut[id].st = "pub" => \/ Has(kept, {"PUBLISH"}, id)
                                    \/ Has(Range(p2c), {"PUBACK"}, id)
          /\ cOut[id].st = "rel" => \/ /\ vec_contains(windows.c2b, id)
                                       /\ Has(kept, {"PUBREL"}, id)
                                    \/ Has(Range(p2c), {"PUBCOMP"}, id)

\* Why no request is forgotten: a packet fits the QoS of its message and the state of its
\* id, a PUBLISH that was not passed on is the only one of its id, and what continues a
\* handshake is kept by the windows, the buffer or the client's socket until the last
\* acknowledgement is written to the client.
RetainInv == QosInv /\ FreshInv /\ KeptInv

\* Exactly once: replaying the c2b window and flushing the outage buffer never
\* make the broker route a QoS 2 message a second time.
RoutedOnce ==
  \A i, j \in DOMAIN bGot :
    i # j /\ bGot[i] = bGot[j] => ClientQoS[bGot[i]] < 2

\* Messages reach the broker for the first time in the order the client sent
\* them: retransmissions go first, in window order, the outage buffer after.
RoutedInOrder ==
  \A i, j \in DOMAIN bGot :
    /\ i < j
    /\ \A k \in 1..(j - 1) : bGot[k] # bGot[j]
    => bGot[i] < bGot[j]

\* A PUBLISH the proxy sends again to a broker that has routed it is marked DUP.
DupToBroker ==
  \A i \in DOMAIN p2b :
    LET p == p2b[i]
    IN  p.type = "PUBLISH" /\ p.body \in Range(bGot) => p.dup

\* p may go to the broker before q: messages keep their order, and no PUBLISH
\* follows the PUBREL of its id.
Before(p, q) ==
  q.type = "PUBLISH" => /\ p.type = "PUBLISH" => p.body < q.body
                        /\ p.type = "PUBREL" => p.id # q.id

Ordered(s) == \A i, j \in DOMAIN s : i < j => Before(s[i], s[j])
AllBefore(P, Q) == \A p \in P, q \in Q : Before(p, q)

RawSeq(v) == [i \in DOMAIN v |-> v[i].raw]

\* The invariant behind order, exactly once and rest, in four parts.  Every stage a
\* packet passes keeps the order, and so does each stage towards those behind it.
OrderInv ==
  /\ Ordered(p2b) /\ Ordered(RawSeq(windows.c2b))
  /\ Ordered(buffer) /\ Ordered(snap.client_buf \o c2p)
  /\ AllBefore(Range(p2b) \cup Raws(windows.c2b), Unsent)
  /\ AllBefore(Range(buffer), FromClient)
  /\ \A p \in Range(p2b), q \in Raws(windows.c2b) :
       p.type = "PUBREL" /\ q.type = "PUBLISH" => p.id # q.id

\* Messages and packet ids go together, a message that was not routed is newer than
\* all that were, and a QoS 2 PUBLISH is nowhere any more when its flow completes.
MessageInv ==
  /\ cSent <= Len(ClientQoS) /\ Range(bGot) \subseteq 1..cSent
  /\ \A id \in Ids : cOut[id].st \in {"pub", "rel"} => cOut[id].body \in 1..cSent
  /\ \A p \in BrokerBound :
       p.type = "PUBLISH" =>
         /\ p.body \in 1..cSent
         /\ p.body \in Range(bGot) \/ \A m \in Range(bGot) : m < p.body
         /\ \A q \in BrokerBound :
              q.type = "PUBLISH" => /\ p.body = q.body => p.id = q.id
                                    /\ p.id = q.id => p.body = q.body \/ p.id = NoId
         /\ p.qos = 2 => /\ cOut[p.id].st \in {"pub", "rel"}
                         /\ ~ Has(ClientBound, {"PUBCOMP"}, p.id)

\* What the last broker connection still has to deliver of what it was sent.
FromBrokerSocket == Range(b2p) \cup Range(snap.broker_buf)

\* The window entry q was sent on this connection and is on its way to the broker, or
\* what ends or continues its flow is on the way back.
Underway(q) ==
  IF q.type = "PUBREL"
  THEN Has(Range(p2b), {"PUBREL"}, q.id) \/ Has(FromBrokerSocket, {"PUBCOMP"}, q.id)
  ELSE \/ Has(Range(p2b), {"PUBLISH"}, q.id)
       \/ /\ q.body \in Range(bGot)
          /\ IF q.qos = 1 THEN Has(FromBrokerSocket, {"PUBACK"}, q.id)
             ELSE \/ Has(FromBrokerSocket \cup Range(p2c), {"PUBREC"}, q.id)
                  \/ Has(FromClient, {"PUBREL"}, q.id)

\* What the stages hold: nothing without a connection, no packet of a flow while one is
\* established, nothing in the buffer afterwards, and the window only what was sent on
\* the connection.
StageInv ==
  /\ ~ Alive => p2b = << >>
  /\ link \in {"none", "syn"} => FromBrokerSocket = {}
  /\ link = "syn" => phase \in {"connack", "ended"}
  /\ phase \in {"connack", "suback", "replay"} => \A p \in Range(p2b) : p.type \notin QosTypes
  /\ phase = "connected" \/ (phase = "frozen" /\ link # "none") => buffer = << >>
  /\ \A e \in Range(windows.c2b) :
       IF e.state = "C2BPublishSent" THEN e.raw.type = "PUBLISH" /\ e.raw.qos > 0
                                     ELSE e.raw.type = "PUBREL"
  /\ \A p \in Range(buffer) : p.type = "PUBLISH" => p.qos > 0
  /\ \A p \in Unsent : p.type = "PUBLISH" => p.body \notin Range(bGot)
  /\ \A p \in Range(p2b) : p.type = "PUBLISH" /\ p.body \in Range(bGot) => p.dup /\ p.qos > 0
  /\ Alive /\ phase \in {"connected", "frozen"} => \A q \in Raws(windows.c2b) : Underway(q)

\* Why messages reach the broker in order and nothing gets stuck (forward.rs, window.rs,
\* outage.rs): window, outage buffer, read buffer and sockets keep the client's order
\* towards each other, a message that was not routed is newer than all that were, a
\* PUBLISH that goes out again is marked, and what the window keeps of a working
\* connection is still underway on it.
PassInv == OrderInv /\ MessageInv /\ StageInv /\ RoutedInOrder

\* Why a QoS 2 message is routed once: the broker still remembers the id of every QoS 2
\* PUBLISH that would come again, since the proxy's CONNECT resumes the session
\* (force_session_resumption) and a PUBREL replaces its PUBLISH in the window before it is
\* sent (c2b_transition).
OnceInv ==
  /\ ~ bClean /\ (link = "syn" => p2b # << >> /\ Head(p2b).body = "resume")
  /\ \A p \in Range(p2b) \cup Raws(windows.c2b) :
       p.type = "PUBLISH" /\ p.qos = 2 /\ p.body \in Range(bGot) => p.id \in bRecvd
  /\ RoutedOnce

\* The path to the broker: no request is forgotten, each message takes it in order, and a
\* QoS 2 message once.
PathInv == RetainInv /\ PassInv /\ OnceInv

----------------------------------------------------------------------------
(* Broker to client.                                                       *)

\* End-to-end ack chaining: the broker is told a message was received only if
\* the client received it.
NoFalseBrokerAck == bDone \subseteq Range(cGot)

\* The broker no longer waits for id, or the client has its message.
Received(id) == \A e \in Range(bOut) : e.id = id => e.msg \in Range(cGot)

\* The same with the directions swapped.
BrokerFlow(p) ==
  /\ p.type = "PUBLISH" => p.qos \in 0..2
  /\ p.type = "PUBLISH" /\ p.qos > 0 =>
       p.id \in 1..bIds /\ \A e \in Range(bOut) : e.id = p.id => e.msg = p.body
  /\ p.type = "PUBREL" => p.id \in 1..bIds /\ Received(p.id)

BrokerAnswer(p) ==
  p.type \in {"PUBACK", "PUBREC", "PUBCOMP"} => p.id \in 1..bIds /\ Received(p.id)

\* The store of the broker: one message per id, and it is past PUBREC only with
\* a message the client has.
StoreOK ==
  \A e \in Range(bOut) :
    /\ e.id \in 1..bIds /\ e.msg \in 1..Len(BrokerQoS)
    /\ e.st # "pub" => e.msg \in Range(cGot)
    /\ \A f \in Range(bOut) : f.id = e.id => f.msg = e.msg

DeliverInv ==
  /\ bIds \in 0..MaxId /\ IsSeq(cGot) /\ IsSeq(bOut) /\ bSent \in 0..Len(BrokerQoS)
  /\ StoreOK
  /\ \A p \in ClientBound : BrokerFlow(p)
  /\ \A p \in BrokerBound : BrokerAnswer(p)
  /\ \A id \in cRecvd : id \in 1..bIds /\ Received(id)
  /\ NoFalseBrokerAck

\* First deliveries to the client keep the broker's order, through leftovers,
\* b2c retransmissions and the broker's own redelivery.
DeliveredInOrder ==
  \A i, j \in DOMAIN cGot :
    /\ i < j
    /\ \A k \in 1..(j - 1) : cGot[k] # cGot[j]
    => cGot[i] < cGot[j]

\* A PUBLISH the client has already handed to its application is marked DUP
\* when it comes again.
DupToClient ==
  \A i \in DOMAIN p2c :
    LET p == p2c[i]
    IN  p.type = "PUBLISH" /\ p.body \in Range(cGot) => p.dup

\* The messages among the first n packets of a stream, and all of them.
Published(s, n) == {s[i].body : i \in {k \in 1..n : s[k].type = "PUBLISH"}}
Messages(s) == Published(s, Len(s))

\* Behind the messages of seen, each PUBLISH of s is newer than all before it, or one of
\* them again and marked.  With subscriptions a redelivery can be discarded in the place of
\* a SUBACK, so that a repetition need not have come before.
Continues(seen, s) ==
  \A j \in 1..Len(s) :
    LET earlier == seen \cup Published(s, j - 1)
    IN  s[j].type = "PUBLISH" =>
          \/ \A m \in earlier : m < s[j].body
          \/ s[j].dup /\ s[j].qos > 0 /\ (MaxSubOps = 0 => s[j].body \in earlier)

\* What is on its way to the client, in the order in which it gets there.
Arriving == p2c \o leftover \o snap.broker_buf \o b2p

\* The messages that reached the client or are about to.
Arrived == Range(cGot) \cup Messages(Arriving)

\* The stages on the way to the client keep the order, the b2c window has only what was
\* written to the client, and what the broker would redeliver is there or, when the
\* connection has ended, newer than all that is.
ArriveOrder ==
  /\ Continues(Range(cGot), Arriving)
  /\ \A p \in Raws(windows.b2c) : p.type = "PUBLISH" =>
       p.qos > 0 /\ p.body \in Range(cGot) \cup Messages(p2c)
  /\ \A i, j \in DOMAIN bOut : i < j => bOut[i].msg < bOut[j].msg
  /\ MaxSubOps = 0 =>
       \A e \in Range(bOut) : \/ e.msg \in Arrived
                              \/ link # "up" /\ \A m \in Arrived : m < e.msg

\* Messages of the broker and packet ids go together.
ArriveMessages ==
  /\ Range(cGot) \subseteq 1..bSent
  /\ \A e \in Range(bOut) : e.msg \in 1..bSent /\ BrokerQoS[e.msg] > 0
  /\ \A p \in ClientBound :
       p.type = "PUBLISH" =>
         /\ p.body \in 1..bSent /\ p.qos = BrokerQoS[p.body]
         /\ \A q \in ClientBound :
              q.type = "PUBLISH" /\ p.qos > 0 /\ q.qos > 0 /\ p.id = q.id => p.body = q.body
         /\ p.qos = 2 /\ p.id \in cRecvd => p.body \in Range(cGot)

\* Leftovers wait only for the next connection, and without subscriptions nothing is
\* taken for a SUBACK.
ArriveStages ==
  /\ phase = "connected" \/ (phase = "frozen" /\ link # "none") => leftover = << >>
  /\ cSubOps \in Nat
  /\ MaxSubOps = 0 =>
       /\ phase # "suback" /\ subscriptions = NoSubs
       /\ \A p \in FromClient : p.type \notin {"SUBSCRIBE", "UNSUBSCRIBE"}
       /\ DeliveredInOrder

\* Why messages reach the client in order and marked when they come again (forward.rs,
\* window.rs): on the way to it, through leftovers, retransmissions and redeliveries, each
\* message is newer than all before it or repeats one of them with DUP, and the window
\* keeps only what was written to the client.
ArriveInv == ArriveOrder /\ ArriveMessages /\ ArriveStages

----------------------------------------------------------------------------
(* Both directions as an abstract delivery service.                        *)

ToBroker == INSTANCE Delivery WITH
  QoS <- ClientQoS, ExactlyOnce <- TRUE,
  published <- cSent, out <- bGot, acked <- cAcked

\* From the client to the broker the proxy, with its outages and sheds, is a
\* delivery service that is at most once for QoS 0, at least once for QoS 1 and
\* exactly once for QoS 2.
ClientToBrokerDelivery == ToBroker!Spec

FromBroker == INSTANCE Delivery WITH
  QoS <- BrokerQoS, ExactlyOnce <- FALSE,
  published <- bSent, out <- cGot, acked <- bDone

\* From the broker to the client it is the same service, except that a QoS 2
\* message may be repeated.
BrokerToClientDelivery == FromBroker!Spec

----------------------------------------------------------------------------
(* At rest.                                                                *)

\* When nothing is on the way any more, no message of the client waits for an
\* answer that will not come, and the c2b window holds no entry that would be
\* retransmitted for ever.
ClientSettled ==
  Quiet => /\ \A id \in Ids : cOut[id].st \notin {"pub", "rel"}
           /\ windows.c2b = << >> /\ buffer = << >>

\* The same for messages of the broker: each was acknowledged or the broker
\* was told, and the b2c window is empty.
BrokerSettled ==
  Quiet => bOut = << >> /\ windows.b2c = << >>

\* What answers the QoS 1 or 2 PUBLISH of a message of the broker.
AnswerType(m) == IF BrokerQoS[m] = 1 THEN "PUBACK" ELSE "PUBREC"

\* A PUBLISH that asks for an answer under this id.
Asks(packets, id) == \E p \in packets : p.type = "PUBLISH" /\ p.qos > 0 /\ p.id = id

\* On a working connection every flow of the broker's store goes on: its next packet is
\* on the way to the client, or the client's answer to that is on the way back.
FlowsContinue ==
  link = "up" /\ phase # "ended" =>
    \A e \in Range(bOut) :
      IF e.st = "pub"
      THEN Asks(ToClient, e.id) \/ Has(FromClient \cup Range(p2b), {AnswerType(e.msg)}, e.id)
      ELSE Has(ToClient, {"PUBREL"}, e.id) \/ Has(FromClient \cup Range(p2b), {"PUBCOMP"}, e.id)

Exact(p) == p.type = "PUBLISH" /\ p.qos = 2

\* The PUBREL of a QoS 2 flow comes after its PUBLISHes: the broker sends the one only when
\* it is done with the other.
ReleasedLast ==
  /\ \A e \in Range(bOut) :
       /\ e.st \in {"pub", "rel"}
       /\ e.st = "pub" /\ BrokerQoS[e.msg] = 2 =>
            ~ Has(ClientBound, {"PUBREL"}, e.id) /\ ~ Has(BrokerBound, {"PUBCOMP"}, e.id)
  /\ \A p \in FromBrokerSocket :
       Exact(p) => /\ ~ Has(Range(p2c) \cup Range(leftover), {"PUBREL"}, p.id)
                   /\ ~ Has(BrokerBound, {"PUBCOMP"}, p.id)
  /\ LET s == snap.broker_buf \o b2p
     IN  \A i, j \in DOMAIN s :
           i < j /\ s[i].type = "PUBREL" /\ Exact(s[j]) => s[i].id # s[j].id

\* The b2c window keeps a QoS 2 message no longer than the broker does, and a QoS 1
\* message until the client's PUBACK, which is sure to come.
WindowReleased ==
  /\ \A p \in FromBrokerSocket \cup Raws(windows.b2c) :
       Exact(p) => \E e \in Range(bOut) : e.id = p.id
  /\ \A p \in Raws(windows.b2c) :
       /\ Exact(p) => ~ Has(Range(p2b), {"PUBCOMP"}, p.id)
       /\ p.qos = 1 /\ phase # "ended" =>
            Asks(Range(p2c), p.id) \/ Has(FromClient, {"PUBACK"}, p.id)
  /\ \A p \in Range(buffer) : p.type \notin {"PUBACK", "PUBREC", "PUBCOMP"}

\* Why nothing of the broker's gets stuck, without subscriptions and when the broker keeps
\* its store (forward.rs, window.rs).
AnswerInv == FlowsContinue /\ ReleasedLast /\ WindowReleased

\* The path to the client: messages take it in order, those that come again are marked,
\* and each is answered.
ReturnInv == ArriveInv /\ AnswerInv

\* Routing is restored: what the client subscribed to, the broker has, with
\* the options of the last SUBSCRIBE.
SubsRestored ==
  Quiet => \A f \in DOMAIN subscriptions :
             f \in DOMAIN bSubs /\ bSubs[f] = subscriptions[f]

----------------------------------------------------------------------------
(* Keepalive and subscriptions of the client.                              *)

Count(s, type) == Cardinality({i \in DOMAIN s : s[i].type = type})

\* Until a first freeze, each PINGREQ gets one PINGRESP: the local one, never
\* that of the broker too.
PingAnsweredOnce ==
  freezes = 0 /\ phase # "ended" =>
    cPings.open = Count(c2p, "PINGREQ") + Count(snap.client_buf, "PINGREQ")
                  + Count(p2c, "PINGRESP")

\* Until a first freeze, an administrative DISCONNECT of the broker is
\* swallowed: the client never sees one.
AdminDisconnectHidden ==
  freezes = 0 =>
  \A i \in DOMAIN p2c : p2c[i].type = "DISCONNECT" => p2c[i].body # "retryable"

\* Why it holds: a DISCONNECT is the last thing on a connection that is closed, so
\* nothing is left over behind an administrative one, and no window keeps one.
AdminInv ==
  /\ \A p \in Raws(windows.b2c) : p.type # "DISCONNECT"
  /\ freezes = 0 =>
       /\ phase # "frozen" /\ leftover = << >>
       /\ \A i \in DOMAIN b2p :
            b2p[i].type = "DISCONNECT" => i = Len(b2p) /\ link = "dead"
  /\ AdminDisconnectHidden

\* The invariant the proofs rest on.
IInv == TypeOK /\ AckInv /\ DeliverInv /\ AdminInv

\* The SUBACK of a re-SUBSCRIBE stays with the proxy: a SUBACK on its way to
\* the client answers a SUBSCRIBE of the client.
NoForeignSuback ==
  \A i \in DOMAIN p2c : p2c[i].type = "SUBACK" => cOut[p2c[i].id].st = "sub"

\* The proxy keeps a session as long as its client does: a broker that goes
\* away never ends it (buffer overflow and client faults aside).
SurvivesOutages == why # "establish"

----------------------------------------------------------------------------
(* Fairness and liveness.                                                  *)

\* The session task and the peers' reading of their sockets are never starved,
\* a connect attempt that is left alone long enough succeeds (a client packet
\* restarts it, but the client sends finitely many), and the coordinator answers
\* a frozen session one way or the other.
Fairness ==
  /\ WF_vars(Peers /\ (ClientReads \/ BrokerReads))
  /\ WF_vars(ForwardClientPacket) /\ WF_vars(ForwardBrokerPacket)
  /\ WF_vars(InterceptDisconnect \/ BrokerEof \/ ClientGone)
  /\ WF_vars(service_outage_packet) /\ WF_vars(ConnectBroker)
  /\ WF_vars(RecvConnack \/ RecvSuback \/ EstablishFails \/ Replay)
  /\ WF_vars(ResumeSession \/ adopt_session)

FairSpec == Spec /\ Fairness

\* Every message published with QoS 1 or 2 is acknowledged to the client, or
\* the session ends and the client knows it has to send it again.
EventuallyAcked ==
  \A m \in 1..Len(ClientQoS) :
    (m <= cSent /\ ClientQoS[m] > 0) ~> (m \in cAcked \/ phase = "ended")
=============================================================================
