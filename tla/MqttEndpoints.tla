--------------------------- MODULE MqttEndpoints ---------------------------
(***************************************************************************)
(* The two MQTT peers of one proxied session and the TCP streams that join *)
(* them to the proxy.  Neither peer is under src/: both are modelled from  *)
(* what src/ and its fake brokers (src/tests) expect of them.              *)
(*                                                                         *)
(*   client --c2p--> proxy --p2b--> broker                                 *)
(*   client <--p2c-- proxy <--b2p-- broker                                 *)
(*                                                                         *)
(* The client connection is one TCP connection for the whole session.  The *)
(* broker connection comes and goes; link is its state:                    *)
(*   "none" the proxy holds no connection     "syn" CONNECT not yet read   *)
(*   "up"   the broker serves the connection  "dead" closed by the broker, *)
(*                                            not yet noticed by the proxy *)
(***************************************************************************)
EXTENDS InflightWindows, FiniteSetsExt

CONSTANTS
  ClientQoS,   \* QoS of the messages the client publishes, in order
  BrokerQoS,   \* QoS of the messages the broker routes to the client, in order
  MaxId,       \* packet ids are 1..MaxId (65535 in MQTT)
  Reuse,       \* TRUE: an id is reused as soon as MQTT allows; FALSE: ids count up
  CleanStart,  \* the client's own CONNECT asked for a clean session
  Filters,     \* topic filters the client may subscribe to
  Options,     \* subscription options (1, 2, ...)
  MaxSubOps,   \* bound: SUBSCRIBE and UNSUBSCRIBE packets of the client
  MaxPings,    \* bound: PINGREQs of the client
  MaxDrops,    \* bound: connections the broker closes
  Faults,      \* how the broker may close: subset of {"close", "retryable", "fault"}
  MayLeave     \* the client may disconnect or fall silent

Ids == 1..MaxId

ASSUME EndpointsAssumption ==
  /\ MaxId \in Nat \ {0}
  /\ ClientQoS \in Seq(0..2) /\ BrokerQoS \in Seq(0..2)
  /\ {Reuse, CleanStart, MayLeave} \subseteq BOOLEAN
  /\ Options \subseteq Nat \ {0}
  /\ {MaxSubOps, MaxPings, MaxDrops} \subseteq Nat
  /\ Faults \subseteq {"close", "retryable", "fault"}

VARIABLES
  c2p, p2c, p2b, b2p, link,
  \* the client
  cOut,      \* sender state per packet id
  cRecvd,    \* QoS 2 ids received and not yet released
  cSent,     \* how many of its messages it has published
  cIds,      \* how many packet ids it has handed out
  cSubOps,   \* how many (un)subscriptions it has sent
  cPings,    \* [sent, open]: PINGREQs sent, and those not yet answered
  cAcked,    \* messages it holds to be delivered
  cGot,      \* broker messages handed to the application, in order
  cOpen,     \* its socket is open
  \* the broker
  bOut,      \* in-flight messages to the client, in order
  bRecvd,    \* QoS 2 ids received and not yet released
  bSent, bIds,
  bDone,     \* messages it holds to be delivered to the client
  bGot,      \* client messages it routed, in order
  bSubs,     \* the client's subscriptions
  bClean,    \* the session ends with the connection
  drops      \* connections closed so far

streams    == <<c2p, p2c, p2b, b2p, link>>
clientVars == <<cOut, cRecvd, cSent, cIds, cSubOps, cPings, cAcked, cGot, cOpen>>
brokerVars == <<bOut, bRecvd, bSent, bIds, bDone, bGot, bSubs, bClean, drops>>

NoSubs == [f \in {} |-> 0]
Free   == [st |-> "free", body |-> NoBody]

Alive == link \in {"syn", "up"}

\* The ids a sender may use next, given those it has in use and how many it
\* has handed out before.
NextIds(busy, used) ==
  IF Reuse THEN IF Ids \subseteq busy THEN {} ELSE {Min(Ids \ busy)}
           ELSE {used + 1} \cap Ids

\* What the receiver of a PUBLISH answers.
Answer(p) ==
  CASE p.qos = 0 -> << >>
    [] p.qos = 1 -> << Pkt("PUBACK", p.id) >>
    [] p.qos = 2 -> << Pkt("PUBREC", p.id) >>

HeadIs(ch, types) == ch # << >> /\ Head(ch).type \in types

----------------------------------------------------------------------------
(* The client.                                                             *)

cBusy == {i \in Ids : cOut[i].st # "free"}

\* The client sends p, which occupies its id (if it has one) in state st.
ClientSends(p, st) ==
  /\ cOpen
  /\ c2p' = Append(c2p, p)
  /\ cOut' = IF p.id = NoId THEN cOut
             ELSE [cOut EXCEPT ![p.id] = [st |-> st, body |-> p.body]]
  /\ cIds' = IF p.id = NoId THEN cIds ELSE cIds + 1
  /\ UNCHANGED <<p2c, p2b, b2p, link, cRecvd, cAcked, cGot, cOpen, brokerVars>>

ClientPublish ==
  /\ cSent < Len(ClientQoS)
  /\ LET m == cSent + 1
         q == ClientQoS[m]
     IN  \E id \in IF q = 0 THEN {NoId} ELSE NextIds(cBusy, cIds) :
           ClientSends(PublishPkt(id, q, m), "pub")
  /\ cSent' = cSent + 1
  /\ UNCHANGED <<cSubOps, cPings>>

ClientSubscribe ==
  /\ cSubOps < MaxSubOps
  /\ \E id \in NextIds(cBusy, cIds), f \in Filters, o \in Options :
       ClientSends(PktWith("SUBSCRIBE", id, [x \in {f} |-> o]), "sub")
  /\ cSubOps' = cSubOps + 1
  /\ UNCHANGED <<cSent, cPings>>

ClientUnsubscribe ==
  /\ cSubOps < MaxSubOps
  /\ \E id \in NextIds(cBusy, cIds), f \in Filters :
       ClientSends(PktWith("UNSUBSCRIBE", id, {f}), "unsub")
  /\ cSubOps' = cSubOps + 1
  /\ UNCHANGED <<cSent, cPings>>

ClientPing ==
  /\ cPings.sent < MaxPings
  /\ ClientSends(Pkt("PINGREQ", NoId), "free")
  /\ cPings' = [sent |-> cPings.sent + 1, open |-> cPings.open + 1]
  /\ UNCHANGED <<cSent, cSubOps>>

\* Leaving: a DISCONNECT and a close, or just a close.
ClientLeave ==
  /\ MayLeave /\ cOpen
  /\ cOpen' = FALSE
  /\ \/ c2p' = Append(c2p, Pkt("DISCONNECT", NoId))
     \/ UNCHANGED c2p
  /\ UNCHANGED <<p2c, p2b, b2p, link, brokerVars,
                 cOut, cRecvd, cSent, cIds, cSubOps, cPings, cAcked, cGot>>

\* The client takes the next packet off its socket and answers with reply
\* (the caller checks that there is one).
ClientTakes(reply) ==
  /\ cOpen
  /\ p2c' = Tail(p2c)
  /\ c2p' = c2p \o reply
  /\ UNCHANGED <<p2b, b2p, link, cSent, cIds, cSubOps, brokerVars>>

ClientOnPublish ==
  LET p == Head(p2c)
      new == p.qos < 2 \/ p.id \notin cRecvd
  IN  /\ HeadIs(p2c, {"PUBLISH"})
      /\ ClientTakes(Answer(p))
      /\ cGot' = IF new THEN Append(cGot, p.body) ELSE cGot
      /\ cRecvd' = IF p.qos = 2 THEN cRecvd \cup {p.id} ELSE cRecvd
      /\ UNCHANGED <<cOut, cPings, cAcked, cOpen>>

ClientOnPubrel ==
  /\ HeadIs(p2c, {"PUBREL"})
  /\ ClientTakes(<<Pkt("PUBCOMP", Head(p2c).id)>>)
  /\ cRecvd' = cRecvd \ {Head(p2c).id}
  /\ UNCHANGED <<cOut, cPings, cAcked, cGot, cOpen>>

\* A PUBREC for a QoS 2 publish is answered with PUBREL; a repeated one may be
\* answered again or ignored; any other is ignored.
ClientOnPubrec ==
  /\ HeadIs(p2c, {"PUBREC"})
  /\ LET id   == Head(p2c).id
         slot == cOut[id]
         pub  == slot.st = "pub" /\ ClientQoS[slot.body] = 2
     IN  \/ /\ pub \/ slot.st = "rel"
            /\ ClientTakes(<<Pkt("PUBREL", id)>>)
            /\ cOut' = [cOut EXCEPT ![id] = [st |-> "rel", body |-> slot.body]]
         \/ /\ ~ pub
            /\ ClientTakes(<< >>)
            /\ UNCHANGED cOut
  /\ UNCHANGED <<cRecvd, cPings, cAcked, cGot, cOpen>>

\* PUBACK completes a QoS 1 publish and PUBCOMP a released QoS 2 one.
Completes(p) ==
  \/ p.type = "PUBACK" /\ cOut[p.id].st = "pub" /\ ClientQoS[cOut[p.id].body] = 1
  \/ p.type = "PUBCOMP" /\ cOut[p.id].st = "rel"

ClientOnAck ==
  /\ HeadIs(p2c, {"PUBACK", "PUBCOMP"})
  /\ ClientTakes(<< >>)
  /\ LET p == Head(p2c)
     IN  IF Completes(p)
         THEN /\ cAcked' = cAcked \cup {cOut[p.id].body}
              /\ cOut' = [cOut EXCEPT ![p.id] = Free]
         ELSE UNCHANGED <<cAcked, cOut>>
  /\ UNCHANGED <<cRecvd, cPings, cGot, cOpen>>

ClientOnSuback ==
  /\ HeadIs(p2c, {"SUBACK", "UNSUBACK"})
  /\ ClientTakes(<< >>)
  /\ LET p == Head(p2c)
     IN  cOut' = IF \/ p.type = "SUBACK" /\ cOut[p.id].st = "sub"
                    \/ p.type = "UNSUBACK" /\ cOut[p.id].st = "unsub"
                 THEN [cOut EXCEPT ![p.id] = Free]
                 ELSE cOut
  /\ UNCHANGED <<cRecvd, cPings, cAcked, cGot, cOpen>>

ClientOnPingresp ==
  /\ HeadIs(p2c, {"PINGRESP"})
  /\ ClientTakes(<< >>)
  /\ cPings' = [sent |-> cPings.sent,
                open |-> IF cPings.open = 0 THEN 0 ELSE cPings.open - 1]
  /\ UNCHANGED <<cOut, cRecvd, cAcked, cGot, cOpen>>

ClientOnDisconnect ==
  /\ HeadIs(p2c, {"DISCONNECT"})
  /\ ClientTakes(<< >>)
  /\ cOpen' = FALSE
  /\ UNCHANGED <<cOut, cRecvd, cPings, cAcked, cGot>>

ClientSteps ==
  \/ ClientPublish \/ ClientSubscribe \/ ClientUnsubscribe \/ ClientPing
  \/ ClientLeave

ClientReads ==
  \/ ClientOnPublish \/ ClientOnPubrel \/ ClientOnPubrec \/ ClientOnAck
  \/ ClientOnSuback \/ ClientOnPingresp \/ ClientOnDisconnect

----------------------------------------------------------------------------
(* The broker.                                                             *)

\* What the broker's session store loses when the session ends.
Forget == /\ bOut' = << >> /\ bRecvd' = {} /\ bSubs' = NoSubs
Keep   == UNCHANGED <<bOut, bRecvd, bSubs>>

\* What the broker re-sends when a session is resumed, right after CONNACK.
Redelivery(out) ==
  [i \in DOMAIN out |->
     IF out[i].st = "pub"
     THEN with_dup(PublishPkt(out[i].id, BrokerQoS[out[i].msg], out[i].msg))
     ELSE Pkt("PUBREL", out[i].id)]

BrokerTakes(reply) ==
  /\ link = "up"
  /\ p2b' = Tail(p2b)
  /\ b2p' = b2p \o reply
  /\ UNCHANGED <<c2p, p2c, link, clientVars, bSent, bIds, bClean, drops>>

BrokerOnConnect ==
  /\ link = "syn" /\ HeadIs(p2b, {"CONNECT"})
  /\ p2b' = Tail(p2b)
  /\ link' = "up"
  /\ bClean' = (Head(p2b).body = "clean")
  /\ IF Head(p2b).body = "clean"
     THEN Forget /\ b2p' = <<Pkt("CONNACK", NoId)>>
     ELSE Keep   /\ b2p' = <<Pkt("CONNACK", NoId)>> \o Redelivery(bOut)
  /\ UNCHANGED <<c2p, p2c, clientVars, bSent, bIds, bDone, bGot, drops>>

BrokerOnPublish ==
  LET p   == Head(p2b)
      new == p.qos < 2 \/ p.id \notin bRecvd
  IN  /\ HeadIs(p2b, {"PUBLISH"})
      /\ BrokerTakes(Answer(p))
      /\ bGot' = IF new THEN Append(bGot, p.body) ELSE bGot
      /\ bRecvd' = IF p.qos = 2 THEN bRecvd \cup {p.id} ELSE bRecvd
      /\ UNCHANGED <<bOut, bDone, bSubs>>

BrokerOnPubrel ==
  /\ HeadIs(p2b, {"PUBREL"})
  /\ BrokerTakes(<<Pkt("PUBCOMP", Head(p2b).id)>>)
  /\ bRecvd' = bRecvd \ {Head(p2b).id}
  /\ UNCHANGED <<bOut, bDone, bGot, bSubs>>

Flow(id) == {i \in DOMAIN bOut : bOut[i].id = id}

BrokerOnAck ==
  /\ HeadIs(p2b, {"PUBACK", "PUBCOMP"})
  /\ BrokerTakes(<< >>)
  /\ LET p    == Head(p2b)
         done == {i \in Flow(p.id) :
                    IF p.type = "PUBACK"
                    THEN bOut[i].st = "pub" /\ BrokerQoS[bOut[i].msg] = 1
                    ELSE bOut[i].st = "rel"}
     IN  /\ bDone' = bDone \cup {bOut[i].msg : i \in done}
         /\ bOut' = IF done = {} THEN bOut ELSE RemoveAt(bOut, Min(done))
  /\ UNCHANGED <<bRecvd, bGot, bSubs>>

BrokerOnPubrec ==
  /\ HeadIs(p2b, {"PUBREC"})
  /\ BrokerTakes(<<Pkt("PUBREL", Head(p2b).id)>>)
  /\ bOut' = [i \in DOMAIN bOut |->
                IF i \in Flow(Head(p2b).id) /\ BrokerQoS[bOut[i].msg] = 2
                THEN [id |-> bOut[i].id, msg |-> bOut[i].msg, st |-> "rel"]
                ELSE bOut[i]]
  /\ UNCHANGED <<bRecvd, bDone, bGot, bSubs>>

\* Subscribing overrides the options of a filter already there.
Override(table, more) ==
  [f \in DOMAIN table \cup DOMAIN more |->
     IF f \in DOMAIN more THEN more[f] ELSE table[f]]

Without(table, fs) == [f \in DOMAIN table \ fs |-> table[f]]

BrokerOnSubscribe ==
  /\ \/ /\ HeadIs(p2b, {"SUBSCRIBE"})
        /\ BrokerTakes(<<Pkt("SUBACK", Head(p2b).id)>>)
        /\ bSubs' = Override(bSubs, Head(p2b).body)
     \/ /\ HeadIs(p2b, {"UNSUBSCRIBE"})
        /\ BrokerTakes(<<Pkt("UNSUBACK", Head(p2b).id)>>)
        /\ bSubs' = Without(bSubs, Head(p2b).body)
  /\ UNCHANGED <<bOut, bRecvd, bDone, bGot>>

BrokerOnPing ==
  /\ HeadIs(p2b, {"PINGREQ"})
  /\ BrokerTakes(<<Pkt("PINGRESP", NoId)>>)
  /\ UNCHANGED <<bOut, bRecvd, bDone, bGot, bSubs>>

\* The broker closes after a DISCONNECT of the client.
BrokerOnDisconnect ==
  /\ link = "up" /\ HeadIs(p2b, {"DISCONNECT"})
  /\ p2b' = << >>
  /\ link' = "dead"
  /\ IF bClean THEN Forget ELSE Keep
  /\ UNCHANGED <<c2p, p2c, b2p, clientVars, bSent, bIds, bDone, bGot, bClean, drops>>

BrokerPublish ==
  /\ link = "up"
  /\ bSent < Len(BrokerQoS)
  /\ LET m == bSent + 1
         q == BrokerQoS[m]
     IN  \E id \in IF q = 0 THEN {NoId}
                   ELSE NextIds({bOut[i].id : i \in DOMAIN bOut}, bIds) :
           /\ b2p' = Append(b2p, PublishPkt(id, q, m))
           /\ bOut' = IF q = 0 THEN bOut
                      ELSE Append(bOut, [id |-> id, msg |-> m, st |-> "pub"])
           /\ bIds' = IF q = 0 THEN bIds ELSE bIds + 1
  /\ bSent' = bSent + 1
  /\ UNCHANGED <<c2p, p2c, p2b, link, clientVars, bRecvd, bDone, bGot, bSubs, bClean, drops>>

\* The connection is lost, or closed with a v5 DISCONNECT.  What the broker
\* has not read is gone; of what it sent, a prefix still reaches the proxy.
BrokerCloses ==
  /\ Alive
  /\ drops < MaxDrops
  /\ drops' = drops + 1
  /\ link' = "dead"
  /\ p2b' = << >>
  /\ IF bClean THEN Forget ELSE Keep
  /\ \/ /\ "close" \in Faults
        /\ \E k \in 0..Len(b2p) : b2p' = SubSeq(b2p, 1, k)
     \/ /\ link = "up"
        /\ \E cause \in Faults \ {"close"} :
             b2p' = Append(b2p, PktWith("DISCONNECT", NoId, cause))
  /\ UNCHANGED <<c2p, p2c, clientVars, bSent, bIds, bDone, bGot, bClean>>

BrokerReads ==
  \/ BrokerOnConnect \/ BrokerOnPublish \/ BrokerOnPubrel \/ BrokerOnAck
  \/ BrokerOnPubrec \/ BrokerOnSubscribe \/ BrokerOnPing \/ BrokerOnDisconnect

----------------------------------------------------------------------------
(* A session starts once CONNECT has been answered with CONNACK on both    *)
(* connections (run_session, up to the forward loop).                      *)

EndpointsInit ==
  /\ c2p = << >> /\ p2c = << >> /\ p2b = << >> /\ b2p = << >>
  /\ link = "up"
  /\ cOut = [i \in Ids |-> Free]
  /\ cRecvd = {} /\ cSent = 0 /\ cIds = 0 /\ cSubOps = 0
  /\ cPings = [sent |-> 0, open |-> 0]
  /\ cAcked = {} /\ cGot = << >> /\ cOpen = TRUE
  /\ bOut = << >> /\ bRecvd = {} /\ bSent = 0 /\ bIds = 0
  /\ bDone = {} /\ bGot = << >> /\ bSubs = NoSubs
  /\ bClean = CleanStart /\ drops = 0
=============================================================================
