------------------------------ MODULE Session ------------------------------
(***************************************************************************)
(* One proxied session: the forward loop of src/src/session/forward.rs     *)
(* with the outage handling of outage.rs and the subscription table of     *)
(* subscriptions.rs, between the two peers of MqttEndpoints.               *)
(*                                                                         *)
(* phase is where the task is:                                             *)
(*   "connected", "outage"   the two arms of the loop                      *)
(*   "connack", "suback", "replay"   inside establish_broker, waiting for  *)
(*                           CONNACK, for the SUBACK, and about to write   *)
(*                           (nothing else of the loop runs meanwhile)     *)
(*   "frozen"                inside handle_freeze, waiting for resume      *)
(*   "ended"                 the task returned; why tells what ended it    *)
(*                                                                         *)
(* A definition named after another with a suffix (Swallowed_never)        *)
(* is a faulty variant of it.  No specification uses it; the mutation runs *)
(* put it in the place of the right one to show that a property can fail.  *)
(***************************************************************************)
EXTENDS MqttEndpoints

CONSTANTS
  BufferMax,   \* packets the outage buffer holds (1 MiB in the code)
  MaxFreezes   \* bound: freeze requests of the coordinator

ASSUME SessionAssumption == {BufferMax, MaxFreezes} \subseteq Nat

VARIABLES
  phase,
  windows,
  subscriptions,   \* topic filter -> options
  buffer,          \* the outage buffer: packets in arrival order
  leftover,        \* packets the last broker connection had delivered unread
  snap,            \* the snapshot held by the coordinator while frozen
  why,             \* what ended the session
  freezes

proxyVars == <<phase, windows, subscriptions, buffer, leftover, snap, why, freezes>>
vars == <<streams, clientVars, brokerVars, proxyVars>>

NoSnap == [client_buf |-> << >>, broker_buf |-> << >>, windows |-> << >>,
           subscriptions |-> NoSubs, buffered |-> << >>]

----------------------------------------------------------------------------
(* The subscription table (subscriptions.rs).  A filter occurs once in the *)
(* code's vector, so the table is a function.                              *)

upsert_keeps_options(table, filters) == Override(filters, table)

upsert(table, filters) == Override(table, filters)

remove(table, filters) == Without(table, filters)

track(table, p) ==
  CASE p.type = "SUBSCRIBE"   -> upsert(table, p.body)
    [] p.type = "UNSUBSCRIBE" -> remove(table, p.body)
    [] OTHER                  -> table

\* Packet id 1 whatever ids the client has in use; nothing to send without
\* subscriptions.
resubscribe_packet(table) ==
  IF table = NoSubs THEN << >>
  ELSE << PktWith("SUBSCRIBE", 1, table) >>

----------------------------------------------------------------------------
(* The connected phase.                                                    *)

End(reason) == phase' = "ended" /\ why' = reason

\* The proxy lets go of the broker connection it had.
DropBroker == link' = "none" /\ p2b' = << >> /\ b2p' = << >>

\* Keepalive is answered locally in every phase of the loop; nothing else is.
LocalAnswer_acks(p) ==
  CASE p.type = "PINGREQ" -> << Pkt("PINGRESP", NoId) >>
    [] p.type = "PUBLISH" /\ p.qos = 1 /\ phase = "outage" -> << Pkt("PUBACK", p.id) >>
    [] OTHER -> << >>

LocalAnswer(p) ==
  IF p.type = "PINGREQ" THEN << Pkt("PINGRESP", NoId) >> ELSE << >>

\* client.next() gives a packet: it is accounted for first and sent after
\* that.  On a connection the broker has closed the write may still succeed,
\* into the void, or fail, and then what the old connection had read is lost.
ForwardClientPacket ==
  /\ phase = "connected" /\ c2p # << >>
  /\ LET p == Head(c2p)
     IN  /\ c2p' = Tail(c2p)
         /\ p2c' = p2c \o LocalAnswer(p)
         /\ windows' = track_c2b(windows, p)
         /\ subscriptions' = track(subscriptions, p)
         /\ \/ /\ p2b' = IF Alive THEN Append(p2b, p) ELSE p2b
               /\ UNCHANGED <<phase, link, b2p>>
            \/ /\ ~ Alive
               /\ phase' = "outage"
               /\ DropBroker
  /\ UNCHANGED <<clientVars, brokerVars, buffer, leftover, snap, why, freezes>>

\* The client was already answered locally.
Swallowed_never(p) == FALSE

Swallowed(p) == p.type = "PINGRESP"

ForwardBrokerPacket_acks ==
  /\ phase = "connected" /\ b2p # << >> /\ ~ HeadIs(b2p, {"DISCONNECT"})
  /\ LET p == Head(b2p)
     IN  /\ b2p' = Tail(b2p)
         /\ windows' = track_b2c(windows, p)
         /\ p2c' = Append(p2c, p)
         /\ p2b' = IF Alive /\ p.type = "PUBLISH" /\ p.qos = 1
                   THEN Append(p2b, Pkt("PUBACK", p.id)) ELSE p2b
  /\ UNCHANGED <<c2p, link, clientVars, brokerVars,
                 phase, subscriptions, buffer, leftover, snap, why, freezes>>

\* b.next() gives a packet other than DISCONNECT.
ForwardBrokerPacket ==
  /\ phase = "connected" /\ b2p # << >> /\ ~ HeadIs(b2p, {"DISCONNECT"})
  /\ LET p == Head(b2p)
     IN  /\ b2p' = Tail(b2p)
         /\ IF Swallowed(p) THEN UNCHANGED <<windows, p2c>>
            ELSE /\ windows' = track_b2c(windows, p)
                 /\ p2c' = Append(p2c, p)
  /\ UNCHANGED <<c2p, p2b, link, clientVars, brokerVars,
                 phase, subscriptions, buffer, leftover, snap, why, freezes>>

is_retryable_disconnect_never(p) == FALSE

is_retryable_disconnect(p) == p.type = "DISCONNECT" /\ p.body = "retryable"

\* b.next() gives a v5 DISCONNECT: an administrative one is swallowed, any
\* other is passed on and ends the session.
InterceptDisconnect ==
  /\ phase = "connected" /\ HeadIs(b2p, {"DISCONNECT"})
  /\ DropBroker
  /\ IF is_retryable_disconnect(Head(b2p))
     THEN /\ leftover' = Tail(b2p)
          /\ phase' = "outage"
          /\ UNCHANGED <<p2c, why>>
     ELSE /\ p2c' = Append(p2c, Head(b2p))
          /\ End("fault")
          /\ UNCHANGED leftover
  /\ UNCHANGED <<c2p, clientVars, brokerVars,
                 windows, subscriptions, buffer, snap, freezes>>

\* b.next() gives EOF or an error, after every complete packet was delivered;
\* only an incomplete frame can be left over, and it never completes.
BrokerEof ==
  /\ phase = "connected" /\ link = "dead" /\ b2p = << >>
  /\ DropBroker
  /\ phase' = "outage"
  /\ leftover' = << >>
  /\ UNCHANGED <<c2p, p2c, clientVars, brokerVars,
                 windows, subscriptions, buffer, snap, why, freezes>>

\* client.next() gives EOF, or a write to the closed client socket fails.
ClientGone ==
  /\ phase \in {"connected", "outage"} /\ ~ cOpen
  /\ \/ c2p = << >>
     \/ HeadIs(c2p, {"PINGREQ"})
     \/ /\ phase = "connected" /\ b2p # << >>
        /\ ~ Swallowed(Head(b2p)) /\ ~ is_retryable_disconnect(Head(b2p))
  /\ End("client")
  /\ UNCHANGED <<streams, clientVars, brokerVars,
                 windows, subscriptions, buffer, leftover, snap, freezes>>

\* The keepalive deadline passes first: a v5 client is told, a v3 client is
\* not.  Time is not modelled, so this may happen whenever the loop waits, of a
\* client that MayLeave.
KeepaliveTimeout ==
  /\ phase \in {"connected", "outage"} /\ MayLeave
  /\ \/ p2c' = Append(p2c, PktWith("DISCONNECT", NoId, "keepalive"))
     \/ UNCHANGED p2c
  /\ End("keepalive")
  /\ UNCHANGED <<c2p, p2b, b2p, link, clientVars, brokerVars,
                 windows, subscriptions, buffer, leftover, snap, freezes>>

----------------------------------------------------------------------------
(* The outage phase (service_outage_packet).                               *)

\* A push that does not fit ends the session.
Push(p) ==
  IF Len(buffer) < BufferMax
  THEN buffer' = Append(buffer, p) /\ UNCHANGED <<phase, why>>
  ELSE UNCHANGED buffer /\ End("overflow")

\* Client acks are accounted for and dropped, QoS 0 is dropped, what needs an
\* answer of the broker is kept unanswered.
service_outage_packet ==
  /\ phase = "outage" /\ c2p # << >>
  /\ LET p == Head(c2p)
         withheld == \/ p.type = "PUBLISH" /\ p.qos > 0
                     \/ p.type \in {"PUBREL", "SUBSCRIBE", "UNSUBSCRIBE"}
     IN  /\ c2p' = Tail(c2p)
         /\ p2c' = p2c \o LocalAnswer(p)
         /\ windows' = IF p.type \in {"PUBACK", "PUBREC", "PUBCOMP"}
                       THEN track_c2b(windows, p) ELSE windows
         /\ subscriptions' = track(subscriptions, p)
         /\ IF withheld THEN Push(p)
            ELSE /\ IF p.type = "DISCONNECT" THEN End("client") ELSE UNCHANGED <<phase, why>>
                 /\ UNCHANGED buffer
  /\ UNCHANGED <<p2b, b2p, link, clientVars, brokerVars, leftover, snap, freezes>>

\* TcpStream::connect succeeds, and establish_broker writes the CONNECT with
\* the clean bit cleared (force_session_resumption).  A refused attempt only
\* waits and tries again: it changes nothing here.
force_session_resumption(connect) == PktWith(connect.type, connect.id, "resume")

connect_raw == PktWith("CONNECT", NoId, IF CleanStart THEN "clean" ELSE "resume")

ConnectBroker ==
  /\ phase = "outage"
  /\ link' = "syn"
  /\ p2b' = << force_session_resumption(connect_raw) >>
  /\ phase' = "connack"
  /\ UNCHANGED <<c2p, p2c, b2p, clientVars, brokerVars,
                 windows, subscriptions, buffer, leftover, snap, why, freezes>>

\* The CONNACK; its session-present flag is not looked at.  The recorded
\* subscriptions go out next, if there are any.
RecvConnack ==
  /\ phase = "connack" /\ HeadIs(b2p, {"CONNACK"})
  /\ b2p' = Tail(b2p)
  /\ p2b' = IF Alive THEN p2b \o resubscribe_packet(subscriptions) ELSE p2b
  /\ phase' = IF resubscribe_packet(subscriptions) = << >> THEN "replay" ELSE "suback"
  /\ UNCHANGED <<c2p, p2c, link, clientVars, brokerVars,
                 windows, subscriptions, buffer, leftover, snap, why, freezes>>

\* The next packet is taken for the SUBACK, whatever it is.
RecvSuback_forwards ==
  /\ phase = "suback" /\ b2p # << >>
  /\ b2p' = Tail(b2p) /\ p2c' = Append(p2c, Head(b2p))
  /\ phase' = "replay"
  /\ UNCHANGED <<c2p, p2b, link, clientVars, brokerVars,
                 windows, subscriptions, buffer, leftover, snap, why, freezes>>

RecvSuback ==
  /\ phase = "suback" /\ b2p # << >>
  /\ b2p' = Tail(b2p)
  /\ phase' = "replay"
  /\ UNCHANGED <<c2p, p2c, p2b, link, clientVars, brokerVars,
                 windows, subscriptions, buffer, leftover, snap, why, freezes>>

\* The connection is closed before the answer, a write to it fails, or a write
\* to the client does: the error ends the session.
EstablishFails ==
  /\ \/ phase \in {"connack", "suback"} /\ link = "dead" /\ b2p = << >>
     \/ phase = "replay" /\ (link = "dead" \/ ~ cOpen)
  /\ End("establish")
  /\ UNCHANGED <<streams, clientVars, brokerVars,
                 windows, subscriptions, buffer, leftover, snap, freezes>>

\* What a flushed packet leaves in the c2b window.
FlushInto(w, p) ==
  CASE p.type = "PUBLISH" -> insert_c2b_raw(w, p.id, "C2BPublishSent", p)
    [] p.type = "PUBREL"  -> insert_c2b_raw(w, p.id, "C2BPubrelSent", p)
    [] OTHER              -> w

flush(w, packets) ==
  LET flushed[i \in 0..Len(packets)] ==
        IF i = 0 THEN w ELSE FlushInto(flushed[i - 1], packets[i])
  IN  flushed[Len(packets)]

\* What goes to the broker: retransmissions, then the outage buffer.
BrokerWrites_buffer_first == buffer \o broker_retransmits(windows)

BrokerWrites == broker_retransmits(windows) \o buffer

\* The writes of establish_broker: leftovers to the client (untracked), both
\* windows, the outage buffer.  The proxy is the only writer of both streams
\* and reads nothing in between, so writing all at once differs from writing
\* one by one only in where a failing write cuts off, and a failing write
\* ends the session.
Replay ==
  /\ phase = "replay"
  /\ p2c' = p2c \o leftover \o client_retransmits(windows)
  /\ p2b' = IF Alive THEN p2b \o BrokerWrites ELSE p2b
  /\ windows' = flush(windows, buffer)
  /\ buffer' = << >>
  /\ leftover' = << >>
  /\ phase' = "connected"
  /\ UNCHANGED <<c2p, b2p, link, clientVars, brokerVars,
                 subscriptions, snap, why, freezes>>

----------------------------------------------------------------------------
(* Freeze and thaw (handle_freeze, adopt_session).                         *)

\* The snapshot takes the read buffers: some of what the peers have sent is
\* in them, the rest still in the sockets.  Without a broker connection
\* broker_buf is empty and leftover stays behind.
Freeze ==
  /\ phase \in {"connected", "outage"} /\ freezes < MaxFreezes
  /\ freezes' = freezes + 1
  /\ phase' = "frozen"
  /\ \E i \in 0..Len(c2p), j \in 0..Len(b2p) :
       /\ snap' = [client_buf    |-> SubSeq(c2p, 1, i),
                   broker_buf    |-> SubSeq(b2p, 1, j),
                   windows       |-> snapshot(windows),
                   subscriptions |-> subscriptions,
                   buffered      |-> buffer]
       /\ c2p' = SubSeq(c2p, i + 1, Len(c2p))
       /\ b2p' = SubSeq(b2p, j + 1, Len(b2p))
  /\ UNCHANGED <<p2c, p2b, link, clientVars, brokerVars,
                 windows, subscriptions, buffer, leftover, why>>

\* A read buffer goes back in front of what the socket still holds.
Restored_behind(read_buf, socket) == socket \o read_buf

Restored(read_buf, socket) == read_buf \o socket

\* Rollback: the read buffers go back and the loop goes on where it was.
ResumeSession ==
  /\ phase = "frozen"
  /\ c2p' = Restored(snap.client_buf, c2p)
  /\ b2p' = Restored(snap.broker_buf, b2p)
  /\ phase' = IF link = "none" THEN "outage" ELSE "connected"
  /\ snap' = NoSnap
  /\ UNCHANGED <<p2c, p2b, link, clientVars, brokerVars,
                 windows, subscriptions, buffer, leftover, why, freezes>>

\* Handoff: the parent's task exits, its broker connection closes with it, and
\* the child starts a loop without a broker from the snapshot.
adopt_session ==
  /\ phase = "frozen"
  /\ DropBroker
  /\ c2p' = Restored(snap.client_buf, c2p)
  /\ windows' = from_snapshot(snap.windows)
  /\ subscriptions' = snap.subscriptions
  /\ buffer' = snap.buffered
  /\ leftover' = snap.broker_buf
  /\ phase' = "outage"
  /\ snap' = NoSnap
  /\ IF bClean /\ Alive THEN Forget ELSE Keep
  /\ UNCHANGED <<p2c, clientVars, bSent, bIds, bDone, bGot, bClean, drops, why, freezes>>

----------------------------------------------------------------------------
Init ==
  /\ EndpointsInit
  /\ phase = "connected"
  /\ windows = EmptyWindows
  /\ subscriptions = NoSubs
  /\ buffer = << >> /\ leftover = << >>
  /\ snap = NoSnap
  /\ why = "none" /\ freezes = 0

Peers ==
  /\ phase # "ended"
  /\ ClientSteps \/ ClientReads \/ BrokerReads \/ BrokerPublish \/ BrokerCloses
  /\ UNCHANGED proxyVars

Proxy ==
  \/ ForwardClientPacket \/ ForwardBrokerPacket \/ InterceptDisconnect
  \/ BrokerEof \/ ClientGone \/ KeepaliveTimeout
  \/ service_outage_packet \/ ConnectBroker
  \/ RecvConnack \/ RecvSuback \/ EstablishFails \/ Replay
  \/ Freeze \/ ResumeSession \/ adopt_session

Next == Peers \/ Proxy

Spec == Init /\ [][Next]_vars
=============================================================================
