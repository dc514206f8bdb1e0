--------------------------- MODULE SessionProofs ---------------------------
(***************************************************************************)
(* The proofs about a session: the proxy only moves packets, and therefore *)
(* an acknowledgement that reaches a peer is true, for any traffic, any    *)
(* number of broken connections and freezes, and packet ids that are not   *)
(* used again.                                                             *)
(***************************************************************************)
EXTENDS SessionProperties, InflightWindowsProofs

----------------------------------------------------------------------------
(* The operators of Session.                                               *)

\* A window is one over what it keeps, and keeps nothing else.
LEMMA WindowsRaws ==
  ASSUME NEW C, NEW B, NEW w \in Windows(C, B)
  PROVE  /\ Raws(w.c2b) \subseteq C /\ Raws(w.b2c) \subseteq B
         /\ w \in Windows(Raws(w.c2b), Raws(w.b2c))
<1>1. w.c2b \in Vectors(C2BStates, C) /\ w.b2c \in Vectors(B2CStates, B)
  BY SetVector, Zenon
<1>2. /\ Raws(w.c2b) \subseteq C /\ w.c2b \in Vectors(C2BStates, Raws(w.c2b))
      /\ Raws(w.b2c) \subseteq B /\ w.b2c \in Vectors(B2CStates, Raws(w.b2c))
  BY <1>1, VectorRaws
<1>3. w = [c2b |-> w.c2b, b2c |-> w.b2c]
  BY DEF Windows
<1>4. QED
  BY <1>2, <1>3 DEF Windows

\* The windows in W that a flush of the outage buffer goes through.
Flushing(f, W, w, packets) ==
  /\ f \in [0..Len(packets) -> W]
  /\ f[0] = w /\ f[Len(packets)] = flush(w, packets)
  /\ \A i \in 1..Len(packets) : f[i] = FlushInto(f[i - 1], packets[i])

\* It goes packet by packet.
LEMMA FlushSteps ==
  ASSUME NEW C, NEW B, NEW w \in Windows(C, B), NEW packets, IsSeq(packets)
  PROVE  \E f : Flushing(f, Windows(C \cup Range(packets), B), w, packets)
<1> DEFINE W == Windows(C \cup Range(packets), B)
           n == Len(packets)
           Into(v, i) == FlushInto(v, packets[i])
           Rec(g) == [i \in 0..n |-> IF i = 0 THEN w ELSE Into(g[i - 1], i)]
           step == [i \in 1..n |-> [v \in W |-> Into(v, i)]]
<1>1. n \in Nat /\ \A i \in 1..n : packets[i] \in Range(packets)
  BY SeqPlaces
<1>2. flush(w, packets) = (CHOOSE g : g = Rec(g))[n]
  BY DEF flush
<1>3. w \in W
  BY WindowsGrow
<1>4. ASSUME NEW i \in 1..n, NEW v \in W PROVE Into(v, i) \in W
  <2> DEFINE p == packets[i]
  <2>1. p \in C \cup Range(packets)
    BY <1>1
  <2>2. "C2BPublishSent" \in C2BStates /\ "C2BPubrelSent" \in C2BStates
    BY DEF C2BStates
  <2>3. /\ insert_c2b_raw(v, p.id, "C2BPublishSent", p) \in W
        /\ insert_c2b_raw(v, p.id, "C2BPubrelSent", p) \in W
    <3> HIDE DEF p
    <3>1. QED
      BY <1>4, <2>1, <2>2, WindowOps
  <2>4. QED
    BY <1>4, <2>3, Zenon DEF FlushInto
<1> HIDE DEF n, W, Into
<1>5. step \in [1..n -> [W -> W]]
  BY <1>4
<1>6. \A i \in 1..n, v \in W : step[i][v] = Into(v, i)
  OBVIOUS
<1> HIDE DEF step
<1>7. PICK f : Iterates(f, W, w, step, n)
  BY <1>1, <1>3, <1>5, IteratesExist
<1>8. f \in [0..n -> W] /\ f[0] = w /\ \A i \in 1..n : f[i] = Into(f[i - 1], i)
  <2>1. f \in [0..n -> W] /\ f[0] = w /\ \A i \in 1..n : f[i] = step[i][f[i - 1]]
    BY <1>7 DEF Iterates
  <2>2. \A i \in 1..n : i - 1 \in 0..n
    BY <1>1
  <2>3. QED
    BY <1>6, <2>1, <2>2
<1>9. f = Rec(f)
  BY <1>1, <1>8
<1> DEFINE flushed == CHOOSE g : g = Rec(g)
<1>10. flushed = Rec(flushed)
  BY <1>9
<1>11. flushed[0] = f[0] /\ \A i \in 1..n : flushed[i] = Into(flushed[i - 1], i)
  <2> HIDE DEF flushed
  <2>1. QED
    BY <1>1, <1>8, <1>10
<1>12. flushed[n] = f[n]
  <2> HIDE DEF flushed
  <2>1. \A i \in 1..n : flushed[i - 1] = f[i - 1] => flushed[i] = f[i]
    BY <1>8, <1>11
  <2>2. n \in Nat
    BY <1>1
  <2>3. QED
    BY <1>11, <2>1, <2>2, IteratesAgree
<1>13. flush(w, packets) = f[n]
  BY <1>2, <1>12
<1>14. QED
  BY <1>8, <1>13 DEF W, n, Into, Flushing

\* It adds its packets to the c2b window, and no others.
LEMMA FlushKeeps ==
  ASSUME NEW C, NEW B, NEW w \in Windows(C, B), NEW packets, IsSeq(packets)
  PROVE  flush(w, packets) \in Windows(C \cup Range(packets), B)
<1>1. PICK f : Flushing(f, Windows(C \cup Range(packets), B), w, packets)
  BY FlushSteps
<1>2. Len(packets) \in 0..Len(packets)
  BY SeqPlaces
<1>3. QED
  BY <1>1, <1>2 DEF Flushing

\* The local answer is a PINGRESP or nothing.
LEMMA LocalAnswerIs ==
  ASSUME NEW p
  PROVE  /\ IsSeq(LocalAnswer(p))
         /\ Range(LocalAnswer(p)) \subseteq {Pkt("PINGRESP", NoId)}
BY ShortSeqs DEF LocalAnswer

\* What the proxy sends on a new connection by itself.
LEMMA OwnPackets ==
  /\ \A t : /\ IsSeq(resubscribe_packet(t))
            /\ \A p \in Range(resubscribe_packet(t)) : p.type = "SUBSCRIBE"
  /\ force_session_resumption(connect_raw).type = "CONNECT"
  /\ \A type, id, body : PktWith(type, id, body).type = type /\ PktWith(type, id, body).body = body
  /\ \A type, id : Pkt(type, id).type = type /\ Pkt(type, id).id = id
<1>1. /\ \A type, id, body : PktWith(type, id, body).type = type /\ PktWith(type, id, body).body = body
      /\ \A type, id : Pkt(type, id).type = type /\ Pkt(type, id).id = id
  BY DEF PktWith, Pkt, Packet
<1>2. force_session_resumption(connect_raw).type = "CONNECT"
  BY <1>1 DEF force_session_resumption, connect_raw
<1>3. ASSUME NEW t
      PROVE  /\ IsSeq(resubscribe_packet(t))
             /\ \A p \in Range(resubscribe_packet(t)) : p.type = "SUBSCRIBE"
  BY <1>1, ShortSeqs DEF resubscribe_packet
<1>4. QED
  BY <1>1, <1>2, <1>3

----------------------------------------------------------------------------
(* The proxy moves packets.                                                *)

\* A set of packets taken from another one: unchanged, with the DUP bit set, or
\* of no QoS flow.
LEMMA TakenFrom ==
  ASSUME NEW before, NEW after,
         \A p \in after : \/ p \in before
                          \/ p.type \notin QosTypes
                          \/ \E q \in before : p = with_dup(q)
  PROVE  OnlyFrom(before, after)
<1>1. \A q : Same(q, q) /\ Same(with_dup(q), q)
  BY DEF Same, with_dup, Packet
<1>2. QED
  BY <1>1 DEF OnlyFrom

\* What is not one of the five packets of a QoS flow.
LEMMA OtherTypes ==
  \A t \in {"PINGRESP", "DISCONNECT", "CONNECT", "SUBSCRIBE", "CONNACK"} : t \notin QosTypes
BY DEF QosTypes

\* Outside a freeze there is no snapshot.
LEMMA NoReadBuffers ==
  ASSUME StreamsOK, phase # "frozen"
  PROVE  Range(snap.client_buf) = {} /\ Range(snap.broker_buf) = {}
<1>1. snap.client_buf = << >> /\ snap.broker_buf = << >>
  BY DEF StreamsOK, NoSnap
<1>2. QED
  BY <1>1, ShortSeqs

\* Elsewhere a step leaves the snapshot and the outage buffer alone.
LEMMA SnapKept ==
  ASSUME StreamsOK, phase # "frozen", phase' # "frozen", UNCHANGED <<snap, buffer>>
  PROVE  /\ IsSeq(snap.client_buf)' /\ IsSeq(snap.broker_buf)' /\ IsSeq(buffer)'
         /\ (Len(buffer) <= BufferMax)' /\ snap' = NoSnap
         /\ (Range(snap.client_buf))' = {} /\ (Range(snap.broker_buf))' = {}
<1>1. snap = NoSnap /\ IsSeq(buffer) /\ Len(buffer) <= BufferMax
      /\ IsSeq(snap.client_buf) /\ IsSeq(snap.broker_buf)
  BY DEF StreamsOK
<1>2. QED
  BY <1>1, NoReadBuffers

\* A client packet goes into the window and to the broker; a PINGREQ is also answered.
LEMMA ForwardClientMoves ==
  ASSUME TypeOK, ForwardClientPacket
  PROVE  StreamsOK' /\ MovesOnly /\ Raws(windows.b2c)' \subseteq Raws(windows.b2c)
<1> DEFINE p == Head(c2p)
<1>1. StreamsOK /\ phase = "connected" /\ c2p # << >>
  BY DEF TypeOK, ForwardClientPacket
<1>2. IsSeq(c2p) /\ IsSeq(p2c) /\ IsSeq(p2b) /\ IsSeq(b2p) /\ IsSeq(leftover)
      /\ windows \in Windows(Raws(windows.c2b), Raws(windows.b2c))
  BY <1>1 DEF StreamsOK
<1>3. IsSeq(c2p') /\ p \in Range(c2p) /\ Range(c2p') \subseteq Range(c2p)
  BY <1>1, <1>2, TailElements DEF ForwardClientPacket
<1>4. IsSeq(p2c') /\ \A q \in Range(p2c') : q \in Range(p2c) \/ q.type \notin QosTypes
  <2>1. \A q \in Range(LocalAnswer(p)) : q.type \notin QosTypes
    BY LocalAnswerIs, OwnPackets, OtherTypes
  <2>2. p2c' = p2c \o LocalAnswer(p) /\ IsSeq(LocalAnswer(p))
    BY LocalAnswerIs DEF ForwardClientPacket
  <2> HIDE DEF p
  <2>3. QED
    BY <1>2, <2>1, <2>2, ConcatElements
<1>5. /\ windows' \in Windows(Raws(windows'.c2b), Raws(windows'.b2c))
      /\ Raws(windows'.c2b) \subseteq Raws(windows.c2b) \cup {p}
      /\ Raws(windows'.b2c) \subseteq Raws(windows.b2c)
  <2>1. windows' = track_c2b(windows, p)
    BY DEF ForwardClientPacket
  <2> HIDE DEF p
  <2>2. windows' \in Windows(Raws(windows.c2b) \cup {p}, Raws(windows.b2c))
    BY <1>2, <2>1, TrackKeeps
  <2>3. QED
    BY <2>2, WindowsRaws
<1>6. /\ IsSeq(p2b') /\ Range(p2b') \subseteq Range(p2b) \cup {p}
      /\ IsSeq(b2p') /\ Range(b2p') \subseteq Range(b2p)
      /\ phase' # "frozen"
  <2>1. \/ p2b' = Append(p2b, p) /\ b2p' = b2p /\ phase' = phase
        \/ p2b' = p2b /\ b2p' = b2p /\ phase' = phase
        \/ p2b' = << >> /\ b2p' = << >> /\ phase' = "outage"
    BY DEF ForwardClientPacket, DropBroker
  <2> HIDE DEF p
  <2>2. IsSeq(Append(p2b, p)) /\ Range(Append(p2b, p)) = Range(p2b) \cup {p}
    BY <1>2, AppendElements
  <2>3. QED
    BY <1>1, <1>2, <2>1, <2>2, ShortSeqs
<1>7. UNCHANGED <<buffer, leftover, snap>>
  BY DEF ForwardClientPacket
<1> HIDE DEF p
<1>8. StreamsOK'
  BY <1>1, <1>2, <1>3, <1>4, <1>5, <1>6, <1>7, SnapKept DEF StreamsOK
<1>9. \A q \in BrokerBound' : q \in BrokerBound
  BY <1>1, <1>3, <1>5, <1>6, <1>7, SnapKept DEF BrokerBound, FromClient
<1>10. \A q \in ClientBound' : q \in ClientBound \/ q.type \notin QosTypes
  BY <1>1, <1>4, <1>5, <1>6, <1>7, SnapKept DEF ClientBound, ToClient
<1>11. QED
  BY <1>5, <1>8, <1>9, <1>10, TakenFrom DEF MovesOnly

\* A broker packet goes into the window and to the client.
LEMMA ForwardBrokerMoves ==
  ASSUME TypeOK, ForwardBrokerPacket
  PROVE  /\ StreamsOK' /\ MovesOnly
         /\ Raws(windows.b2c)' \subseteq Raws(windows.b2c) \cup {Head(b2p)}
<1> DEFINE p == Head(b2p)
<1>1. StreamsOK /\ phase = "connected" /\ phase' = phase /\ b2p # << >>
      /\ UNCHANGED <<c2p, p2b, buffer, leftover, snap>>
  BY DEF TypeOK, ForwardBrokerPacket
<1>2. IsSeq(c2p) /\ IsSeq(p2c) /\ IsSeq(p2b) /\ IsSeq(b2p) /\ IsSeq(leftover)
      /\ windows \in Windows(Raws(windows.c2b), Raws(windows.b2c))
  BY <1>1 DEF StreamsOK
<1>3. IsSeq(b2p') /\ p \in Range(b2p) /\ Range(b2p') \subseteq Range(b2p)
  BY <1>1, <1>2, TailElements DEF ForwardBrokerPacket
<1>4. \/ p2c' = p2c /\ windows' = windows
      \/ p2c' = Append(p2c, p) /\ windows' = track_b2c(windows, p)
  BY DEF ForwardBrokerPacket
<1> HIDE DEF p
<1>5. IsSeq(p2c') /\ Range(p2c') \subseteq Range(p2c) \cup {p}
  BY <1>2, <1>4, AppendElements
<1>6. /\ windows' \in Windows(Raws(windows'.c2b), Raws(windows'.b2c))
      /\ Raws(windows'.c2b) \subseteq Raws(windows.c2b)
      /\ Raws(windows'.b2c) \subseteq Raws(windows.b2c) \cup {p}
  <2> DEFINE C == Raws(windows.c2b)
             B == Raws(windows.b2c)
  <2>1. windows \in Windows(C, B)
    BY <1>2
  <2> HIDE DEF C, B
  <2>2. windows \in Windows(C, B \cup {p})
    BY <2>1, WindowsGrow
  <2>3. track_b2c(windows, p) \in Windows(C, B \cup {p})
    BY <2>1, TrackKeeps
  <2>4. windows' \in Windows(C, B \cup {p})
    BY <1>4, <2>2, <2>3
  <2>5. QED
    BY <2>4, WindowsRaws DEF C, B
<1>7. StreamsOK'
  BY <1>1, <1>2, <1>3, <1>5, <1>6, SnapKept DEF StreamsOK
<1>8. \A q \in BrokerBound' : q \in BrokerBound
  BY <1>1, <1>6, SnapKept DEF BrokerBound, FromClient
<1>9. \A q \in ClientBound' : q \in ClientBound
  BY <1>1, <1>3, <1>5, <1>6, SnapKept DEF ClientBound, ToClient
<1>10. QED
  BY <1>6, <1>7, <1>8, <1>9, TakenFrom DEF MovesOnly, p

\* Steps that leave the windows, the buffer and the snapshot alone.
LEMMA PlainMoves ==
  ASSUME StreamsOK, phase # "frozen", phase' # "frozen", UNCHANGED <<windows, buffer, snap>>,
         c2p' = c2p, IsSeq(p2b'), IsSeq(b2p'), IsSeq(leftover'), IsSeq(p2c'),
         \A q \in Range(p2b') : q \in Range(p2b) \/ q.type \notin QosTypes,
         Range(b2p') \subseteq Range(b2p),
         Range(leftover') \subseteq Range(leftover) \cup Range(b2p),
         \A q \in Range(p2c') : q \in Range(p2c) \cup Range(b2p) \/ q.type \notin QosTypes
  PROVE  StreamsOK' /\ MovesOnly
<1>1. StreamsOK'
  BY SnapKept DEF StreamsOK
<1>2. \A q \in BrokerBound' : q \in BrokerBound \/ q.type \notin QosTypes
  BY SnapKept DEF BrokerBound, FromClient
<1>3. \A q \in ClientBound' : q \in ClientBound \/ q.type \notin QosTypes
  BY SnapKept DEF ClientBound, ToClient
<1>4. QED
  BY <1>1, <1>2, <1>3, TakenFrom DEF MovesOnly

\* What was read behind a DISCONNECT becomes the leftover, or the DISCONNECT goes to
\* the client.
LEMMA InterceptMoves ==
  ASSUME TypeOK, InterceptDisconnect
  PROVE  StreamsOK' /\ MovesOnly
<1>1. StreamsOK /\ phase # "frozen" /\ phase' # "frozen" /\ b2p # << >>
      /\ UNCHANGED <<c2p, windows, buffer, snap>> /\ p2b' = << >> /\ b2p' = << >>
  BY DEF TypeOK, InterceptDisconnect, HeadIs, DropBroker, End
<1>2. IsSeq(p2c) /\ IsSeq(b2p) /\ IsSeq(leftover)
  BY <1>1 DEF StreamsOK
<1>3. \/ leftover' = Tail(b2p) /\ p2c' = p2c
      \/ leftover' = leftover /\ p2c' = Append(p2c, Head(b2p))
  BY DEF InterceptDisconnect
<1>4. IsSeq(Tail(b2p)) /\ Head(b2p) \in Range(b2p) /\ Range(Tail(b2p)) \subseteq Range(b2p)
  BY <1>1, <1>2, TailElements
<1>5. /\ IsSeq(Append(p2c, Head(b2p)))
      /\ Range(Append(p2c, Head(b2p))) = Range(p2c) \cup {Head(b2p)}
  BY <1>2, AppendElements
<1>6. /\ IsSeq(leftover') /\ Range(leftover') \subseteq Range(leftover) \cup Range(b2p)
      /\ IsSeq(p2c') /\ Range(p2c') \subseteq Range(p2c) \cup Range(b2p)
  BY <1>2, <1>3, <1>4, <1>5
<1>7. QED
  BY <1>1, <1>6, PlainMoves, ShortSeqs

\* The steps that end a connection or the session; the one packet they add is the
\* keepalive DISCONNECT.
LEMMA TimerAndEofMoves ==
  ASSUME TypeOK, BrokerEof \/ ClientGone \/ KeepaliveTimeout \/ EstablishFails
  PROVE  StreamsOK' /\ MovesOnly
<1>1. StreamsOK /\ phase # "frozen" /\ phase' # "frozen"
      /\ UNCHANGED <<c2p, windows, buffer, snap>>
  BY DEF TypeOK, BrokerEof, ClientGone, KeepaliveTimeout, EstablishFails, End, streams
<1>2. IsSeq(p2c) /\ IsSeq(p2b) /\ IsSeq(b2p) /\ IsSeq(leftover)
  BY <1>1 DEF StreamsOK
<1> DEFINE d == PktWith("DISCONNECT", NoId, "keepalive")
<1>3. \/ UNCHANGED <<p2c, p2b, b2p, leftover>>
      \/ p2c' = p2c /\ p2b' = << >> /\ b2p' = << >> /\ leftover' = << >>
      \/ p2c' = Append(p2c, d) /\ UNCHANGED <<p2b, b2p, leftover>>
  BY DEF BrokerEof, ClientGone, KeepaliveTimeout, EstablishFails, DropBroker, streams
<1>4. d.type \notin QosTypes
  BY OwnPackets, OtherTypes
<1> HIDE DEF d
<1>5. IsSeq(Append(p2c, d)) /\ Range(Append(p2c, d)) = Range(p2c) \cup {d}
  BY <1>2, AppendElements
<1>6. /\ IsSeq(p2c') /\ \A q \in Range(p2c') : q \in Range(p2c) \/ q.type \notin QosTypes
      /\ IsSeq(p2b') /\ Range(p2b') \subseteq Range(p2b)
      /\ IsSeq(b2p') /\ Range(b2p') \subseteq Range(b2p)
      /\ IsSeq(leftover') /\ Range(leftover') \subseteq Range(leftover)
  BY <1>2, <1>3, <1>4, <1>5, ShortSeqs
<1>7. QED
  BY <1>1, <1>6, PlainMoves

\* On a new connection the proxy sends CONNECT and SUBSCRIBE of its own, and takes
\* their answers off.
LEMMA ConnectMoves ==
  ASSUME TypeOK, ConnectBroker \/ RecvConnack \/ RecvSuback
  PROVE  StreamsOK' /\ MovesOnly
<1>1. StreamsOK /\ phase # "frozen" /\ phase' # "frozen"
      /\ UNCHANGED <<c2p, p2c, windows, buffer, leftover, snap>>
  BY DEF TypeOK, ConnectBroker, RecvConnack, RecvSuback
<1>2. IsSeq(p2c) /\ IsSeq(p2b) /\ IsSeq(b2p) /\ IsSeq(leftover)
  BY <1>1 DEF StreamsOK
<1>3. IsSeq(b2p') /\ Range(b2p') \subseteq Range(b2p)
  <2>1. b2p' = b2p \/ (b2p # << >> /\ b2p' = Tail(b2p))
    BY DEF ConnectBroker, RecvConnack, RecvSuback, HeadIs
  <2>2. QED
    BY <1>2, <2>1, TailElements
<1> DEFINE r == resubscribe_packet(subscriptions)
           c == force_session_resumption(connect_raw)
<1>4. p2b' = p2b \/ p2b' = p2b \o r \/ p2b' = << c >>
  BY DEF ConnectBroker, RecvConnack, RecvSuback
<1>5. /\ IsSeq(r) /\ \A q \in Range(r) : q.type \notin QosTypes
      /\ c.type \notin QosTypes
  BY OwnPackets, OtherTypes
<1> HIDE DEF r, c
<1>6. IsSeq(p2b \o r) /\ Range(p2b \o r) = Range(p2b) \cup Range(r)
  BY <1>2, <1>5, ConcatElements
<1>7. IsSeq(p2b') /\ \A q \in Range(p2b') : q \in Range(p2b) \/ q.type \notin QosTypes
  <2>1. IsSeq(<<c>>) /\ Range(<<c>>) = {c}
    BY ShortSeqs
  <2>2. QED
    BY <1>2, <1>4, <1>5, <1>6, <2>1
<1>8. QED
  BY <1>1, <1>2, <1>3, <1>7, PlainMoves

\* During an outage a client packet goes into the buffer or the window, or is dropped.
LEMMA OutageMoves ==
  ASSUME TypeOK, service_outage_packet
  PROVE  StreamsOK' /\ MovesOnly /\ Raws(windows.b2c)' \subseteq Raws(windows.b2c)
<1> DEFINE p == Head(c2p)
<1>1. StreamsOK /\ phase = "outage" /\ phase' # "frozen" /\ c2p # << >>
      /\ UNCHANGED <<p2b, b2p, leftover, snap>>
  BY DEF TypeOK, service_outage_packet, Push, End
<1>2. IsSeq(c2p) /\ IsSeq(p2c) /\ IsSeq(p2b) /\ IsSeq(b2p) /\ IsSeq(leftover) /\ IsSeq(buffer)
      /\ windows \in Windows(Raws(windows.c2b), Raws(windows.b2c)) /\ snap = NoSnap
      /\ IsSeq(snap.client_buf) /\ IsSeq(snap.broker_buf) /\ Len(buffer) <= BufferMax
  BY <1>1 DEF StreamsOK
<1>3. IsSeq(c2p') /\ p \in Range(c2p) /\ Range(c2p') \subseteq Range(c2p)
  BY <1>1, <1>2, TailElements DEF service_outage_packet
<1>4. IsSeq(p2c') /\ \A q \in Range(p2c') : q \in Range(p2c) \/ q.type \notin QosTypes
  <2>1. \A q \in Range(LocalAnswer(p)) : q.type \notin QosTypes
    BY LocalAnswerIs, OwnPackets, OtherTypes
  <2>2. p2c' = p2c \o LocalAnswer(p) /\ IsSeq(LocalAnswer(p))
    BY LocalAnswerIs DEF service_outage_packet
  <2> HIDE DEF p
  <2>3. QED
    BY <1>2, <2>1, <2>2, ConcatElements
<1>5. /\ windows' \in Windows(Raws(windows'.c2b), Raws(windows'.b2c))
      /\ Raws(windows'.c2b) \subseteq Raws(windows.c2b) \cup {p}
      /\ Raws(windows'.b2c) \subseteq Raws(windows.b2c)
  <2> DEFINE C == Raws(windows.c2b)
             B == Raws(windows.b2c)
  <2>1. windows' = windows \/ windows' = track_c2b(windows, p)
    BY DEF service_outage_packet
  <2>2. windows \in Windows(C, B)
    BY <1>2
  <2> HIDE DEF p, C, B
  <2>3. windows \in Windows(C \cup {p}, B)
    BY <2>2, WindowsGrow
  <2>4. track_c2b(windows, p) \in Windows(C \cup {p}, B)
    BY <2>2, TrackKeeps
  <2>5. windows' \in Windows(C \cup {p}, B)
    BY <2>1, <2>3, <2>4
  <2>6. QED
    BY <2>5, WindowsRaws DEF C, B
<1>6. IsSeq(buffer') /\ Range(buffer') \subseteq Range(buffer) \cup {p} /\ Len(buffer') <= BufferMax
  <2>1. \/ buffer' = buffer
        \/ Len(buffer) < BufferMax /\ buffer' = Append(buffer, p)
    BY DEF service_outage_packet, Push
  <2> HIDE DEF p
  <2>2. IsSeq(Append(buffer, p)) /\ Range(Append(buffer, p)) = Range(buffer) \cup {p}
    BY <1>2, AppendElements
  <2>3. Len(Append(buffer, p)) = Len(buffer) + 1 /\ Len(buffer) \in Nat
    BY <1>2 DEF IsSeq
  <2>4. BufferMax \in Nat
    BY SessionAssumption
  <2>5. Len(buffer') <= BufferMax
    BY <1>2, <2>1, <2>3, <2>4
  <2>6. QED
    BY <1>2, <2>1, <2>2, <2>5
<1> HIDE DEF p
<1>7. StreamsOK'
  BY <1>1, <1>2, <1>3, <1>4, <1>5, <1>6 DEF StreamsOK
<1>8. \A q \in BrokerBound' : q \in BrokerBound
  BY <1>1, <1>3, <1>5, <1>6 DEF BrokerBound, FromClient
<1>9. \A q \in ClientBound' : q \in ClientBound \/ q.type \notin QosTypes
  BY <1>1, <1>4, <1>5 DEF ClientBound, ToClient
<1>10. QED
  BY <1>5, <1>7, <1>8, <1>9, TakenFrom DEF MovesOnly

\* The replay takes what it writes from the windows, the leftover and the buffer, and
\* the flushed packets go into the window.
LEMMA ReplayMoves ==
  ASSUME TypeOK, Replay
  PROVE  StreamsOK' /\ MovesOnly /\ Raws(windows.b2c)' \subseteq Raws(windows.b2c)
<1> DEFINE C == Raws(windows.c2b)
           B == Raws(windows.b2c)
           toBroker == broker_retransmits(windows)
           toClient == client_retransmits(windows)
<1>1. StreamsOK /\ phase # "frozen" /\ phase' # "frozen" /\ UNCHANGED <<c2p, b2p, snap>>
      /\ buffer' = << >> /\ leftover' = << >>
  BY DEF TypeOK, Replay
<1>2. IsSeq(c2p) /\ IsSeq(p2c) /\ IsSeq(p2b) /\ IsSeq(b2p) /\ IsSeq(leftover) /\ IsSeq(buffer)
      /\ windows \in Windows(C, B) /\ snap = NoSnap
      /\ IsSeq(snap.client_buf) /\ IsSeq(snap.broker_buf) /\ Len(buffer) <= BufferMax
  BY <1>1 DEF StreamsOK
<1>3. /\ p2c' = p2c \o leftover \o toClient
      /\ p2b' = p2b \/ p2b' = p2b \o (toBroker \o buffer)
      /\ windows' = flush(windows, buffer)
  BY DEF Replay, BrokerWrites
<1> HIDE DEF C, B
<1>4. /\ IsSeq(toBroker) /\ \A p \in Range(toBroker) : \E q \in C : p = q \/ p = with_dup(q)
      /\ IsSeq(toClient) /\ \A p \in Range(toClient) : \E q \in B : p = with_dup(q)
  BY <1>2, BrokerRetransmits, ClientRetransmits
<1> HIDE DEF toBroker, toClient
<1>5. IsSeq(p2c') /\ Range(p2c') = Range(p2c) \cup Range(leftover) \cup Range(toClient)
  <2>1. IsSeq(p2c \o leftover) /\ Range(p2c \o leftover) = Range(p2c) \cup Range(leftover)
    BY <1>2, ConcatElements
  <2>2. QED
    BY <1>3, <1>4, <2>1, ConcatElements
<1>6. IsSeq(p2b') /\ Range(p2b') \subseteq Range(p2b) \cup Range(toBroker) \cup Range(buffer)
  <2> DEFINE new == toBroker \o buffer
  <2>1. IsSeq(new) /\ Range(new) = Range(toBroker) \cup Range(buffer)
    BY <1>2, <1>4, ConcatElements
  <2> HIDE DEF new
  <2>2. IsSeq(p2b \o new) /\ Range(p2b \o new) = Range(p2b) \cup Range(new)
    BY <1>2, <2>1, ConcatElements
  <2>3. p2b' = p2b \/ p2b' = p2b \o new
    BY <1>3 DEF new
  <2>4. QED
    BY <1>2, <2>1, <2>2, <2>3
<1>7. /\ windows' \in Windows(Raws(windows'.c2b), Raws(windows'.b2c))
      /\ Raws(windows'.c2b) \subseteq C \cup Range(buffer)
      /\ Raws(windows'.b2c) \subseteq B
  <2>1. windows' \in Windows(C \cup Range(buffer), B)
    BY <1>2, <1>3, FlushKeeps
  <2>2. QED
    BY <2>1, WindowsRaws
<1>8. StreamsOK'
  <2>1. Len(<< >>) = 0 /\ BufferMax \in Nat
    BY SessionAssumption
  <2>2. QED
    BY <1>1, <1>2, <1>5, <1>6, <1>7, <2>1, ShortSeqs DEF StreamsOK
<1>9. \A p \in BrokerBound' : p \in BrokerBound \/ \E q \in BrokerBound : p = with_dup(q)
  <2>1. C \subseteq BrokerBound
    BY DEF BrokerBound, C
  <2>2. \A p \in Range(p2b') : p \in BrokerBound \/ \E q \in BrokerBound : p = with_dup(q)
    <3>1. Range(p2b) \cup Range(buffer) \subseteq BrokerBound
      BY DEF BrokerBound
    <3>2. QED
      BY <1>4, <1>6, <2>1, <3>1
  <2>3. Range(c2p') \cup Range(snap'.client_buf) \cup Raws(windows'.c2b) \subseteq BrokerBound
    BY <1>1, <1>7, <2>1 DEF BrokerBound, FromClient
  <2>4. Range(buffer') = {}
    BY <1>1, ShortSeqs
  <2>5. BrokerBound' = Range(c2p') \cup Range(snap'.client_buf) \cup Range(p2b')
                          \cup Raws(windows'.c2b) \cup Range(buffer')
    BY DEF BrokerBound, FromClient
  <2>6. QED
    BY <2>2, <2>3, <2>4, <2>5
<1>10. \A p \in ClientBound' : p \in ClientBound \/ \E q \in ClientBound : p = with_dup(q)
  <2>1. B \subseteq ClientBound
    BY DEF ClientBound, B
  <2>2. \A p \in Range(p2c') : p \in ClientBound \/ \E q \in ClientBound : p = with_dup(q)
    <3>1. Range(p2c) \cup Range(leftover) \subseteq ClientBound
      BY DEF ClientBound, ToClient
    <3>2. QED
      BY <1>4, <1>5, <2>1, <3>1
  <2>3. Range(b2p') \cup Range(snap'.broker_buf) \cup Raws(windows'.b2c) \subseteq ClientBound
    BY <1>1, <1>7, <2>1 DEF ClientBound, ToClient
  <2>4. Range(leftover') = {}
    BY <1>1, ShortSeqs
  <2>5. ClientBound' = Range(p2c') \cup Range(leftover') \cup Range(snap'.broker_buf)
                          \cup Range(b2p') \cup Raws(windows'.b2c)
    BY DEF ClientBound, ToClient
  <2>6. QED
    BY <2>2, <2>3, <2>4, <2>5
<1>11. QED
  BY <1>7, <1>8, <1>9, <1>10, TakenFrom DEF MovesOnly, B

\* A freeze splits both incoming streams between snapshot and socket.
LEMMA FreezeMoves ==
  ASSUME TypeOK, Freeze
  PROVE  StreamsOK' /\ MovesOnly
<1>1. StreamsOK /\ phase # "frozen" /\ phase' = "frozen"
      /\ UNCHANGED <<p2c, p2b, windows, subscriptions, buffer, leftover>>
  BY DEF TypeOK, Freeze
<1>2. PICK i \in 0..Len(c2p), j \in 0..Len(b2p) :
        /\ snap' = [client_buf    |-> SubSeq(c2p, 1, i),
                    broker_buf    |-> SubSeq(b2p, 1, j),
                    windows       |-> snapshot(windows),
                    subscriptions |-> subscriptions,
                    buffered      |-> buffer]
        /\ c2p' = SubSeq(c2p, i + 1, Len(c2p))
        /\ b2p' = SubSeq(b2p, j + 1, Len(b2p))
  BY DEF Freeze
<1>3. IsSeq(c2p) /\ IsSeq(p2c) /\ IsSeq(p2b) /\ IsSeq(b2p) /\ IsSeq(leftover) /\ IsSeq(buffer)
      /\ windows \in Windows(Raws(windows.c2b), Raws(windows.b2c)) /\ Len(buffer) <= BufferMax
  BY <1>1 DEF StreamsOK
<1>4. Len(c2p) \in Nat /\ Len(b2p) \in Nat
  BY <1>3, SeqPlaces
<1>5. /\ IsSeq(c2p') /\ Range(c2p') \subseteq Range(c2p)
      /\ IsSeq(b2p') /\ Range(b2p') \subseteq Range(b2p)
  <2>1. 1 <= i + 1 /\ i + 1 \in Nat /\ 1 <= j + 1 /\ j + 1 \in Nat
    BY <1>4
  <2>2. QED
    BY <1>2, <1>3, <1>4, <2>1, SubSeqElements
<1>6. /\ IsSeq(snap'.client_buf) /\ Range(snap'.client_buf) \subseteq Range(c2p)
      /\ IsSeq(snap'.broker_buf) /\ Range(snap'.broker_buf) \subseteq Range(b2p)
  <2>1. snap'.client_buf = SubSeq(c2p, 1, i) /\ snap'.broker_buf = SubSeq(b2p, 1, j)
    BY <1>2
  <2>2. i \in Nat /\ i <= Len(c2p) /\ j \in Nat /\ j <= Len(b2p)
    BY <1>4
  <2>3. QED
    BY <1>3, <2>1, <2>2, SubSeqElements
<1>7. /\ snap'.windows = snapshot(windows) /\ snap'.buffered = buffer
      /\ snap'.subscriptions = subscriptions
  BY <1>2
<1>8. StreamsOK'
  BY <1>1, <1>3, <1>5, <1>6, <1>7 DEF StreamsOK
<1>9. \A q \in BrokerBound' : q \in BrokerBound
  BY <1>1, <1>5, <1>6 DEF BrokerBound, FromClient
<1>10. \A q \in ClientBound' : q \in ClientBound
  BY <1>1, <1>5, <1>6 DEF ClientBound, ToClient
<1>11. QED
  BY <1>8, <1>9, <1>10, TakenFrom DEF MovesOnly

\* Nothing of the session is lost or changed on either way out of a freeze; the
\* windows an adopting child builds are those of the frozen session.
LEMMA ThawMoves ==
  ASSUME TypeOK, ResumeSession \/ adopt_session
  PROVE  StreamsOK' /\ MovesOnly /\ UNCHANGED <<p2c, windows, subscriptions, buffer>>
<1>1. StreamsOK /\ phase = "frozen" /\ phase' # "frozen" /\ snap' = NoSnap /\ p2c' = p2c
      /\ c2p' = snap.client_buf \o c2p
  BY DEF TypeOK, ResumeSession, adopt_session, Restored
<1>2. IsSeq(c2p) /\ IsSeq(p2c) /\ IsSeq(p2b) /\ IsSeq(b2p) /\ IsSeq(leftover) /\ IsSeq(buffer)
      /\ windows \in Windows(Raws(windows.c2b), Raws(windows.b2c)) /\ Len(buffer) <= BufferMax
      /\ IsSeq(snap.client_buf) /\ IsSeq(snap.broker_buf)
      /\ snap.windows = snapshot(windows) /\ snap.buffered = buffer
      /\ snap.subscriptions = subscriptions
  BY <1>1 DEF StreamsOK
<1>3. UNCHANGED <<windows, subscriptions, buffer>>
  <2>1. from_snapshot(snapshot(windows)) = windows
    BY <1>2, SnapshotRoundTrip
  <2>2. QED
    BY <1>2, <2>1 DEF ResumeSession, adopt_session
<1>4. IsSeq(c2p') /\ Range(c2p') = Range(snap.client_buf) \cup Range(c2p)
  BY <1>1, <1>2, ConcatElements
<1>5. /\ IsSeq(b2p') /\ Range(b2p') \subseteq Range(snap.broker_buf) \cup Range(b2p)
      /\ IsSeq(p2b') /\ Range(p2b') \subseteq Range(p2b)
      /\ IsSeq(leftover') /\ Range(leftover') \subseteq Range(snap.broker_buf) \cup Range(leftover)
  <2>1. \/ b2p' = snap.broker_buf \o b2p /\ UNCHANGED <<p2b, leftover>>
        \/ b2p' = << >> /\ p2b' = << >> /\ leftover' = snap.broker_buf
    BY DEF ResumeSession, adopt_session, Restored, DropBroker
  <2>2. /\ IsSeq(snap.broker_buf \o b2p)
        /\ Range(snap.broker_buf \o b2p) = Range(snap.broker_buf) \cup Range(b2p)
    BY <1>2, ConcatElements
  <2>3. QED
    BY <1>2, <2>1, <2>2, ShortSeqs
<1>6. /\ IsSeq(snap'.client_buf) /\ IsSeq(snap'.broker_buf)
      /\ Range(snap'.client_buf) = {} /\ Range(snap'.broker_buf) = {}
  <2>1. snap'.client_buf = << >> /\ snap'.broker_buf = << >>
    BY <1>1 DEF NoSnap
  <2>2. QED
    BY <2>1, ShortSeqs
<1>7. StreamsOK'
  BY <1>1, <1>2, <1>3, <1>4, <1>5, <1>6 DEF StreamsOK
<1>8. \A q \in BrokerBound' : q \in BrokerBound
  BY <1>3, <1>4, <1>5, <1>6 DEF BrokerBound, FromClient
<1>9. \A q \in ClientBound' : q \in ClientBound
  BY <1>1, <1>3, <1>5, <1>6 DEF ClientBound, ToClient
<1>10. QED
  BY <1>1, <1>3, <1>7, <1>8, <1>9, TakenFrom DEF MovesOnly

\* Every step of the proxy.
LEMMA ProxyStep ==
  ASSUME TypeOK, Proxy
  PROVE  StreamsOK' /\ MovesOnly
BY ForwardClientMoves, ForwardBrokerMoves, InterceptMoves, TimerAndEofMoves, ConnectMoves,
   OutageMoves, ReplayMoves, FreezeMoves, ThawMoves, Zenon DEF Proxy

\* The phases follow the connection: the loop is in its outage arm exactly while
\* it holds no connection to the broker.
LEMMA ProxyControl ==
  ASSUME TypeOK, Proxy
  PROVE  ControlOK'
<1>1. ControlOK
  BY DEF TypeOK
<1>2. ASSUME ForwardClientPacket \/ ForwardBrokerPacket \/ InterceptDisconnect \/ BrokerEof
      PROVE  ControlOK'
  BY <1>1, <1>2 DEF ControlOK, ForwardClientPacket, ForwardBrokerPacket, InterceptDisconnect,
                    BrokerEof, DropBroker, End
<1>3. ASSUME ClientGone \/ KeepaliveTimeout \/ EstablishFails
      PROVE  ControlOK'
  BY <1>1, <1>3 DEF ControlOK, ClientGone, KeepaliveTimeout, EstablishFails, End, streams
<1>4. ASSUME service_outage_packet
      PROVE  ControlOK'
  BY <1>1, <1>4 DEF ControlOK, service_outage_packet, Push, End
<1>5. ASSUME ConnectBroker \/ RecvConnack \/ RecvSuback \/ Replay
      PROVE  ControlOK'
  BY <1>1, <1>5 DEF ControlOK, ConnectBroker, RecvConnack, RecvSuback, Replay
<1>6. ASSUME Freeze \/ ResumeSession \/ adopt_session
      PROVE  ControlOK'
  BY <1>1, <1>6 DEF ControlOK, Freeze, ResumeSession, adopt_session, DropBroker
<1>7. QED
  BY <1>2, <1>3, <1>4, <1>5, <1>6, Zenon DEF Proxy

----------------------------------------------------------------------------
(* The acknowledgements.                                                   *)

\* What a step of the proxy leaves the peers: a broker may forget its side of a
\* session whose connection is dropped.
PeersKept ==
  /\ UNCHANGED <<clientVars, bSent, bIds, bDone, bGot>>
  /\ \/ UNCHANGED <<bOut, bRecvd>>
     \/ bOut' = << >> /\ bRecvd' = {}

\* No step of the proxy touches the peers but through their connections.
LEMMA ProxyKeepsPeers ==
  ASSUME Proxy
  PROVE  PeersKept
<1>1. ASSUME adopt_session PROVE PeersKept
  BY <1>1 DEF PeersKept, adopt_session, Forget, Keep
<1>2. ASSUME \/ ForwardClientPacket \/ ForwardBrokerPacket \/ InterceptDisconnect
             \/ BrokerEof \/ ClientGone \/ KeepaliveTimeout
      PROVE PeersKept
  BY <1>2 DEF PeersKept, brokerVars, ForwardClientPacket, ForwardBrokerPacket,
              InterceptDisconnect, BrokerEof, ClientGone, KeepaliveTimeout
<1>3. ASSUME \/ service_outage_packet \/ ConnectBroker
             \/ RecvConnack \/ RecvSuback \/ EstablishFails \/ Replay
             \/ Freeze \/ ResumeSession
      PROVE PeersKept
  BY <1>3 DEF PeersKept, brokerVars, service_outage_packet, ConnectBroker, RecvConnack,
              RecvSuback, EstablishFails, Replay, Freeze, ResumeSession
<1>4. QED
  BY <1>1, <1>2, <1>3, Zenon DEF Proxy

\* Moving packets keeps every acknowledgement true.
LEMMA MovesKeepAcks ==
  ASSUME AckInv, DeliverInv, MovesOnly, PeersKept
  PROVE  AckInv' /\ DeliverInv'
<1>1. UNCHANGED <<cOut, cRecvd, cSent, cIds, cAcked, cGot, bSent, bIds, bDone, bGot>>
  BY DEF PeersKept, clientVars
<1>2. /\ \A p \in BrokerBound' : p.type \in QosTypes => \E q \in BrokerBound : Same(p, q)
      /\ \A p \in ClientBound' : p.type \in QosTypes => \E q \in ClientBound : Same(p, q)
  BY DEF MovesOnly, OnlyFrom
<1>3. Range(bOut') \subseteq Range(bOut) /\ IsSeq(bOut')
  BY ShortSeqs DEF PeersKept, DeliverInv
<1>4. \A id : (Routed(id) => Routed(id)') /\ (Received(id) => Received(id)')
  BY <1>1, <1>3 DEF Routed, Received
<1>5. \A p, q : Same(p, q) => /\ ClientFlow(q) => ClientFlow(p)'
                              /\ ClientAnswer(q) => ClientAnswer(p)'
                              /\ BrokerFlow(q) => BrokerFlow(p)'
                              /\ BrokerAnswer(q) => BrokerAnswer(p)'
  BY <1>1, <1>3, <1>4 DEF Same, ClientFlow, ClientAnswer, BrokerFlow, BrokerAnswer
<1>6. \A p : p.type \notin QosTypes => ClientFlow(p)' /\ ClientAnswer(p)' /\ BrokerFlow(p)' /\ BrokerAnswer(p)'
  BY DEF QosTypes, ClientFlow, ClientAnswer, BrokerFlow, BrokerAnswer
<1>7. \A p \in BrokerBound' : ClientFlow(p)' /\ BrokerAnswer(p)'
  BY <1>2, <1>5, <1>6 DEF AckInv, DeliverInv
<1>8. \A p \in ClientBound' : ClientAnswer(p)' /\ BrokerFlow(p)'
  BY <1>2, <1>5, <1>6 DEF AckInv, DeliverInv
<1>9. AckInv'
  <2>1. \A id \in bRecvd' : id \in 1..cIds' /\ Routed(id)'
    BY <1>1, <1>4 DEF AckInv, PeersKept
  <2>2. (cIds \in 0..MaxId /\ DOMAIN cOut = Ids /\ IsSeq(bGot) /\ cSent \in Nat /\ NoFalseAck)'
    BY <1>1 DEF NoFalseAck, AckInv
  <2>3. QED
    BY <1>7, <1>8, <2>1, <2>2 DEF AckInv
<1>10. DeliverInv'
  <2>1. \A id \in cRecvd' : id \in 1..bIds' /\ Received(id)'
    BY <1>1, <1>4 DEF DeliverInv
  <2>2. (bIds \in 0..MaxId /\ IsSeq(cGot) /\ bSent \in 0..Len(BrokerQoS) /\ NoFalseBrokerAck)'
    BY <1>1 DEF NoFalseBrokerAck, DeliverInv
  <2>3. StoreOK'
    BY <1>1, <1>3 DEF StoreOK, DeliverInv
  <2>4. QED
    BY <1>3, <1>7, <1>8, <2>1, <2>2, <2>3 DEF DeliverInv
<1>11. QED
  BY <1>9, <1>10

----------------------------------------------------------------------------
(* Administrative DISCONNECTs.                                             *)

\* On a connection that is still open the broker has sent no DISCONNECT, and what
\* is read off or cut off a stream leaves a DISCONNECT in the last place.
LEMMA DisconnectLast ==
  ASSUME IsSeq(b2p),
         \A i \in DOMAIN b2p : b2p[i].type = "DISCONNECT" => i = Len(b2p) /\ link = "dead"
  PROVE  /\ link # "dead" => \A q \in Range(b2p) : q.type # "DISCONNECT"
         /\ b2p # << >> =>
              /\ \A i \in DOMAIN Tail(b2p) :
                   Tail(b2p)[i].type = "DISCONNECT" => i = Len(Tail(b2p)) /\ link = "dead"
              /\ Head(b2p).type = "DISCONNECT" => Tail(b2p) = << >>
<1>1. b2p \in Seq(Range(b2p)) /\ Len(b2p) \in Nat /\ DOMAIN b2p = 1..Len(b2p)
  BY SeqPlaces DEF IsSeq
<1>2. ASSUME link # "dead", NEW q \in Range(b2p) PROVE q.type # "DISCONNECT"
  BY <1>1, <1>2, SeqPlaces
<1>3. ASSUME b2p # << >>
      PROVE  /\ \A i \in DOMAIN Tail(b2p) :
                  Tail(b2p)[i].type = "DISCONNECT" => i = Len(Tail(b2p)) /\ link = "dead"
             /\ Head(b2p).type = "DISCONNECT" => Tail(b2p) = << >>
  <2>1. /\ Tail(b2p) \in Seq(Range(b2p)) /\ Len(Tail(b2p)) = Len(b2p) - 1 /\ Len(b2p) >= 1
        /\ \A i \in 1..(Len(b2p) - 1) : Tail(b2p)[i] = b2p[i + 1]
        /\ DOMAIN Tail(b2p) = 1..(Len(b2p) - 1) /\ Head(b2p) = b2p[1]
    BY <1>1, <1>3
  <2>2. ASSUME NEW i \in DOMAIN Tail(b2p), Tail(b2p)[i].type = "DISCONNECT"
        PROVE  i = Len(Tail(b2p)) /\ link = "dead"
    <3>1. i + 1 \in DOMAIN b2p /\ b2p[i + 1].type = "DISCONNECT"
      BY <1>1, <2>1, <2>2
    <3>2. QED
      BY <1>1, <2>1, <2>2, <3>1
  <2>3. ASSUME Head(b2p).type = "DISCONNECT" PROVE Tail(b2p) = << >>
    <3>1. 1 = Len(b2p)
      BY <1>1, <2>1, <2>3
    <3> DEFINE t == Tail(b2p)
               S == Range(b2p)
    <3>2. t \in Seq(S) /\ Len(t) = Len(b2p) - 1
      BY <2>1
    <3> HIDE DEF t, S
    <3>3. Len(t) = 0
      BY <3>1, <3>2
    <3>4. t = << >>
      BY <3>2, <3>3
    <3>5. QED
      BY <3>4 DEF t
  <2>4. QED
    BY <2>2, <2>3
<1>4. QED
  BY <1>2, <1>3

\* The parts of AdminInv a step has to keep.
LEMMA AdminKept ==
  ASSUME AdminInv, freezes' = freezes,
         \A q \in Raws(windows.b2c)' : q.type # "DISCONNECT",
         freezes = 0 =>
           /\ phase' # "frozen" /\ leftover' = << >>
           /\ \A i \in DOMAIN b2p' :
                b2p'[i].type = "DISCONNECT" => i = Len(b2p') /\ link' = "dead"
           /\ \A q \in Range(p2c') :
                q \in Range(p2c) \/ q.type # "DISCONNECT" \/ q.body # "retryable"
  PROVE  AdminInv'
<1>1. freezes = 0 => \A q \in Range(p2c) : q.type = "DISCONNECT" => q.body # "retryable"
  BY DEF AdminInv, AdminDisconnectHidden, Range
<1>2. freezes = 0 => \A i \in DOMAIN p2c' : p2c'[i] \in Range(p2c')
  BY DEF Range
<1>3. AdminDisconnectHidden'
  BY <1>1, <1>2 DEF AdminDisconnectHidden
<1>4. QED
  BY <1>3 DEF AdminInv

\* No step of the proxy lets an administrative DISCONNECT through before a freeze.
LEMMA ProxyAdmin ==
  ASSUME TypeOK, AdminInv, Proxy
  PROVE  AdminInv'
<1>1. StreamsOK /\ ControlOK
  BY DEF TypeOK
<1>2. IsSeq(b2p) /\ IsSeq(p2c) /\ windows \in Windows(Raws(windows.c2b), Raws(windows.b2c))
  BY <1>1 DEF StreamsOK
<1>3. /\ \A q \in Raws(windows.b2c) : q.type # "DISCONNECT"
      /\ freezes = 0 =>
           /\ phase # "frozen" /\ leftover = << >>
           /\ \A i \in DOMAIN b2p :
                b2p[i].type = "DISCONNECT" => i = Len(b2p) /\ link = "dead"
  BY DEF AdminInv
<1>4. DOMAIN << >> = {}
  OBVIOUS
<1>5. CASE ForwardClientPacket \/ service_outage_packet
  <2> DEFINE p == Head(c2p)
  <2>1. /\ freezes' = freezes /\ leftover' = leftover /\ phase # "frozen" /\ phase' # "frozen"
        /\ p2c' = p2c \o LocalAnswer(p)
        /\ (b2p' = b2p /\ link' = link) \/ b2p' = << >>
    BY <1>5 DEF ForwardClientPacket, service_outage_packet, DropBroker, Push, End
  <2>2. Raws(windows.b2c)' \subseteq Raws(windows.b2c)
    BY <1>5, ForwardClientMoves, OutageMoves
  <2>3. \A q \in Range(p2c') : q \in Range(p2c) \/ q.type # "DISCONNECT"
    <3>1. IsSeq(LocalAnswer(p)) /\ \A q \in Range(LocalAnswer(p)) : q.type # "DISCONNECT"
      BY LocalAnswerIs, OwnPackets
    <3> HIDE DEF p
    <3>2. QED
      BY <1>2, <2>1, <3>1, ConcatElements
  <2> HIDE DEF p
  <2>4. QED
    BY <1>3, <1>4, <2>1, <2>2, <2>3, AdminKept
<1>6. CASE ForwardBrokerPacket
  <2>1. /\ freezes' = freezes /\ leftover' = leftover /\ phase # "frozen" /\ phase' # "frozen"
        /\ b2p # << >> /\ b2p' = Tail(b2p) /\ link' = link /\ Head(b2p).type # "DISCONNECT"
        /\ p2c' = p2c \/ p2c' = Append(p2c, Head(b2p))
    BY <1>6 DEF ForwardBrokerPacket, HeadIs
  <2>2. Raws(windows.b2c)' \subseteq Raws(windows.b2c) \cup {Head(b2p)}
    BY <1>6, ForwardBrokerMoves
  <2>3. \A q \in Range(p2c') : q \in Range(p2c) \/ q.type # "DISCONNECT"
    <3>1. Range(Append(p2c, Head(b2p))) = Range(p2c) \cup {Head(b2p)}
      BY <1>2, AppendElements
    <3>2. QED
      BY <2>1, <3>1
  <2>4. freezes = 0 => \A i \in DOMAIN b2p' :
          b2p'[i].type = "DISCONNECT" => i = Len(b2p') /\ link' = "dead"
    BY <1>2, <1>3, <2>1, DisconnectLast
  <2>5. QED
    BY <1>3, <2>1, <2>2, <2>3, <2>4, AdminKept
<1>7. CASE InterceptDisconnect
  <2>1. /\ freezes' = freezes /\ phase' # "frozen" /\ b2p # << >> /\ windows' = windows
        /\ Head(b2p).type = "DISCONNECT" /\ b2p' = << >>
    BY <1>7 DEF InterceptDisconnect, HeadIs, DropBroker, End
  <2>2. \/ leftover' = Tail(b2p) /\ p2c' = p2c
        \/ /\ leftover' = leftover /\ p2c' = Append(p2c, Head(b2p))
           /\ Head(b2p).body # "retryable"
    BY <1>7, <2>1 DEF InterceptDisconnect, is_retryable_disconnect
  <2>3. freezes = 0 => leftover' = << >>
    BY <1>2, <1>3, <2>1, <2>2, DisconnectLast
  <2>4. \A q \in Range(p2c') : q \in Range(p2c) \/ q.body # "retryable"
    <3>1. Range(Append(p2c, Head(b2p))) = Range(p2c) \cup {Head(b2p)}
      BY <1>2, AppendElements
    <3>2. QED
      BY <2>2, <3>1
  <2>5. QED
    BY <1>3, <1>4, <2>1, <2>3, <2>4, AdminKept
<1>8. CASE BrokerEof \/ ClientGone \/ KeepaliveTimeout \/ EstablishFails
  <2> DEFINE d == PktWith("DISCONNECT", NoId, "keepalive")
  <2>1. /\ freezes' = freezes /\ phase # "frozen" /\ phase' # "frozen" /\ windows' = windows
        /\ leftover' = leftover \/ leftover' = << >>
        /\ (b2p' = b2p /\ link' = link) \/ b2p' = << >>
        /\ p2c' = p2c \/ p2c' = Append(p2c, d)
    BY <1>8 DEF BrokerEof, ClientGone, KeepaliveTimeout, EstablishFails, DropBroker, End, streams
  <2>2. d.body # "retryable"
    BY OwnPackets
  <2> HIDE DEF d
  <2>3. \A q \in Range(p2c') : q \in Range(p2c) \/ q.body # "retryable"
    <3>1. Range(Append(p2c, d)) = Range(p2c) \cup {d}
      BY <1>2, AppendElements
    <3>2. QED
      BY <2>1, <2>2, <3>1
  <2>4. QED
    BY <1>3, <1>4, <2>1, <2>3, AdminKept
<1>9. CASE ConnectBroker \/ RecvConnack \/ RecvSuback
  <2>1. /\ freezes' = freezes /\ phase # "frozen" /\ phase' # "frozen" /\ windows' = windows
        /\ leftover' = leftover /\ p2c' = p2c
        /\ \/ b2p' = b2p /\ link = "none"
           \/ b2p # << >> /\ b2p' = Tail(b2p) /\ link' = link
    BY <1>1, <1>9 DEF ControlOK, ConnectBroker, RecvConnack, RecvSuback, HeadIs
  <2>2. freezes = 0 => \A i \in DOMAIN b2p' :
          b2p'[i].type = "DISCONNECT" => i = Len(b2p') /\ link' = "dead"
    BY <1>2, <1>3, <2>1, DisconnectLast
  <2>3. QED
    BY <1>3, <2>1, <2>2, AdminKept
<1>10. CASE Replay
  <2>1. /\ freezes' = freezes /\ phase # "frozen" /\ phase' # "frozen" /\ leftover' = << >>
        /\ b2p' = b2p /\ link' = link
        /\ p2c' = p2c \o leftover \o client_retransmits(windows)
    BY <1>10 DEF Replay
  <2>2. Raws(windows.b2c)' \subseteq Raws(windows.b2c)
    BY <1>10, ReplayMoves
  <2>3. freezes = 0 => \A q \in Range(p2c') : q \in Range(p2c) \/ q.type # "DISCONNECT"
    <3> SUFFICES ASSUME freezes = 0
                 PROVE  \A q \in Range(p2c') : q \in Range(p2c) \/ q.type # "DISCONNECT"
      OBVIOUS
    <3> DEFINE r == client_retransmits(windows)
    <3>1. IsSeq(r) /\ \A q \in Range(r) : \E o \in Raws(windows.b2c) : q = with_dup(o)
      BY <1>2, ClientRetransmits
    <3>2. \A q \in Range(r) : q.type # "DISCONNECT"
      BY <1>3, <3>1 DEF with_dup, Packet
    <3> HIDE DEF r
    <3>3. IsSeq(p2c \o leftover) /\ Range(p2c \o leftover) = Range(p2c)
      BY <1>2, <1>3, ConcatElements, ShortSeqs
    <3>4. p2c' = (p2c \o leftover) \o r
      BY <2>1 DEF r
    <3>5. Range(p2c') = Range(p2c) \cup Range(r)
      BY <3>1, <3>3, <3>4, ConcatElements
    <3>6. QED
      BY <3>2, <3>5
  <2>4. QED
    BY <1>3, <2>1, <2>2, <2>3, AdminKept
<1>11. CASE Freeze \/ ResumeSession \/ adopt_session
  <2>1. freezes' = freezes + 1 \/ (phase = "frozen" /\ freezes' = freezes)
    BY <1>11 DEF Freeze, ResumeSession, adopt_session
  <2>2. freezes' # 0
    BY <1>1, <1>3, <2>1 DEF ControlOK
  <2>3. windows' = windows
    BY <1>11, ThawMoves DEF Freeze
  <2>4. QED
    BY <1>3, <2>2, <2>3 DEF AdminInv, AdminDisconnectHidden
<1>12. QED
  BY <1>5, <1>6, <1>7, <1>8, <1>9, <1>10, <1>11, Zenon DEF Proxy

----------------------------------------------------------------------------
(* The steps of the peers.                                                 *)

\* A step of a peer takes packets off its stream and puts new ones, N on the way
\* to the broker and M on the way to the client, on the other.
LEMMA PeerStreams ==
  ASSUME StreamsOK, UNCHANGED proxyVars, NEW N, NEW M,
         IsSeq(c2p'), IsSeq(p2c'), IsSeq(p2b'), IsSeq(b2p'),
         Range(c2p') \subseteq Range(c2p) \cup N, Range(p2b') \subseteq Range(p2b),
         Range(b2p') \subseteq Range(b2p) \cup M, Range(p2c') \subseteq Range(p2c)
  PROVE  /\ StreamsOK'
         /\ BrokerBound' \subseteq BrokerBound \cup N
         /\ ClientBound' \subseteq ClientBound \cup M
<1>1. UNCHANGED <<phase, windows, subscriptions, buffer, leftover, snap, why, freezes>>
  BY DEF proxyVars
<1>2. StreamsOK'
  BY <1>1 DEF StreamsOK
<1>3. BrokerBound' \subseteq BrokerBound \cup N
  BY <1>1 DEF BrokerBound, FromClient
<1>4. ClientBound' \subseteq ClientBound \cup M
  BY <1>1 DEF ClientBound, ToClient
<1>5. QED
  BY <1>2, <1>3, <1>4

\* What keeps AckInv: ids handed out before stand for the same message as long as
\* they stand for one, and the new packets are true.
LEMMA AckKept ==
  ASSUME AckInv,
         \A p \in BrokerBound' : p \in BrokerBound \/ ClientFlow(p)',
         \A p \in ClientBound' : p \in ClientBound \/ ClientAnswer(p)',
         cIds' \in 0..MaxId, cIds <= cIds', DOMAIN cOut' = Ids, cSent' \in Nat,
         IsSeq(bGot'), Range(bGot) \subseteq Range(bGot'),
         \A id \in 1..cIds : cOut'[id].st \in {"pub", "rel"} =>
           cOut[id].st \in {"pub", "rel"} /\ cOut'[id].body = cOut[id].body,
         \A id \in bRecvd' : id \in bRecvd \/ (id \in 1..cIds' /\ Routed(id)'),
         \A m \in cAcked' : m \in cAcked \/ m \in Range(bGot')
  PROVE  AckInv'
<1>1. cIds \in 0..MaxId /\ MaxId \in Nat
  BY EndpointsAssumption DEF AckInv
<1>2. \A id \in 1..cIds : id \in 1..cIds' /\ (Routed(id) => Routed(id)')
  BY <1>1 DEF Routed
<1>3. \A p : ClientFlow(p) => ClientFlow(p)'
  BY <1>1, <1>2 DEF ClientFlow
<1>4. \A p : ClientAnswer(p) => ClientAnswer(p)'
  BY <1>2 DEF ClientAnswer
<1>5. (\A p \in BrokerBound : ClientFlow(p))' /\ (\A p \in ClientBound : ClientAnswer(p))'
  BY <1>3, <1>4 DEF AckInv
<1>6. \A id \in bRecvd' : id \in 1..cIds' /\ Routed(id)'
  BY <1>2 DEF AckInv
<1>7. NoFalseAck'
  BY DEF AckInv, NoFalseAck
<1>8. QED
  BY <1>5, <1>6, <1>7 DEF AckInv

\* What keeps DeliverInv: an entry of the broker's store is an old one, past PUBREC
\* only if the client has its message, or the next message under the next id.
LEMMA DeliverKept ==
  ASSUME DeliverInv,
         \A p \in BrokerBound' : p \in BrokerBound \/ BrokerAnswer(p)',
         \A p \in ClientBound' : p \in ClientBound \/ BrokerFlow(p)',
         bIds' \in 0..MaxId, bIds <= bIds', bSent' \in 0..Len(BrokerQoS),
         IsSeq(cGot'), Range(cGot) \subseteq Range(cGot'), IsSeq(bOut'),
         \A e \in Range(bOut') :
           \/ \E o \in Range(bOut) : /\ e.id = o.id /\ e.msg = o.msg
                                     /\ e.st # o.st => Received(e.id)
           \/ /\ e.id = bIds + 1 /\ bIds' = bIds + 1
              /\ e.msg = bSent + 1 /\ e.msg \in 1..Len(BrokerQoS) /\ e.st = "pub",
         \A id \in cRecvd' : id \in cRecvd \/ (id \in 1..bIds' /\ Received(id)'),
         \A m \in bDone' : m \in bDone \/ m \in Range(cGot')
  PROVE  DeliverInv'
<1>1. bIds \in 0..MaxId /\ MaxId \in Nat /\ StoreOK
  BY EndpointsAssumption DEF DeliverInv
<1>2. ASSUME NEW e \in Range(bOut'), e.id \in 1..bIds
      PROVE  \E o \in Range(bOut) : /\ e.id = o.id /\ e.msg = o.msg
                                    /\ e.st # o.st => Received(e.id)
  BY <1>1, <1>2
<1>3. \A id \in 1..bIds : id \in 1..bIds' /\ (Received(id) => Received(id)')
  BY <1>1, <1>2 DEF Received
<1>4. \A p : BrokerFlow(p) => BrokerFlow(p)'
  <2>1. SUFFICES ASSUME NEW p, BrokerFlow(p), p.type = "PUBLISH", p.qos > 0,
                        NEW e \in Range(bOut'), e.id = p.id
                 PROVE  e.msg = p.body
    BY <1>3 DEF BrokerFlow
  <2>2. PICK o \in Range(bOut) : e.id = o.id /\ e.msg = o.msg
    BY <1>2, <2>1 DEF BrokerFlow
  <2>3. QED
    BY <2>1, <2>2 DEF BrokerFlow
<1>5. \A p : BrokerAnswer(p) => BrokerAnswer(p)'
  BY <1>3 DEF BrokerAnswer
<1>6. (\A p \in ClientBound : BrokerFlow(p))' /\ (\A p \in BrokerBound : BrokerAnswer(p))'
  BY <1>4, <1>5 DEF DeliverInv
<1>7. \A id \in cRecvd' : id \in 1..bIds' /\ Received(id)'
  BY <1>3 DEF DeliverInv
<1>8. NoFalseBrokerAck'
  BY DEF DeliverInv, NoFalseBrokerAck
<1>9. StoreOK'
  <2>1. SUFFICES ASSUME NEW e \in Range(bOut')
                 PROVE  /\ e.id \in 1..bIds' /\ e.msg \in 1..Len(BrokerQoS)
                        /\ e.st # "pub" => e.msg \in Range(cGot')
                        /\ \A f \in Range(bOut') : f.id = e.id => f.msg = e.msg
    BY DEF StoreOK
  <2>2. CASE \E o \in Range(bOut) : e.id = o.id /\ e.msg = o.msg /\ (e.st # o.st => Received(e.id))
    <3>1. PICK o \in Range(bOut) : e.id = o.id /\ e.msg = o.msg /\ (e.st # o.st => Received(e.id))
      BY <2>2
    <3>2. e.id \in 1..bIds /\ e.msg \in 1..Len(BrokerQoS) /\ (o.st # "pub" => o.msg \in Range(cGot))
      BY <1>1, <3>1 DEF StoreOK
    <3>3. e.st # "pub" => e.msg \in Range(cGot')
      BY <3>1, <3>2 DEF Received
    <3>4. ASSUME NEW f \in Range(bOut'), f.id = e.id PROVE f.msg = e.msg
      <4>1. PICK g \in Range(bOut) : f.id = g.id /\ f.msg = g.msg
        BY <1>2, <3>2, <3>4
      <4>2. QED
        BY <1>1, <3>1, <3>4, <4>1 DEF StoreOK
    <3>5. QED
      BY <1>3, <3>2, <3>3, <3>4
  <2>3. CASE /\ e.id = bIds + 1 /\ bIds' = bIds + 1
             /\ e.msg = bSent + 1 /\ e.msg \in 1..Len(BrokerQoS) /\ e.st = "pub"
    <3>1. ASSUME NEW f \in Range(bOut'), f.id = e.id PROVE f.msg = e.msg
      <4>1. \A o \in Range(bOut) : o.id # bIds + 1
        BY <1>1 DEF StoreOK
      <4>2. QED
        BY <2>3, <3>1, <4>1
    <3>2. QED
      BY <1>1, <2>3, <3>1
  <2>4. QED
    BY <2>2, <2>3
<1>10. QED
  BY <1>6, <1>7, <1>8, <1>9 DEF DeliverInv

\* The same when the step touches nothing but the streams.
LEMMA AckFrame ==
  ASSUME AckInv, UNCHANGED <<cOut, cSent, cIds, cAcked, bGot, bRecvd>>,
         \A p \in BrokerBound' : p \in BrokerBound \/ ClientFlow(p)',
         \A p \in ClientBound' : p \in ClientBound \/ ClientAnswer(p)'
  PROVE  AckInv'
<1>1. cIds \in 0..MaxId /\ DOMAIN cOut = Ids /\ IsSeq(bGot) /\ cSent \in Nat
  BY DEF AckInv
<1>2. QED
  BY <1>1, AckKept

\* The same for DeliverInv.
LEMMA DeliverFrame ==
  ASSUME DeliverInv, UNCHANGED <<bOut, bSent, bIds, bDone, cGot, cRecvd>>,
         \A p \in BrokerBound' : p \in BrokerBound \/ BrokerAnswer(p)',
         \A p \in ClientBound' : p \in ClientBound \/ BrokerFlow(p)'
  PROVE  DeliverInv'
<1>1. bIds \in 0..MaxId /\ bSent \in 0..Len(BrokerQoS) /\ IsSeq(cGot) /\ IsSeq(bOut)
  BY DEF DeliverInv
<1>2. QED
  BY <1>1, DeliverKept

\* What keeps AdminInv: only a broker that closes sends a DISCONNECT, as its last.
LEMMA PeerAdmin ==
  ASSUME StreamsOK, AdminInv, UNCHANGED proxyVars, Range(p2c') \subseteq Range(p2c),
         IsSeq(b2p'),
         \/ b2p' = b2p /\ link' \in {link, "dead"}
         \/ link # "dead" /\ \A q \in Range(b2p') : q \in Range(b2p) \/ q.type # "DISCONNECT"
         \/ link # "dead" /\ link' = "dead" /\ \E d : b2p' = Append(b2p, d)
  PROVE  AdminInv'
<1>1. UNCHANGED <<phase, windows, leftover, freezes>>
  BY DEF proxyVars
<1>2. IsSeq(b2p) /\ (\A q \in Raws(windows.b2c) : q.type # "DISCONNECT")
      /\ (freezes = 0 =>
           /\ phase # "frozen" /\ leftover = << >>
           /\ \A i \in DOMAIN b2p :
                b2p[i].type = "DISCONNECT" => i = Len(b2p) /\ link = "dead")
  BY DEF StreamsOK, AdminInv
<1>3. ASSUME freezes = 0, NEW i \in DOMAIN b2p', b2p'[i].type = "DISCONNECT"
      PROVE  i = Len(b2p') /\ link' = "dead"
  <2>1. CASE b2p' = b2p /\ link' \in {link, "dead"}
    BY <1>2, <1>3, <2>1
  <2>2. CASE link # "dead" /\ \A q \in Range(b2p') : q \in Range(b2p) \/ q.type # "DISCONNECT"
    <3>1. \A q \in Range(b2p) : q.type # "DISCONNECT"
      BY <1>2, <1>3, <2>2, DisconnectLast
    <3>2. b2p'[i] \in Range(b2p')
      BY <1>3 DEF Range
    <3>3. QED
      BY <1>3, <2>2, <3>1, <3>2
  <2>3. CASE link # "dead" /\ link' = "dead" /\ \E d : b2p' = Append(b2p, d)
    <3>1. \A q \in Range(b2p) : q.type # "DISCONNECT"
      BY <1>2, <1>3, <2>3, DisconnectLast
    <3>2. b2p \in Seq(Range(b2p)) /\ \A j \in 1..Len(b2p) : b2p[j] \in Range(b2p)
      BY <1>2, SeqPlaces DEF IsSeq
    <3>3. /\ Len(b2p') = Len(b2p) + 1 /\ Len(b2p) \in Nat /\ DOMAIN b2p' = 1..(Len(b2p) + 1)
          /\ \A j \in 1..Len(b2p) : b2p'[j] = b2p[j]
      BY <2>3, <3>2
    <3>4. QED
      BY <1>3, <2>3, <3>1, <3>2, <3>3
  <2>4. QED
    BY <2>1, <2>2, <2>3
<1>4. QED
  BY <1>1, <1>2, <1>3, AdminKept

\* The client sends a packet under the next id, or under none.
LEMMA ClientSendsKeeps ==
  ASSUME IInv, UNCHANGED proxyVars, NEW p, NEW st, ClientSends(p, st), cSent' \in Nat,
         p.id = NoId \/ (p.id = cIds + 1 /\ p.id \in Ids),
         p.type \in {"PUBLISH", "SUBSCRIBE", "UNSUBSCRIBE", "PINGREQ"},
         p.type = "PUBLISH" => p.qos \in 0..2 /\ (p.qos > 0 => p.id # NoId)
  PROVE  StreamsOK' /\ AckInv' /\ DeliverInv' /\ AdminInv'
<1>1. /\ c2p' = Append(c2p, p) /\ UNCHANGED <<p2c, p2b, b2p, link, cRecvd, cAcked, cGot>>
      /\ UNCHANGED <<bOut, bRecvd, bSent, bIds, bDone, bGot>>
      /\ cOut' = IF p.id = NoId THEN cOut ELSE [cOut EXCEPT ![p.id] = [st |-> st, body |-> p.body]]
      /\ cIds' = IF p.id = NoId THEN cIds ELSE cIds + 1
  BY DEF ClientSends, brokerVars
<1>2. StreamsOK /\ IsSeq(c2p) /\ IsSeq(p2c) /\ IsSeq(p2b) /\ IsSeq(b2p)
  BY DEF IInv, TypeOK, StreamsOK
<1>3. IsSeq(c2p') /\ Range(c2p') = Range(c2p) \cup {p}
  BY <1>1, <1>2, AppendElements
<1>4. /\ StreamsOK'
      /\ BrokerBound' \subseteq BrokerBound \cup {p}
      /\ ClientBound' \subseteq ClientBound \cup {}
  BY <1>1, <1>2, <1>3, PeerStreams
<1>5. /\ cIds \in 0..MaxId /\ MaxId \in Nat /\ DOMAIN cOut = Ids /\ IsSeq(bGot)
      /\ Ids = 1..MaxId /\ NoId = 0
  BY EndpointsAssumption DEF IInv, AckInv, Ids, NoId
<1>6. /\ cIds' \in 0..MaxId /\ cIds <= cIds' /\ DOMAIN cOut' = Ids
      /\ \A id \in 1..cIds : cOut'[id] = cOut[id]
  BY <1>1, <1>5
<1>7. ClientFlow(p)'
  <2>1. ASSUME p.id # NoId PROVE p.id \in 1..cIds' /\ cOut'[p.id].body = p.body
    BY <1>1, <1>5, <2>1
  <2>2. QED
    BY <2>1 DEF ClientFlow
<1>8. AckInv'
  BY <1>1, <1>4, <1>5, <1>6, <1>7, AckKept DEF IInv
<1>9. BrokerAnswer(p)'
  BY DEF BrokerAnswer
<1>10. DeliverInv'
  BY <1>1, <1>4, <1>9, DeliverFrame DEF IInv
<1>11. AdminInv'
  BY <1>1, <1>2, PeerAdmin DEF IInv
<1>12. QED
  BY <1>4, <1>8, <1>10, <1>11

\* Without reuse the next id was never used.
LEMMA FreshId ==
  ASSUME ~ Reuse, NEW busy, NEW used, NEW id \in NextIds(busy, used)
  PROVE  id = used + 1 /\ id \in Ids
BY DEF NextIds

\* Everything the client does on its own account.
LEMMA ClientStepsKeep ==
  ASSUME IInv, ~ Reuse, UNCHANGED proxyVars, ClientSteps
  PROVE  StreamsOK' /\ AckInv' /\ DeliverInv' /\ AdminInv'
<1>1. cSent \in Nat /\ NoId = 0
  BY DEF IInv, AckInv, NoId
<1>2. CASE ClientPublish
  <2> DEFINE m == cSent + 1
             q == ClientQoS[m]
  <2>1. q \in 0..2
    <3>1. cSent < Len(ClientQoS) /\ ClientQoS \in Seq(0..2) /\ Len(ClientQoS) \in Nat
      BY <1>2, EndpointsAssumption DEF ClientPublish
    <3>2. m \in 1..Len(ClientQoS)
      BY <1>1, <3>1
    <3> HIDE DEF m
    <3>3. QED
      BY <3>1, <3>2
  <2>2. PICK id \in (IF q = 0 THEN {NoId} ELSE NextIds(cBusy, cIds)) :
          ClientSends(PublishPkt(id, q, m), "pub")
    BY <1>2 DEF ClientPublish
  <2>3. cSent' \in Nat
    BY <1>1, <1>2 DEF ClientPublish
  <2> DEFINE p == PublishPkt(id, q, m)
  <2>4. p.type = "PUBLISH" /\ p.id = id /\ p.qos = q
    BY DEF PublishPkt, Packet
  <2>5. id = NoId \/ (id = cIds + 1 /\ id \in Ids)
    BY <2>2, FreshId
  <2>6. q > 0 => id # NoId
    BY <1>1, <2>2, FreshId DEF Ids
  <2>7. ClientSends(p, "pub")
    BY <2>2
  <2> HIDE DEF p, q, m
  <2>8. QED
    BY <2>1, <2>3, <2>4, <2>5, <2>6, <2>7, ClientSendsKeeps
<1>3. CASE ClientSubscribe
  <2>1. PICK id \in NextIds(cBusy, cIds), f \in Filters, o \in Options :
          ClientSends(PktWith("SUBSCRIBE", id, [x \in {f} |-> o]), "sub")
    BY <1>3 DEF ClientSubscribe
  <2> DEFINE p == PktWith("SUBSCRIBE", id, [x \in {f} |-> o])
  <2>2. p.type = "SUBSCRIBE" /\ p.id = id
    BY DEF PktWith, Packet
  <2>3. ClientSends(p, "sub")
    BY <2>1
  <2>4. cSent' \in Nat
    BY <1>1, <1>3 DEF ClientSubscribe
  <2> HIDE DEF p
  <2>5. QED
    BY <2>2, <2>3, <2>4, FreshId, ClientSendsKeeps
<1>4. CASE ClientUnsubscribe
  <2>1. PICK id \in NextIds(cBusy, cIds), f \in Filters :
          ClientSends(PktWith("UNSUBSCRIBE", id, {f}), "unsub")
    BY <1>4 DEF ClientUnsubscribe
  <2> DEFINE p == PktWith("UNSUBSCRIBE", id, {f})
  <2>2. p.type = "UNSUBSCRIBE" /\ p.id = id
    BY DEF PktWith, Packet
  <2>3. ClientSends(p, "unsub")
    BY <2>1
  <2>4. cSent' \in Nat
    BY <1>1, <1>4 DEF ClientUnsubscribe
  <2> HIDE DEF p
  <2>5. QED
    BY <2>2, <2>3, <2>4, FreshId, ClientSendsKeeps
<1>5. CASE ClientPing
  <2> DEFINE p == Pkt("PINGREQ", NoId)
  <2>1. p.type = "PINGREQ" /\ p.id = NoId
    BY OwnPackets
  <2>2. ClientSends(p, "free") /\ cSent' \in Nat
    BY <1>1, <1>5 DEF ClientPing
  <2> HIDE DEF p
  <2>3. QED
    BY <2>1, <2>2, ClientSendsKeeps
<1>6. CASE ClientLeave
  <2> DEFINE p == Pkt("DISCONNECT", NoId)
  <2>1. p.type = "DISCONNECT"
    BY OwnPackets
  <2>2. /\ c2p' = c2p \/ c2p' = Append(c2p, p)
        /\ UNCHANGED <<p2c, p2b, b2p, link, cOut, cRecvd, cSent, cIds, cAcked, cGot>>
        /\ UNCHANGED <<bOut, bRecvd, bSent, bIds, bDone, bGot>>
    BY <1>6 DEF ClientLeave, brokerVars
  <2> HIDE DEF p
  <2>3. StreamsOK /\ IsSeq(c2p) /\ IsSeq(p2c) /\ IsSeq(p2b) /\ IsSeq(b2p)
    BY DEF IInv, TypeOK, StreamsOK
  <2>4. IsSeq(Append(c2p, p)) /\ Range(Append(c2p, p)) = Range(c2p) \cup {p}
    BY <2>3, AppendElements
  <2>5. IsSeq(c2p') /\ Range(c2p') \subseteq Range(c2p) \cup {p}
    BY <2>2, <2>3, <2>4
  <2>6. /\ StreamsOK'
        /\ BrokerBound' \subseteq BrokerBound \cup {p}
        /\ ClientBound' \subseteq ClientBound \cup {}
    BY <2>2, <2>3, <2>5, PeerStreams
  <2>7. ClientFlow(p)' /\ BrokerAnswer(p)'
    BY <2>1 DEF ClientFlow, BrokerAnswer
  <2>8. AckInv'
    BY <2>2, <2>6, <2>7, AckFrame DEF IInv
  <2>9. DeliverInv'
    BY <2>2, <2>6, <2>7, DeliverFrame DEF IInv
  <2>10. AdminInv'
    BY <2>2, <2>3, PeerAdmin DEF IInv
  <2>11. QED
    BY <2>6, <2>8, <2>9, <2>10
<1>7. QED
  BY <1>2, <1>3, <1>4, <1>5, <1>6 DEF ClientSteps

\* The receiver of a PUBLISH answers with an acknowledgement of its id, and QoS 0
\* with nothing.
LEMMA AnswerIs ==
  ASSUME NEW p, p.qos \in 0..2
  PROVE  /\ IsSeq(Answer(p))
         /\ \A q \in Range(Answer(p)) : /\ q.type \in {"PUBACK", "PUBREC"} /\ q.id = p.id
                                        /\ p.qos > 0 /\ (q.type = "PUBACK" => p.qos = 1)
         /\ Answer(p) = << >> \/ \E q : q \in Range(Answer(p)) /\ Answer(p) = <<q>>
<1>1. \/ p.qos = 0 /\ Answer(p) = << >>
      \/ p.qos = 1 /\ Answer(p) = << Pkt("PUBACK", p.id) >>
      \/ p.qos = 2 /\ Answer(p) = << Pkt("PUBREC", p.id) >>
  <2>1. CASE p.qos = 0
    <3>1. p.qos # 1 /\ p.qos # 2
      BY <2>1
    <3>2. QED
      BY <2>1, <3>1, Zenon DEF Answer
  <2>2. CASE p.qos = 1
    <3>1. p.qos # 0 /\ p.qos # 2
      BY <2>2
    <3>2. QED
      BY <2>2, <3>1, Zenon DEF Answer
  <2>3. CASE p.qos = 2
    <3>1. p.qos # 0 /\ p.qos # 1
      BY <2>3
    <3>2. QED
      BY <2>3, <3>1, Zenon DEF Answer
  <2>4. QED
    BY <2>1, <2>2, <2>3
<1> DEFINE ack == Pkt("PUBACK", p.id)
           rec == Pkt("PUBREC", p.id)
<1>2. ack.type = "PUBACK" /\ ack.id = p.id /\ rec.type = "PUBREC" /\ rec.id = p.id
  BY OwnPackets
<1>3. /\ IsSeq(<< >>) /\ Range(<< >>) = {} /\ IsSeq(<<ack>>) /\ Range(<<ack>>) = {ack}
      /\ IsSeq(<<rec>>) /\ Range(<<rec>>) = {rec}
  BY ShortSeqs
<1> HIDE DEF ack, rec
<1>4. CASE p.qos = 0 /\ Answer(p) = << >>
  BY <1>3, <1>4
<1>5. CASE p.qos = 1 /\ Answer(p) = << ack >>
  BY <1>2, <1>3, <1>5
<1>6. CASE p.qos = 2 /\ Answer(p) = << rec >>
  BY <1>2, <1>3, <1>6
<1>7. QED
  BY <1>1, <1>4, <1>5, <1>6 DEF ack, rec

\* The client reads a packet, and its reply goes the other way.
LEMMA ClientTakesFrame ==
  ASSUME IInv, UNCHANGED proxyVars, p2c # << >>, NEW reply, ClientTakes(reply), IsSeq(reply)
  PROVE  /\ StreamsOK' /\ AdminInv' /\ Head(p2c) \in ClientBound
         /\ \A p \in BrokerBound' : p \in BrokerBound \/ p \in Range(reply)
         /\ \A p \in ClientBound' : p \in ClientBound
         /\ UNCHANGED <<cSent, cIds, bOut, bRecvd, bSent, bIds, bDone, bGot>>
<1>1. StreamsOK /\ IsSeq(c2p) /\ IsSeq(p2c) /\ IsSeq(p2b) /\ IsSeq(b2p)
  BY DEF IInv, TypeOK, StreamsOK
<1>2. /\ p2c' = Tail(p2c) /\ c2p' = c2p \o reply /\ UNCHANGED <<p2b, b2p, link>>
      /\ UNCHANGED <<cSent, cIds, bOut, bRecvd, bSent, bIds, bDone, bGot>>
  BY DEF ClientTakes, brokerVars
<1>3. IsSeq(c2p') /\ Range(c2p') = Range(c2p) \cup Range(reply)
  BY <1>1, <1>2, ConcatElements
<1>4. IsSeq(p2c') /\ Range(p2c') \subseteq Range(p2c) /\ Head(p2c) \in Range(p2c)
  BY <1>1, <1>2, TailElements
<1>5. /\ StreamsOK'
      /\ BrokerBound' \subseteq BrokerBound \cup Range(reply)
      /\ ClientBound' \subseteq ClientBound \cup {}
  BY <1>1, <1>2, <1>3, <1>4, PeerStreams
<1>6. AdminInv'
  BY <1>1, <1>2, <1>4, PeerAdmin DEF IInv
<1>7. Head(p2c) \in ClientBound
  BY <1>4 DEF ClientBound, ToClient
<1>8. QED
  BY <1>2, <1>5, <1>6, <1>7

\* What the invariant says of the packet the client reads.
LEMMA ClientHead ==
  ASSUME IInv, p2c # << >>
  PROVE  /\ ClientAnswer(Head(p2c)) /\ BrokerFlow(Head(p2c))
         /\ cIds \in 0..MaxId /\ MaxId \in Nat /\ DOMAIN cOut = Ids /\ Ids = 1..MaxId
         /\ IsSeq(bGot) /\ cSent \in Nat /\ IsSeq(cGot) /\ IsSeq(bOut)
         /\ bIds \in 0..MaxId /\ bSent \in 0..Len(BrokerQoS)
         /\ \A id \in cRecvd : id \in 1..bIds /\ Received(id)
<1>1. IsSeq(p2c)
  BY DEF IInv, TypeOK, StreamsOK
<1>2. Head(p2c) \in ClientBound
  BY <1>1, TailElements DEF ClientBound, ToClient
<1>3. QED
  BY <1>2, EndpointsAssumption DEF IInv, AckInv, DeliverInv, Ids

\* The client acknowledges a PUBLISH once it has the message, now or before.
LEMMA ClientOnPublishKeeps ==
  ASSUME IInv, UNCHANGED proxyVars, ClientOnPublish
  PROVE  StreamsOK' /\ AckInv' /\ DeliverInv' /\ AdminInv'
<1>0. PICK p : p = Head(p2c)
  OBVIOUS
<1>1. /\ p2c # << >> /\ p.type = "PUBLISH" /\ ClientTakes(Answer(p)) /\ UNCHANGED <<cOut, cAcked>>
      /\ cRecvd' = IF p.qos = 2 THEN cRecvd \cup {p.id} ELSE cRecvd
      /\ cGot' = IF p.qos < 2 \/ p.id \notin cRecvd THEN Append(cGot, p.body) ELSE cGot
  BY <1>0 DEF ClientOnPublish, HeadIs
<1>2. BrokerFlow(p) /\ IsSeq(cGot) /\ (\A id \in cRecvd : id \in 1..bIds /\ Received(id))
      /\ IsSeq(bOut) /\ bIds \in 0..MaxId /\ bSent \in 0..Len(BrokerQoS) /\ MaxId \in Nat
  BY <1>0, <1>1, ClientHead
<1>3. p.qos \in 0..2
  BY <1>1, <1>2 DEF BrokerFlow
<1>4. /\ IsSeq(Answer(p))
      /\ \A q \in Range(Answer(p)) : q.type \in {"PUBACK", "PUBREC"} /\ q.id = p.id /\ p.qos > 0
  BY <1>3, AnswerIs
<1>5. /\ StreamsOK' /\ AdminInv'
      /\ \A q \in BrokerBound' : q \in BrokerBound \/ q \in Range(Answer(p))
      /\ \A q \in ClientBound' : q \in ClientBound
      /\ UNCHANGED <<cSent, cIds, bOut, bRecvd, bSent, bIds, bDone, bGot>>
  BY <1>1, <1>4, ClientTakesFrame
<1>6. IsSeq(cGot') /\ Range(cGot) \subseteq Range(cGot')
      /\ ((p.qos < 2 \/ p.id \notin cRecvd) => p.body \in Range(cGot'))
  <2>1. IsSeq(Append(cGot, p.body)) /\ Range(Append(cGot, p.body)) = Range(cGot) \cup {p.body}
    BY <1>2, AppendElements
  <2>2. QED
    BY <1>1, <1>2, <2>1
<1>7. p.qos > 0 => p.id \in 1..bIds' /\ Received(p.id)'
  <2>1. ASSUME p.qos > 0 PROVE p.id \in 1..bIds /\ \A e \in Range(bOut) : e.id = p.id => e.msg = p.body
    BY <1>1, <1>2, <2>1 DEF BrokerFlow
  <2>2. CASE p.qos < 2 \/ p.id \notin cRecvd
    BY <1>5, <1>6, <2>1, <2>2 DEF Received
  <2>3. CASE p.id \in cRecvd
    BY <1>2, <1>5, <1>6, <2>3 DEF Received
  <2>4. QED
    BY <2>2, <2>3
<1>8. \A q \in Range(Answer(p)) : ClientFlow(q)' /\ BrokerAnswer(q)'
  BY <1>4, <1>7 DEF ClientFlow, BrokerAnswer
<1>9. AckInv'
  BY <1>1, <1>5, <1>8, AckFrame DEF IInv
<1>10. \A id \in cRecvd' : id \in cRecvd \/ (id \in 1..bIds' /\ Received(id)')
  BY <1>1, <1>7
<1>11. DeliverInv'
  BY <1>2, <1>5, <1>6, <1>8, <1>10, DeliverKept DEF IInv
<1>12. QED
  BY <1>5, <1>9, <1>11

\* A PUBREL answered with PUBCOMP was about a message the client has.
LEMMA ClientOnPubrelKeeps ==
  ASSUME IInv, UNCHANGED proxyVars, ClientOnPubrel
  PROVE  StreamsOK' /\ AckInv' /\ DeliverInv' /\ AdminInv'
<1>0. PICK p, comp : p = Head(p2c) /\ comp = Pkt("PUBCOMP", p.id)
  OBVIOUS
<1> DEFINE reply == << comp >>
<1>1. p2c # << >> /\ p.type = "PUBREL" /\ ClientTakes(reply)
      /\ cRecvd' = cRecvd \ {p.id} /\ UNCHANGED <<cOut, cAcked, cGot>>
  BY <1>0 DEF ClientOnPubrel, HeadIs
<1>2. BrokerFlow(p) /\ IsSeq(cGot)
      /\ IsSeq(bOut) /\ bIds \in 0..MaxId /\ bSent \in 0..Len(BrokerQoS) /\ MaxId \in Nat
  BY <1>0, <1>1, ClientHead
<1>3. comp.type = "PUBCOMP" /\ comp.id = p.id
  BY <1>0, OwnPackets
<1>4. IsSeq(reply) /\ Range(reply) = {comp}
  BY ShortSeqs
<1> HIDE DEF reply
<1>5. /\ StreamsOK' /\ AdminInv'
      /\ \A q \in BrokerBound' : q \in BrokerBound \/ q = comp
      /\ \A q \in ClientBound' : q \in ClientBound
      /\ UNCHANGED <<cSent, cIds, bOut, bRecvd, bSent, bIds, bDone, bGot>>
  BY <1>1, <1>4, ClientTakesFrame
<1>6. ClientFlow(comp)' /\ BrokerAnswer(comp)'
  BY <1>1, <1>2, <1>3, <1>5 DEF ClientFlow, BrokerAnswer, BrokerFlow, Received
<1>7. AckInv'
  BY <1>1, <1>5, <1>6, AckFrame DEF IInv
<1>8. DeliverInv'
  BY <1>1, <1>2, <1>5, <1>6, DeliverKept DEF IInv
<1>9. QED
  BY <1>5, <1>7, <1>8

\* A PUBREC answered with PUBREL was about a message the broker routed.
LEMMA ClientOnPubrecKeeps ==
  ASSUME IInv, UNCHANGED proxyVars, ClientOnPubrec
  PROVE  StreamsOK' /\ AckInv' /\ DeliverInv' /\ AdminInv'
<1>0. PICK p, rel : p = Head(p2c) /\ rel = Pkt("PUBREL", p.id)
  OBVIOUS
<1> DEFINE slot == cOut[p.id]
<1>1. PICK reply \in {<< >>, <<rel>>} :
        /\ p2c # << >> /\ p.type = "PUBREC" /\ ClientTakes(reply)
        /\ UNCHANGED <<cRecvd, cAcked, cGot>>
        /\ \/ cOut' = cOut /\ reply = << >>
           \/ /\ slot.st \in {"pub", "rel"}
              /\ cOut' = [cOut EXCEPT ![p.id] = [st |-> "rel", body |-> slot.body]]
  BY <1>0 DEF ClientOnPubrec, HeadIs
<1>2. /\ ClientAnswer(p) /\ cIds \in 0..MaxId /\ MaxId \in Nat /\ DOMAIN cOut = Ids /\ Ids = 1..MaxId
      /\ IsSeq(bGot) /\ cSent \in Nat
  BY <1>0, <1>1, ClientHead
<1>3. p.id \in 1..cIds /\ Routed(p.id)
  BY <1>1, <1>2 DEF ClientAnswer
<1>4. rel.type = "PUBREL" /\ rel.id = p.id
  BY <1>0, OwnPackets
<1>5. IsSeq(reply) /\ \A q \in Range(reply) : q = rel
  <2> DEFINE r0 == << >>
             r1 == << rel >>
  <2>1. IsSeq(r0) /\ IsSeq(r1) /\ Range(r0) = {} /\ Range(r1) = {rel}
    BY ShortSeqs
  <2>2. reply = r0 \/ reply = r1
    BY <1>1
  <2> HIDE DEF r0, r1
  <2>3. QED
    BY <2>1, <2>2
<1>6. /\ StreamsOK' /\ AdminInv'
      /\ \A q \in BrokerBound' : q \in BrokerBound \/ q \in Range(reply)
      /\ \A q \in ClientBound' : q \in ClientBound
      /\ UNCHANGED <<cSent, cIds, bOut, bRecvd, bSent, bIds, bDone, bGot>>
  BY <1>1, <1>5, ClientTakesFrame
<1>7. /\ DOMAIN cOut' = Ids
      /\ \A id \in 1..cIds : cOut'[id].st \in {"pub", "rel"} =>
           cOut[id].st \in {"pub", "rel"} /\ cOut'[id].body = cOut[id].body
  <2>1. CASE cOut' = cOut
    BY <1>2, <2>1
  <2>2. CASE /\ slot.st \in {"pub", "rel"}
             /\ cOut' = [cOut EXCEPT ![p.id] = [st |-> "rel", body |-> slot.body]]
    BY <1>2, <1>3, <2>2
  <2>3. QED
    BY <1>1, <2>1, <2>2
<1>8. Routed(p.id)'
  BY <1>3, <1>6, <1>7 DEF Routed
<1>9. ClientFlow(rel)' /\ BrokerAnswer(rel)'
  BY <1>3, <1>4, <1>6, <1>8 DEF ClientFlow, BrokerAnswer
<1>10. AckInv'
  BY <1>1, <1>2, <1>5, <1>6, <1>7, <1>9, AckKept DEF IInv
<1>11. DeliverInv'
  BY <1>1, <1>5, <1>6, <1>9, DeliverFrame DEF IInv
<1>12. QED
  BY <1>6, <1>10, <1>11

\* A PUBACK or PUBCOMP that completes a message was about one the broker routed.
LEMMA ClientOnAckKeeps ==
  ASSUME IInv, UNCHANGED proxyVars, ClientOnAck
  PROVE  StreamsOK' /\ AckInv' /\ DeliverInv' /\ AdminInv'
<1>0. PICK p : p = Head(p2c)
  OBVIOUS
<1>1. p2c # << >> /\ p.type \in {"PUBACK", "PUBCOMP"} /\ ClientTakes(<< >>)
      /\ UNCHANGED <<cRecvd, cGot>>
      /\ \/ UNCHANGED <<cAcked, cOut>>
         \/ /\ cOut[p.id].st \in {"pub", "rel"}
            /\ cAcked' = cAcked \cup {cOut[p.id].body}
            /\ cOut' = [cOut EXCEPT ![p.id] = Free]
  BY <1>0 DEF ClientOnAck, HeadIs, Completes
<1>2. /\ ClientAnswer(p) /\ cIds \in 0..MaxId /\ MaxId \in Nat /\ DOMAIN cOut = Ids /\ Ids = 1..MaxId
      /\ IsSeq(bGot) /\ cSent \in Nat
  BY <1>0, <1>1, ClientHead
<1>3. p.id \in 1..cIds /\ Routed(p.id)
  BY <1>1, <1>2 DEF ClientAnswer
<1>4. /\ StreamsOK' /\ AdminInv'
      /\ \A q \in BrokerBound' : q \in BrokerBound
      /\ \A q \in ClientBound' : q \in ClientBound
      /\ UNCHANGED <<cSent, cIds, bOut, bRecvd, bSent, bIds, bDone, bGot>>
  BY <1>1, ClientTakesFrame, ShortSeqs
<1>5. /\ DOMAIN cOut' = Ids
      /\ \A id \in 1..cIds : cOut'[id].st \in {"pub", "rel"} => cOut'[id] = cOut[id]
  <2>1. Free.st \notin {"pub", "rel"}
    BY DEF Free
  <2>2. QED
    BY <1>1, <1>2, <1>3, <2>1
<1>6. \A m \in cAcked' : m \in cAcked \/ m \in Range(bGot')
  BY <1>1, <1>3, <1>4 DEF Routed
<1>7. AckInv'
  BY <1>2, <1>4, <1>5, <1>6, AckKept DEF IInv
<1>8. DeliverInv'
  BY <1>1, <1>4, DeliverFrame DEF IInv
<1>9. QED
  BY <1>4, <1>7, <1>8

\* SUBACK, PINGRESP and DISCONNECT are of no QoS flow.
LEMMA ClientOnOtherKeeps ==
  ASSUME IInv, UNCHANGED proxyVars, ClientOnSuback \/ ClientOnPingresp \/ ClientOnDisconnect
  PROVE  StreamsOK' /\ AckInv' /\ DeliverInv' /\ AdminInv'
<1>1. p2c # << >> /\ ClientTakes(<< >>) /\ UNCHANGED <<cRecvd, cAcked, cGot>>
      /\ (cOut' = cOut \/ \E id : cOut' = [cOut EXCEPT ![id] = Free])
  BY DEF ClientOnSuback, ClientOnPingresp, ClientOnDisconnect, HeadIs
<1>2. /\ cIds \in 0..MaxId /\ MaxId \in Nat /\ DOMAIN cOut = Ids /\ Ids = 1..MaxId
      /\ IsSeq(bGot) /\ cSent \in Nat
  BY <1>1, ClientHead
<1>3. /\ StreamsOK' /\ AdminInv'
      /\ \A q \in BrokerBound' : q \in BrokerBound
      /\ \A q \in ClientBound' : q \in ClientBound
      /\ UNCHANGED <<cSent, cIds, bOut, bRecvd, bSent, bIds, bDone, bGot>>
  BY <1>1, ClientTakesFrame, ShortSeqs
<1>4. /\ DOMAIN cOut' = Ids
      /\ \A id \in 1..cIds : cOut'[id].st \in {"pub", "rel"} => cOut'[id] = cOut[id]
  <2>1. Free.st \notin {"pub", "rel"}
    BY DEF Free
  <2>2. QED
    BY <1>1, <1>2, <2>1
<1>5. AckInv'
  BY <1>1, <1>2, <1>3, <1>4, AckKept DEF IInv
<1>6. DeliverInv'
  BY <1>1, <1>3, DeliverFrame DEF IInv
<1>7. QED
  BY <1>3, <1>5, <1>6

\* Every packet the client may read.
LEMMA ClientReadsKeep ==
  ASSUME IInv, UNCHANGED proxyVars, ClientReads
  PROVE  StreamsOK' /\ AckInv' /\ DeliverInv' /\ AdminInv'
BY ClientOnPublishKeeps, ClientOnPubrelKeeps, ClientOnPubrecKeeps, ClientOnAckKeeps,
   ClientOnOtherKeeps, Zenon DEF ClientReads

\* The broker reads a packet, and its reply goes the other way.
LEMMA BrokerTakesFrame ==
  ASSUME IInv, UNCHANGED proxyVars, p2b # << >>, NEW reply, BrokerTakes(reply), IsSeq(reply),
         \A q \in Range(reply) : q.type # "DISCONNECT"
  PROVE  /\ StreamsOK' /\ AdminInv'
         /\ \A p \in BrokerBound' : p \in BrokerBound
         /\ \A p \in ClientBound' : p \in ClientBound \/ p \in Range(reply)
         /\ UNCHANGED <<cOut, cRecvd, cSent, cIds, cAcked, cGot, bSent, bIds>>
<1>1. StreamsOK /\ IsSeq(c2p) /\ IsSeq(p2c) /\ IsSeq(p2b) /\ IsSeq(b2p)
  BY DEF IInv, TypeOK, StreamsOK
<1>2. /\ p2b' = Tail(p2b) /\ b2p' = b2p \o reply /\ UNCHANGED <<c2p, p2c, link>> /\ link = "up"
      /\ UNCHANGED <<cOut, cRecvd, cSent, cIds, cAcked, cGot, bSent, bIds>>
  BY DEF BrokerTakes, clientVars
<1>3. IsSeq(b2p') /\ Range(b2p') = Range(b2p) \cup Range(reply)
  BY <1>1, <1>2, ConcatElements
<1>4. IsSeq(p2b') /\ Range(p2b') \subseteq Range(p2b)
  BY <1>1, <1>2, TailElements
<1>5. /\ StreamsOK'
      /\ BrokerBound' \subseteq BrokerBound \cup {}
      /\ ClientBound' \subseteq ClientBound \cup Range(reply)
  BY <1>1, <1>2, <1>3, <1>4, PeerStreams
<1>6. AdminInv'
  BY <1>1, <1>2, <1>3, PeerAdmin DEF IInv
<1>7. QED
  BY <1>2, <1>5, <1>6

\* What the invariant says of the packet the broker reads.
LEMMA BrokerHead ==
  ASSUME IInv, p2b # << >>
  PROVE  /\ ClientFlow(Head(p2b)) /\ BrokerAnswer(Head(p2b))
         /\ cIds \in 0..MaxId /\ MaxId \in Nat /\ DOMAIN cOut = Ids /\ Ids = 1..MaxId
         /\ IsSeq(bGot) /\ cSent \in Nat /\ IsSeq(cGot) /\ IsSeq(bOut)
         /\ bIds \in 0..MaxId /\ bSent \in 0..Len(BrokerQoS)
         /\ \A id \in bRecvd : id \in 1..cIds /\ Routed(id)
<1>1. IsSeq(p2b)
  BY DEF IInv, TypeOK, StreamsOK
<1>2. Head(p2b) \in BrokerBound
  BY <1>1, TailElements DEF BrokerBound
<1>3. QED
  BY <1>2, EndpointsAssumption DEF IInv, AckInv, DeliverInv, Ids

\* The broker acknowledges a PUBLISH once it has routed the message, now or before.
LEMMA BrokerOnPublishKeeps ==
  ASSUME IInv, UNCHANGED proxyVars, BrokerOnPublish
  PROVE  StreamsOK' /\ AckInv' /\ DeliverInv' /\ AdminInv'
<1>0. PICK p : p = Head(p2b)
  OBVIOUS
<1>1. /\ p2b # << >> /\ p.type = "PUBLISH" /\ BrokerTakes(Answer(p)) /\ UNCHANGED <<bOut, bDone>>
      /\ bRecvd' = IF p.qos = 2 THEN bRecvd \cup {p.id} ELSE bRecvd
      /\ bGot' = IF p.qos < 2 \/ p.id \notin bRecvd THEN Append(bGot, p.body) ELSE bGot
  BY <1>0 DEF BrokerOnPublish, HeadIs
<1>2. /\ ClientFlow(p) /\ IsSeq(bGot) /\ cIds \in 0..MaxId /\ MaxId \in Nat /\ DOMAIN cOut = Ids
      /\ cSent \in Nat /\ \A id \in bRecvd : id \in 1..cIds /\ Routed(id)
  BY <1>0, <1>1, BrokerHead
<1>3. p.qos \in 0..2
  BY <1>1, <1>2 DEF ClientFlow
<1>4. /\ IsSeq(Answer(p))
      /\ \A q \in Range(Answer(p)) : q.type \in {"PUBACK", "PUBREC"} /\ q.id = p.id /\ p.qos > 0
  BY <1>3, AnswerIs
<1>5. /\ StreamsOK' /\ AdminInv'
      /\ \A q \in BrokerBound' : q \in BrokerBound
      /\ \A q \in ClientBound' : q \in ClientBound \/ q \in Range(Answer(p))
      /\ UNCHANGED <<cOut, cRecvd, cSent, cIds, cAcked, cGot, bSent, bIds>>
  BY <1>1, <1>4, BrokerTakesFrame
<1>6. IsSeq(bGot') /\ Range(bGot) \subseteq Range(bGot')
      /\ ((p.qos < 2 \/ p.id \notin bRecvd) => p.body \in Range(bGot'))
  <2>1. IsSeq(Append(bGot, p.body)) /\ Range(Append(bGot, p.body)) = Range(bGot) \cup {p.body}
    BY <1>2, AppendElements
  <2>2. QED
    BY <1>1, <1>2, <2>1
<1>7. p.qos > 0 => p.id \in 1..cIds' /\ Routed(p.id)'
  <2>1. ASSUME p.qos > 0
        PROVE  p.id \in 1..cIds /\ (cOut[p.id].st \in {"pub", "rel"} => cOut[p.id].body = p.body)
    BY <1>1, <1>2, <2>1 DEF ClientFlow
  <2>2. CASE p.qos < 2 \/ p.id \notin bRecvd
    BY <1>5, <1>6, <2>1, <2>2 DEF Routed
  <2>3. CASE p.id \in bRecvd
    BY <1>2, <1>5, <1>6, <2>3 DEF Routed
  <2>4. QED
    BY <2>2, <2>3
<1>8. \A q \in Range(Answer(p)) : ClientAnswer(q)' /\ BrokerFlow(q)'
  BY <1>4, <1>7 DEF ClientAnswer, BrokerFlow
<1>9. DeliverInv'
  BY <1>1, <1>5, <1>8, DeliverFrame DEF IInv
<1>10. \A id \in bRecvd' : id \in bRecvd \/ (id \in 1..cIds' /\ Routed(id)')
  BY <1>1, <1>7
<1>11. AckInv'
  BY <1>2, <1>5, <1>6, <1>8, <1>10, AckKept DEF IInv
<1>12. QED
  BY <1>5, <1>9, <1>11

\* A PUBREL answered with PUBCOMP was about a message the broker routed.
LEMMA BrokerOnPubrelKeeps ==
  ASSUME IInv, UNCHANGED proxyVars, BrokerOnPubrel
  PROVE  StreamsOK' /\ AckInv' /\ DeliverInv' /\ AdminInv'
<1>0. PICK p, comp : p = Head(p2b) /\ comp = Pkt("PUBCOMP", p.id)
  OBVIOUS
<1> DEFINE reply == << comp >>
<1>1. p2b # << >> /\ p.type = "PUBREL" /\ BrokerTakes(reply)
      /\ bRecvd' = bRecvd \ {p.id} /\ UNCHANGED <<bOut, bDone, bGot>>
  BY <1>0 DEF BrokerOnPubrel, HeadIs
<1>2. ClientFlow(p) /\ IsSeq(bGot) /\ cIds \in 0..MaxId /\ MaxId \in Nat /\ DOMAIN cOut = Ids
      /\ cSent \in Nat
  BY <1>0, <1>1, BrokerHead
<1>3. comp.type = "PUBCOMP" /\ comp.id = p.id
  BY <1>0, OwnPackets
<1>4. IsSeq(reply) /\ Range(reply) = {comp}
  BY ShortSeqs
<1> HIDE DEF reply
<1>5. /\ StreamsOK' /\ AdminInv'
      /\ \A q \in BrokerBound' : q \in BrokerBound
      /\ \A q \in ClientBound' : q \in ClientBound \/ q = comp
      /\ UNCHANGED <<cOut, cRecvd, cSent, cIds, cAcked, cGot, bSent, bIds>>
  BY <1>1, <1>3, <1>4, BrokerTakesFrame
<1>6. ClientAnswer(comp)' /\ BrokerFlow(comp)'
  BY <1>1, <1>2, <1>3, <1>5 DEF ClientFlow, ClientAnswer, BrokerFlow, Routed
<1>7. AckInv'
  BY <1>1, <1>2, <1>5, <1>6, AckKept DEF IInv
<1>8. DeliverInv'
  BY <1>1, <1>5, <1>6, DeliverFrame DEF IInv
<1>9. QED
  BY <1>5, <1>7, <1>8

\* A PUBREC answered with PUBREL was about a message the client has.
LEMMA BrokerOnPubrecKeeps ==
  ASSUME IInv, UNCHANGED proxyVars, BrokerOnPubrec
  PROVE  StreamsOK' /\ AckInv' /\ DeliverInv' /\ AdminInv'
<1>0. PICK p, rel : p = Head(p2b) /\ rel = Pkt("PUBREL", p.id)
  OBVIOUS
<1> DEFINE reply == << rel >>
           moved(i) == IF i \in Flow(p.id) /\ BrokerQoS[bOut[i].msg] = 2
                       THEN [id |-> bOut[i].id, msg |-> bOut[i].msg, st |-> "rel"]
                       ELSE bOut[i]
<1>1. p2b # << >> /\ p.type = "PUBREC" /\ BrokerTakes(reply)
      /\ UNCHANGED <<bRecvd, bDone, bGot>> /\ bOut' = [i \in DOMAIN bOut |-> moved(i)]
  BY <1>0 DEF BrokerOnPubrec, HeadIs
<1>2. /\ BrokerAnswer(p) /\ MaxId \in Nat /\ IsSeq(cGot) /\ IsSeq(bOut)
      /\ bIds \in 0..MaxId /\ bSent \in 0..Len(BrokerQoS)
  BY <1>0, <1>1, BrokerHead
<1>3. rel.type = "PUBREL" /\ rel.id = p.id
  BY <1>0, OwnPackets
<1>4. IsSeq(reply) /\ Range(reply) = {rel}
  BY ShortSeqs
<1>5. p.id \in 1..bIds /\ Received(p.id)
  BY <1>1, <1>2 DEF BrokerAnswer
<1>6. \A i \in DOMAIN bOut : /\ moved(i).id = bOut[i].id /\ moved(i).msg = bOut[i].msg
                             /\ moved(i).st # bOut[i].st => Received(moved(i).id)
  BY <1>5 DEF Flow
<1> HIDE DEF reply, moved
<1>7. /\ IsSeq(bOut') /\ \A e \in Range(bOut') : \E o \in Range(bOut) :
           e.id = o.id /\ e.msg = o.msg /\ (e.st # o.st => Received(e.id))
  <2>1. Len(bOut) \in Nat /\ DOMAIN bOut = 1..Len(bOut) /\ \A i \in 1..Len(bOut) : bOut[i] \in Range(bOut)
    BY <1>2, SeqPlaces
  <2>2. bOut' \in Seq({moved(i) : i \in DOMAIN bOut})
    BY <1>1, <2>1
  <2>3. IsSeq(bOut') /\ Range(bOut') \subseteq {moved(i) : i \in DOMAIN bOut}
    BY <2>2, SeqOver
  <2>4. QED
    BY <1>6, <2>1, <2>3
<1>8. /\ StreamsOK' /\ AdminInv'
      /\ \A q \in BrokerBound' : q \in BrokerBound
      /\ \A q \in ClientBound' : q \in ClientBound \/ q = rel
      /\ UNCHANGED <<cOut, cRecvd, cSent, cIds, cAcked, cGot, bSent, bIds>>
  BY <1>1, <1>3, <1>4, BrokerTakesFrame
<1>9. Received(p.id)'
  BY <1>5, <1>7, <1>8 DEF Received
<1>10. ClientAnswer(rel)' /\ BrokerFlow(rel)'
  BY <1>3, <1>5, <1>8, <1>9 DEF ClientAnswer, BrokerFlow
<1>11. AckInv'
  BY <1>1, <1>8, <1>10, AckFrame DEF IInv
<1>12. DeliverInv'
  BY <1>1, <1>2, <1>7, <1>8, <1>10, DeliverKept DEF IInv
<1>13. QED
  BY <1>8, <1>11, <1>12

\* A PUBACK or PUBCOMP that completes a message was about one the client has.
LEMMA BrokerOnAckKeeps ==
  ASSUME IInv, UNCHANGED proxyVars, BrokerOnAck
  PROVE  StreamsOK' /\ AckInv' /\ DeliverInv' /\ AdminInv'
<1>0. PICK p : p = Head(p2b)
  OBVIOUS
<1> DEFINE done == {i \in Flow(p.id) :
                      IF p.type = "PUBACK"
                      THEN bOut[i].st = "pub" /\ BrokerQoS[bOut[i].msg] = 1
                      ELSE bOut[i].st = "rel"}
<1>1. /\ p2b # << >> /\ p.type \in {"PUBACK", "PUBCOMP"} /\ BrokerTakes(<< >>)
      /\ UNCHANGED <<bRecvd, bGot>> /\ bDone' = bDone \cup {bOut[i].msg : i \in done}
      /\ bOut' = IF done = {} THEN bOut ELSE RemoveAt(bOut, Min(done))
  BY <1>0 DEF BrokerOnAck, HeadIs
<1>2. /\ BrokerAnswer(p) /\ MaxId \in Nat /\ IsSeq(cGot) /\ IsSeq(bOut)
      /\ bIds \in 0..MaxId /\ bSent \in 0..Len(BrokerQoS)
  BY <1>0, <1>1, BrokerHead
<1>3. Received(p.id)
  BY <1>1, <1>2 DEF BrokerAnswer
<1>4. Len(bOut) \in Nat /\ DOMAIN bOut = 1..Len(bOut) /\ bOut \in Seq(Range(bOut))
      /\ \A i \in 1..Len(bOut) : bOut[i] \in Range(bOut)
  BY <1>2, SeqPlaces DEF IsSeq
<1>5. done \subseteq 1..Len(bOut) /\ \A i \in done : bOut[i].id = p.id
  BY <1>4 DEF Flow
<1> HIDE DEF done
<1>6. \A m \in bDone' : m \in bDone \/ m \in Range(cGot)
  BY <1>1, <1>3, <1>4, <1>5 DEF Received
<1>7. IsSeq(bOut') /\ Range(bOut') \subseteq Range(bOut)
  <2>1. CASE done = {}
    BY <1>1, <1>2, <2>1
  <2>2. CASE done # {}
    <3>1. done \in SUBSET Nat
      BY <1>4, <1>5
    <3>2. \E m \in done : \A k \in done : m <= k
      BY <2>2, <3>1, LeastElement
    <3>3. Min(done) \in done
      BY <3>2, Zenon DEF Min
    <3>4. RemoveAt(bOut, Min(done)) \in Seq(Range(bOut))
      BY <1>4, <1>5, <3>3, RemoveAtPlaces
    <3>5. QED
      BY <1>1, <2>2, <3>4, SeqOver
  <2>3. QED
    BY <2>1, <2>2
<1>8. /\ StreamsOK' /\ AdminInv'
      /\ \A q \in BrokerBound' : q \in BrokerBound
      /\ \A q \in ClientBound' : q \in ClientBound
      /\ UNCHANGED <<cOut, cRecvd, cSent, cIds, cAcked, cGot, bSent, bIds>>
  BY <1>1, BrokerTakesFrame, ShortSeqs
<1>9. AckInv'
  BY <1>1, <1>8, AckFrame DEF IInv
<1>10. DeliverInv'
  BY <1>2, <1>6, <1>7, <1>8, DeliverKept DEF IInv
<1>11. QED
  BY <1>8, <1>9, <1>10

\* SUBSCRIBE, UNSUBSCRIBE and PINGREQ are of no QoS flow.
LEMMA BrokerOnOtherKeeps ==
  ASSUME IInv, UNCHANGED proxyVars, BrokerOnSubscribe \/ BrokerOnPing
  PROVE  StreamsOK' /\ AckInv' /\ DeliverInv' /\ AdminInv'
<1>1. PICK q : /\ q.type \in {"SUBACK", "UNSUBACK", "PINGRESP"}
               /\ p2b # << >> /\ BrokerTakes(<<q>>) /\ UNCHANGED <<bOut, bRecvd, bDone, bGot>>
  BY OwnPackets DEF BrokerOnSubscribe, BrokerOnPing, HeadIs
<1> DEFINE reply == << q >>
<1>2. IsSeq(reply) /\ Range(reply) = {q} /\ BrokerTakes(reply)
  BY <1>1, ShortSeqs
<1> HIDE DEF reply
<1>3. /\ StreamsOK' /\ AdminInv'
      /\ \A p \in BrokerBound' : p \in BrokerBound
      /\ \A p \in ClientBound' : p \in ClientBound \/ p = q
      /\ UNCHANGED <<cOut, cRecvd, cSent, cIds, cAcked, cGot, bSent, bIds>>
  BY <1>1, <1>2, BrokerTakesFrame
<1>4. ClientAnswer(q)' /\ BrokerFlow(q)'
  BY <1>1 DEF ClientAnswer, BrokerFlow
<1>5. AckInv'
  BY <1>1, <1>3, <1>4, AckFrame DEF IInv
<1>6. DeliverInv'
  BY <1>1, <1>3, <1>4, DeliverFrame DEF IInv
<1>7. QED
  BY <1>3, <1>5, <1>6

\* What the broker sends again when a session is resumed: the messages of its
\* store under their ids, and a PUBREL for one the client has.
LEMMA RedeliveryIs ==
  ASSUME DeliverInv
  PROVE  /\ IsSeq(Redelivery(bOut))
         /\ \A q \in Range(Redelivery(bOut)) :
              q.type \in {"PUBLISH", "PUBREL"} /\ BrokerFlow(q)
<1> DEFINE again(i) == IF bOut[i].st = "pub"
                       THEN with_dup(PublishPkt(bOut[i].id, BrokerQoS[bOut[i].msg], bOut[i].msg))
                       ELSE Pkt("PUBREL", bOut[i].id)
<1>1. /\ IsSeq(bOut) /\ StoreOK /\ BrokerQoS \in Seq(0..2)
  BY EndpointsAssumption DEF DeliverInv
<1>2. Len(bOut) \in Nat /\ DOMAIN bOut = 1..Len(bOut) /\ \A i \in 1..Len(bOut) : bOut[i] \in Range(bOut)
  BY <1>1, SeqPlaces
<1>3. Redelivery(bOut) = [i \in 1..Len(bOut) |-> again(i)]
  BY <1>2 DEF Redelivery
<1>4. ASSUME NEW i \in 1..Len(bOut)
      PROVE  again(i).type \in {"PUBLISH", "PUBREL"} /\ BrokerFlow(again(i))
  <2> DEFINE e == bOut[i]
             q == again(i)
  <2>1. /\ e \in Range(bOut) /\ e.id \in 1..bIds /\ BrokerQoS[e.msg] \in 0..2
        /\ e.st # "pub" => e.msg \in Range(cGot)
        /\ \A f \in Range(bOut) : f.id = e.id => f.msg = e.msg
    BY <1>1, <1>2, <1>4 DEF StoreOK
  <2>2. CASE e.st = "pub"
    <3>1. q.type = "PUBLISH" /\ q.id = e.id /\ q.qos = BrokerQoS[e.msg] /\ q.body = e.msg
      BY <2>2 DEF with_dup, PublishPkt, Packet
    <3> HIDE DEF q
    <3>2. QED
      BY <2>1, <3>1 DEF BrokerFlow, q
  <2>3. CASE e.st # "pub"
    <3>1. q.type = "PUBREL" /\ q.id = e.id
      BY <2>3, OwnPackets
    <3>2. Received(e.id)
      BY <2>1, <2>3 DEF Received
    <3> HIDE DEF q
    <3>3. QED
      BY <2>1, <3>1, <3>2 DEF BrokerFlow, q
  <2>4. QED
    BY <2>2, <2>3
<1> HIDE DEF again
<1>5. Redelivery(bOut) \in Seq({again(i) : i \in 1..Len(bOut)})
  BY <1>2, <1>3
<1>6. /\ IsSeq(Redelivery(bOut))
      /\ Range(Redelivery(bOut)) \subseteq {again(i) : i \in 1..Len(bOut)}
  BY <1>5, SeqOver
<1>7. QED
  BY <1>4, <1>6

\* A broker whose session store is gone, or kept.
LEMMA StoreGone ==
  ASSUME DeliverInv, (bOut' = << >> /\ bRecvd' = {}) \/ UNCHANGED <<bOut, bRecvd>>
  PROVE  /\ IsSeq(bOut') /\ Range(bOut') \subseteq Range(bOut) /\ bRecvd' \subseteq bRecvd
BY ShortSeqs DEF DeliverInv

\* The broker resumes a session with what its store holds, or starts an empty one.
LEMMA BrokerOnConnectKeeps ==
  ASSUME IInv, UNCHANGED proxyVars, BrokerOnConnect
  PROVE  StreamsOK' /\ AckInv' /\ DeliverInv' /\ AdminInv'
<1>0. PICK ack : ack = Pkt("CONNACK", NoId)
  OBVIOUS
<1>1. /\ p2b # << >> /\ link = "syn" /\ p2b' = Tail(p2b) /\ UNCHANGED <<c2p, p2c>>
      /\ UNCHANGED <<cOut, cRecvd, cSent, cIds, cAcked, cGot, bSent, bIds, bDone, bGot>>
      /\ (bOut' = << >> /\ bRecvd' = {}) \/ UNCHANGED <<bOut, bRecvd>>
      /\ b2p' = <<ack>> \/ b2p' = <<ack>> \o Redelivery(bOut)
  BY <1>0 DEF BrokerOnConnect, HeadIs, Forget, Keep, clientVars
<1>2. StreamsOK /\ IsSeq(c2p) /\ IsSeq(p2c) /\ IsSeq(p2b) /\ IsSeq(b2p)
  BY DEF IInv, TypeOK, StreamsOK
<1>3. ack.type = "CONNACK"
  BY <1>0, OwnPackets
<1> DEFINE again == Redelivery(bOut)
<1>4. IsSeq(again) /\ \A q \in Range(again) : q.type \in {"PUBLISH", "PUBREL"} /\ BrokerFlow(q)
  BY RedeliveryIs DEF IInv
<1>5. IsSeq(b2p') /\ \A q \in Range(b2p') : q = ack \/ q \in Range(again)
  <2> DEFINE first == << ack >>
  <2>1. IsSeq(first) /\ Range(first) = {ack}
    BY ShortSeqs
  <2>2. b2p' = first \/ b2p' = first \o again
    BY <1>1
  <2> HIDE DEF first, again
  <2>3. IsSeq(first \o again) /\ Range(first \o again) = Range(first) \cup Range(again)
    BY <1>4, <2>1, ConcatElements
  <2>4. QED
    BY <2>1, <2>2, <2>3
<1>6. IsSeq(p2b') /\ Range(p2b') \subseteq Range(p2b)
  BY <1>1, <1>2, TailElements
<1>7. PICK M : M = {ack} \cup Range(again)
  OBVIOUS
<1> HIDE DEF again
<1>8. /\ StreamsOK'
      /\ BrokerBound' \subseteq BrokerBound \cup {}
      /\ ClientBound' \subseteq ClientBound \cup M
  <2>1. Range(b2p') \subseteq Range(b2p) \cup M
    BY <1>5, <1>7
  <2>2. QED
    BY <1>1, <1>2, <1>5, <1>6, <2>1, PeerStreams
<1>9. /\ IsSeq(bOut') /\ Range(bOut') \subseteq Range(bOut) /\ bRecvd' \subseteq bRecvd
  BY <1>1, StoreGone DEF IInv
<1>10. /\ AckInv /\ cIds \in 0..MaxId /\ MaxId \in Nat /\ DOMAIN cOut = Ids /\ IsSeq(bGot) /\ cSent \in Nat
       /\ DeliverInv /\ IsSeq(cGot) /\ bIds \in 0..MaxId /\ bSent \in 0..Len(BrokerQoS)
  BY EndpointsAssumption DEF IInv, AckInv, DeliverInv
<1>11. ASSUME NEW q \in M PROVE ClientAnswer(q)' /\ BrokerFlow(q)'
  <2>1. q.type \notin {"PUBACK", "PUBREC", "PUBCOMP"}
    BY <1>3, <1>4, <1>7, <1>11
  <2>2. BrokerFlow(q)
    BY <1>3, <1>4, <1>7, <1>11 DEF BrokerFlow
  <2>3. \A id : Received(id) => Received(id)'
    BY <1>1, <1>9 DEF Received
  <2>4. BrokerFlow(q)'
    BY <1>1, <1>9, <2>2, <2>3 DEF BrokerFlow
  <2>5. QED
    BY <2>1, <2>4 DEF ClientAnswer
<1>12. AckInv'
  BY <1>1, <1>8, <1>9, <1>10, <1>11, AckKept
<1>13. DeliverInv'
  BY <1>1, <1>8, <1>9, <1>10, <1>11, DeliverKept
<1>14. AdminInv'
  BY <1>1, <1>2, <1>3, <1>4, <1>5, PeerAdmin DEF IInv
<1>15. QED
  BY <1>8, <1>12, <1>13, <1>14

\* The broker closes, with or without a DISCONNECT, and may forget the session.
LEMMA BrokerClosesKeeps ==
  ASSUME IInv, UNCHANGED proxyVars, BrokerOnDisconnect \/ BrokerCloses
  PROVE  StreamsOK' /\ AckInv' /\ DeliverInv' /\ AdminInv'
<1>1. /\ p2b' = << >> /\ link # "dead" /\ link' = "dead" /\ UNCHANGED <<c2p, p2c>>
      /\ UNCHANGED <<cOut, cRecvd, cSent, cIds, cAcked, cGot, bSent, bIds, bDone, bGot>>
      /\ (bOut' = << >> /\ bRecvd' = {}) \/ UNCHANGED <<bOut, bRecvd>>
  BY DEF BrokerOnDisconnect, BrokerCloses, Forget, Keep, clientVars, Alive
<1>2. PICK k, cause, d :
        /\ k \in 0..Len(b2p) /\ d = PktWith("DISCONNECT", NoId, cause)
        /\ b2p' = b2p \/ b2p' = SubSeq(b2p, 1, k) \/ b2p' = Append(b2p, d)
  <2>1. IsSeq(b2p)
    BY DEF IInv, TypeOK, StreamsOK
  <2>2. 0 \in 0..Len(b2p)
    BY <2>1, SeqPlaces
  <2>3. \/ b2p' = b2p
        \/ \E k \in 0..Len(b2p) : b2p' = SubSeq(b2p, 1, k)
        \/ \E cause : b2p' = Append(b2p, PktWith("DISCONNECT", NoId, cause))
    BY DEF BrokerOnDisconnect, BrokerCloses
  <2>4. QED
    BY <2>2, <2>3, Zenon
<1>3. StreamsOK /\ IsSeq(c2p) /\ IsSeq(p2c) /\ IsSeq(p2b) /\ IsSeq(b2p)
  BY DEF IInv, TypeOK, StreamsOK
<1>4. d.type = "DISCONNECT"
  BY <1>2, OwnPackets
<1>5. IsSeq(SubSeq(b2p, 1, k)) /\ Range(SubSeq(b2p, 1, k)) \subseteq Range(b2p)
  <2>1. k \in Nat /\ k <= Len(b2p)
    BY <1>2, <1>3, SeqPlaces
  <2>2. QED
    BY <1>3, <2>1, SubSeqElements
<1>6. IsSeq(Append(b2p, d)) /\ Range(Append(b2p, d)) = Range(b2p) \cup {d}
  BY <1>3, AppendElements
<1>7. IsSeq(b2p') /\ Range(b2p') \subseteq Range(b2p) \cup {d}
  BY <1>2, <1>3, <1>5, <1>6
<1>8. /\ StreamsOK'
      /\ BrokerBound' \subseteq BrokerBound \cup {}
      /\ ClientBound' \subseteq ClientBound \cup {d}
  BY <1>1, <1>3, <1>7, ShortSeqs, PeerStreams
<1>9. /\ IsSeq(bOut') /\ Range(bOut') \subseteq Range(bOut) /\ bRecvd' \subseteq bRecvd
  BY <1>1, StoreGone DEF IInv
<1>10. /\ AckInv /\ cIds \in 0..MaxId /\ MaxId \in Nat /\ DOMAIN cOut = Ids /\ IsSeq(bGot) /\ cSent \in Nat
       /\ DeliverInv /\ IsSeq(cGot) /\ bIds \in 0..MaxId /\ bSent \in 0..Len(BrokerQoS)
  BY EndpointsAssumption DEF IInv, AckInv, DeliverInv
<1>11. ClientAnswer(d)' /\ BrokerFlow(d)'
  BY <1>4 DEF ClientAnswer, BrokerFlow
<1>12. AckInv'
  BY <1>1, <1>8, <1>9, <1>10, <1>11, AckKept
<1>13. DeliverInv'
  BY <1>1, <1>8, <1>9, <1>10, <1>11, DeliverKept
<1>14. AdminInv'
  BY <1>1, <1>2, <1>3, <1>5, <1>7, PeerAdmin DEF IInv
<1>15. QED
  BY <1>8, <1>12, <1>13, <1>14

\* The broker publishes its next message, under the next id.
LEMMA BrokerPublishKeeps ==
  ASSUME IInv, ~ Reuse, UNCHANGED proxyVars, BrokerPublish
  PROVE  StreamsOK' /\ AckInv' /\ DeliverInv' /\ AdminInv'
<1>0. PICK m, q : m = bSent + 1 /\ q = BrokerQoS[m]
  OBVIOUS
<1>1. PICK id \in (IF q = 0 THEN {NoId} ELSE NextIds({bOut[i].id : i \in DOMAIN bOut}, bIds)) :
        /\ b2p' = Append(b2p, PublishPkt(id, q, m))
        /\ bOut' = IF q = 0 THEN bOut ELSE Append(bOut, [id |-> id, msg |-> m, st |-> "pub"])
        /\ bIds' = IF q = 0 THEN bIds ELSE bIds + 1
  BY <1>0 DEF BrokerPublish
<1>2. /\ link = "up" /\ bSent < Len(BrokerQoS) /\ bSent' = m
      /\ UNCHANGED <<c2p, p2c, p2b, link>>
      /\ UNCHANGED <<cOut, cRecvd, cSent, cIds, cAcked, cGot, bRecvd, bDone, bGot>>
  BY <1>0 DEF BrokerPublish, clientVars
<1>3. PICK p, e : p = PublishPkt(id, q, m) /\ e = [id |-> id, msg |-> m, st |-> "pub"]
  OBVIOUS
<1>4. /\ p.type = "PUBLISH" /\ p.id = id /\ p.qos = q /\ p.body = m
      /\ e.id = id /\ e.msg = m /\ e.st = "pub"
  BY <1>3 DEF PublishPkt, Packet
<1>5. /\ DeliverInv /\ IsSeq(cGot) /\ IsSeq(bOut) /\ bIds \in 0..MaxId /\ bSent \in 0..Len(BrokerQoS)
      /\ MaxId \in Nat /\ BrokerQoS \in Seq(0..2) /\ Len(BrokerQoS) \in Nat /\ Ids = 1..MaxId /\ StoreOK
  BY EndpointsAssumption DEF IInv, DeliverInv, Ids
<1>6. m \in 1..Len(BrokerQoS) /\ q \in 0..2
  <2>1. m \in 1..Len(BrokerQoS)
    BY <1>0, <1>2, <1>5
  <2>2. QED
    BY <1>0, <1>5, <2>1
<1>7. q # 0 => id = bIds + 1 /\ id \in 1..MaxId
  BY <1>1, <1>5, FreshId
<1>8. StreamsOK /\ IsSeq(c2p) /\ IsSeq(p2c) /\ IsSeq(p2b) /\ IsSeq(b2p)
  BY DEF IInv, TypeOK, StreamsOK
<1>9. IsSeq(b2p') /\ Range(b2p') = Range(b2p) \cup {p}
  BY <1>1, <1>3, <1>8, AppendElements
<1>10. /\ StreamsOK'
       /\ BrokerBound' \subseteq BrokerBound \cup {}
       /\ ClientBound' \subseteq ClientBound \cup {p}
  BY <1>2, <1>8, <1>9, PeerStreams
<1>11. /\ IsSeq(bOut') /\ Range(bOut') \subseteq Range(bOut) \cup {e}
       /\ q = 0 => bOut' = bOut
       /\ q # 0 => bIds' = bIds + 1
       /\ bIds' \in 0..MaxId /\ bIds <= bIds'
  <2>1. IsSeq(Append(bOut, e)) /\ Range(Append(bOut, e)) = Range(bOut) \cup {e}
    BY <1>5, AppendElements
  <2>2. bOut' = (IF q = 0 THEN bOut ELSE Append(bOut, e))
    BY <1>1, <1>3
  <2>3. IsSeq(bOut') /\ Range(bOut') \subseteq Range(bOut) \cup {e}
    BY <1>5, <2>1, <2>2
  <2>4. bIds' \in 0..MaxId /\ bIds <= bIds'
    BY <1>1, <1>5, <1>7
  <2>5. QED
    BY <1>1, <2>3, <2>4
<1>12. ClientAnswer(p)' /\ BrokerFlow(p)'
  <2>1. ClientAnswer(p)'
    BY <1>4 DEF ClientAnswer
  <2>2. ASSUME q > 0 PROVE p.id \in 1..bIds' /\ \A f \in Range(bOut') : f.id = p.id => f.msg = p.body
    <3>1. q # 0
      BY <1>6, <2>2
    <3>2. \A f \in Range(bOut) : f.id # bIds + 1
      BY <1>5 DEF StoreOK
    <3>3. QED
      BY <1>4, <1>5, <1>7, <1>11, <3>1, <3>2
  <2>3. QED
    BY <1>4, <1>6, <2>1, <2>2 DEF BrokerFlow
<1>13. AckInv'
  BY <1>2, <1>10, <1>12, AckFrame DEF IInv
<1>14. DeliverInv'
  <2>1. bSent' \in 0..Len(BrokerQoS)
    BY <1>2, <1>5, <1>6
  <2>2. ASSUME NEW f \in Range(bOut')
        PROVE  \/ \E o \in Range(bOut) : f.id = o.id /\ f.msg = o.msg /\ (f.st # o.st => Received(f.id))
               \/ /\ f.id = bIds + 1 /\ bIds' = bIds + 1
                  /\ f.msg = bSent + 1 /\ f.msg \in 1..Len(BrokerQoS) /\ f.st = "pub"
    BY <1>0, <1>4, <1>6, <1>7, <1>11, <2>2
  <2>3. QED
    BY <1>2, <1>5, <1>10, <1>11, <1>12, <2>1, <2>2, DeliverKept
<1>15. AdminInv'
  BY <1>2, <1>4, <1>8, <1>9, PeerAdmin DEF IInv
<1>16. QED
  BY <1>10, <1>13, <1>14, <1>15

\* A peer opens and closes its connection, and the loop notices later.
LEMMA PeersControl ==
  ASSUME ControlOK, Peers
  PROVE  ControlOK'
<1>1. UNCHANGED <<phase, why, freezes>> /\ phase # "ended"
  BY DEF Peers, proxyVars
<1>2. link' = link \/ (link # "none" /\ link' \in {"up", "dead"})
  <2>1. ASSUME ClientSteps PROVE link' = link
    BY <2>1 DEF ClientSteps, ClientPublish, ClientSubscribe, ClientUnsubscribe, ClientPing,
                ClientLeave, ClientSends
  <2>2. ASSUME ClientReads PROVE link' = link
    BY <2>2 DEF ClientReads, ClientOnPublish, ClientOnPubrel, ClientOnPubrec, ClientOnAck,
                ClientOnSuback, ClientOnPingresp, ClientOnDisconnect, ClientTakes
  <2>3. ASSUME BrokerReads PROVE link' = link \/ (link # "none" /\ link' \in {"up", "dead"})
    BY <2>3 DEF BrokerReads, BrokerOnConnect, BrokerOnPublish, BrokerOnPubrel, BrokerOnAck,
                BrokerOnPubrec, BrokerOnSubscribe, BrokerOnPing, BrokerOnDisconnect, BrokerTakes
  <2>4. ASSUME BrokerPublish \/ BrokerCloses
        PROVE  link' = link \/ (link # "none" /\ link' \in {"up", "dead"})
    BY <2>4 DEF BrokerPublish, BrokerCloses, Alive
  <2>5. QED
    BY <2>1, <2>2, <2>3, <2>4 DEF Peers
<1>3. QED
  BY <1>1, <1>2 DEF ControlOK

\* Every step of a peer keeps the invariant.
LEMMA PeersKeep ==
  ASSUME IInv, ~ Reuse, Peers
  PROVE  IInv'
<1>1. UNCHANGED proxyVars
  BY DEF Peers
<1>2. StreamsOK' /\ AckInv' /\ DeliverInv' /\ AdminInv'
  <2>1. ASSUME BrokerReads PROVE StreamsOK' /\ AckInv' /\ DeliverInv' /\ AdminInv'
    BY <1>1, <2>1, BrokerOnConnectKeeps, BrokerOnPublishKeeps, BrokerOnPubrelKeeps,
       BrokerOnAckKeeps, BrokerOnPubrecKeeps, BrokerOnOtherKeeps, BrokerClosesKeeps, Zenon
       DEF BrokerReads
  <2>2. QED
    BY <1>1, <2>1, ClientStepsKeep, ClientReadsKeep, BrokerPublishKeeps, BrokerClosesKeeps, Zenon
       DEF Peers
<1>3. ControlOK'
  BY PeersControl DEF IInv, TypeOK
<1>4. QED
  BY <1>2, <1>3 DEF IInv, TypeOK

----------------------------------------------------------------------------
(* The theorems.                                                           *)

\* A session starts with nothing on the way.
LEMMA InitIInv ==
  ASSUME Init
  PROVE  IInv
<1>1. /\ c2p = << >> /\ p2c = << >> /\ p2b = << >> /\ b2p = << >> /\ link = "up"
      /\ cOut = [i \in Ids |-> Free] /\ cRecvd = {} /\ cSent = 0 /\ cIds = 0 /\ cAcked = {}
      /\ cGot = << >> /\ bOut = << >> /\ bRecvd = {} /\ bSent = 0 /\ bIds = 0 /\ bDone = {}
      /\ bGot = << >> /\ phase = "connected" /\ windows = EmptyWindows
      /\ buffer = << >> /\ leftover = << >> /\ snap = NoSnap /\ why = "none" /\ freezes = 0
  BY DEF Init, EndpointsInit
<1>2. IsSeq(<< >>) /\ Range(<< >>) = {}
  BY ShortSeqs
<1>3. windows.c2b = << >> /\ windows.b2c = << >> /\ Raws(<< >>) = {}
  BY <1>1 DEF EmptyWindows, Raws
<1>4. snap.client_buf = << >> /\ snap.broker_buf = << >>
  BY <1>1 DEF NoSnap
<1>5. BrokerBound = {} /\ ClientBound = {}
  BY <1>1, <1>2, <1>3, <1>4 DEF BrokerBound, ClientBound, FromClient, ToClient
<1>6. ControlOK
  BY <1>1 DEF ControlOK
<1>7. StreamsOK
  <2>1. windows \in Windows({}, {})
    <3>1. << >> \in Vectors(C2BStates, {}) /\ << >> \in Vectors(B2CStates, {})
      BY DEF Vectors, Distinct
    <3>2. QED
      BY <1>1, <3>1 DEF EmptyWindows, Windows
  <2>2. Len(<< >>) <= BufferMax
    BY SessionAssumption
  <2>3. QED
    BY <1>1, <1>2, <1>3, <1>4, <2>1, <2>2 DEF StreamsOK
<1>8. MaxId \in Nat /\ Len(BrokerQoS) \in Nat
  BY EndpointsAssumption
<1>9. AckInv
  BY <1>1, <1>2, <1>5, <1>8 DEF AckInv, NoFalseAck
<1>10. DeliverInv
  BY <1>1, <1>2, <1>5, <1>8 DEF DeliverInv, NoFalseBrokerAck, StoreOK
<1>11. AdminInv
  BY <1>1, <1>3 DEF AdminInv, AdminDisconnectHidden
<1>12. QED
  BY <1>6, <1>7, <1>9, <1>10, <1>11 DEF IInv, TypeOK

\* A step that changes nothing keeps the invariant.
LEMMA StutterIInv ==
  ASSUME IInv, UNCHANGED vars
  PROVE  IInv'
<1>1. UNCHANGED <<c2p, p2c, p2b, b2p, link, cOut, cRecvd, cSent, cIds, cAcked, cGot,
                  bOut, bRecvd, bSent, bIds, bDone, bGot, phase, windows, subscriptions,
                  buffer, leftover, snap, why, freezes>>
  BY DEF vars, streams, clientVars, brokerVars, proxyVars
<1>2. BrokerBound' = BrokerBound /\ ClientBound' = ClientBound
  BY <1>1 DEF BrokerBound, ClientBound, FromClient, ToClient
<1>3. TypeOK'
  BY <1>1 DEF IInv, TypeOK, ControlOK, StreamsOK
<1>4. AckInv'
  BY <1>1, <1>2, AckFrame DEF IInv
<1>5. DeliverInv'
  BY <1>1, <1>2, DeliverFrame DEF IInv
<1>6. AdminInv'
  BY <1>1 DEF IInv, AdminInv, AdminDisconnectHidden
<1>7. QED
  BY <1>3, <1>4, <1>5, <1>6 DEF IInv

\* Every step of the proxy keeps the invariant.
LEMMA ProxyKeeps ==
  ASSUME IInv, Proxy
  PROVE  IInv'
<1>1. StreamsOK' /\ MovesOnly /\ ControlOK'
  BY ProxyStep, ProxyControl DEF IInv
<1>2. AckInv' /\ DeliverInv'
  BY <1>1, ProxyKeepsPeers, MovesKeepAcks DEF IInv
<1>3. AdminInv'
  BY ProxyAdmin DEF IInv
<1>4. QED
  BY <1>1, <1>2, <1>3 DEF IInv, TypeOK

\* The inductive invariant of a session: shapes, both chains of acknowledgements and
\* the DISCONNECTs, through any number of outages, replays, freezes and adoptions.
THEOREM SessionInvariant ==
  ASSUME ~ Reuse
  PROVE  Spec => []IInv
<1>1. Init => IInv
  BY InitIInv
<1>2. IInv /\ [Next]_vars => IInv'
  BY PeersKeep, ProxyKeeps, StutterIInv DEF Next
<1>3. QED
  BY <1>1, <1>2, PTL DEF Spec

\* A PUBACK or PUBCOMP never tells the client of a delivery that did not happen: the
\* withholding of outage.rs and the tracking of window.rs keep the chain end to end.
THEOREM ClientAcksAreTrue ==
  ASSUME ~ Reuse
  PROVE  Spec => []NoFalseAck
<1>1. IInv => NoFalseAck
  BY DEF IInv, AckInv
<1>2. QED
  BY <1>1, SessionInvariant, PTL

\* The same towards the broker: an acknowledgement it reads is one of the client, for
\* a message the client has.
THEOREM BrokerAcksAreTrue ==
  ASSUME ~ Reuse
  PROVE  Spec => []NoFalseBrokerAck
<1>1. IInv => NoFalseBrokerAck
  BY DEF IInv, DeliverInv
<1>2. QED
  BY <1>1, SessionInvariant, PTL

\* An administrative DISCONNECT is swallowed by intercept_disconnect, until a first
\* freeze.
THEOREM AdminDisconnectsHidden ==
  ASSUME ~ Reuse
  PROVE  Spec => []AdminDisconnectHidden
<1>1. IInv => AdminDisconnectHidden
  BY DEF IInv, AdminInv
<1>2. QED
  BY <1>1, SessionInvariant, PTL

\* No step of forward.rs or outage.rs makes a PUBLISH or an acknowledgement that was
\* not on its way.
THEOREM ProxyOnlyMoves ==
  ASSUME ~ Reuse
  PROVE  Spec => ProxyMovesOnly
<1>1. IInv /\ [Next]_vars => [Proxy => MovesOnly]_vars
  BY ProxyStep DEF IInv
<1>2. QED
  BY <1>1, SessionInvariant, PTL DEF Spec, ProxyMovesOnly
=============================================================================
