----------------------- MODULE SessionToClientProofs -----------------------
(***************************************************************************)
(* The proofs about the path from the broker to the client: messages reach *)
(* it in order and marked DUP when they come again, the session is the     *)
(* delivery service of Delivery, each PINGREQ is answered once, the SUBACK *)
(* of a re-SUBSCRIBE stays with the proxy, and the broker's side comes to  *)
(* rest.                                                                   *)
(***************************************************************************)
EXTENDS SessionToBrokerProofs, FiniteSetTheorems

----------------------------------------------------------------------------
(* Broker to client: order and repetition.                                 *)

\* The messages of a concatenation, prefix by prefix.
LEMMA PublishedConcat ==
  ASSUME NEW s, IsSeq(s), NEW t, IsSeq(t)
  PROVE  /\ \A n \in 0..Len(s) : Published(s \o t, n) = Published(s, n)
         /\ \A k \in 0..Len(t) : Published(s \o t, Len(s) + k) = Messages(s) \cup Published(t, k)
         /\ Messages(s \o t) = Messages(s) \cup Messages(t)
<1>0. PICK S, T, u, a, b :
        S = Range(s) /\ T = Range(t) /\ u = s \o t /\ a = Len(s) /\ b = Len(t)
  OBVIOUS
<1>1. s \in Seq(S) /\ t \in Seq(T) /\ a \in Nat /\ b \in Nat
  BY <1>0, SeqPlaces DEF IsSeq
<1>2. s \in Seq(S \cup T) /\ t \in Seq(S \cup T)
  BY <1>1
<1>3. /\ Len(u) = a + b
      /\ \A i \in 1..a : u[i] = s[i]
      /\ \A i \in 1..b : u[a + i] = t[i]
  BY <1>0, <1>1, <1>2
<1>4. ASSUME NEW n \in 0..a
      PROVE  Published(u, n) = Published(s, n)
  BY <1>1, <1>3 DEF Published
<1>5. ASSUME NEW k \in 0..b
      PROVE  Published(u, a + k) = Published(s, a) \cup Published(t, k)
  <2>1. ASSUME NEW m \in Published(u, a + k) PROVE m \in Published(s, a) \cup Published(t, k)
    <3>1. PICK i \in 1..(a + k) : u[i].type = "PUBLISH" /\ m = u[i].body
      BY <2>1 DEF Published
    <3>2. CASE i <= a
      BY <1>1, <1>3, <3>1, <3>2 DEF Published
    <3>3. CASE ~ (i <= a)
      <4>1. i - a \in 1..k /\ a + (i - a) = i /\ i - a \in 1..b
        BY <1>1, <3>3
      <4>2. u[i] = t[i - a]
        BY <1>3, <4>1
      <4>3. QED
        BY <3>1, <4>1, <4>2 DEF Published
    <3>4. QED
      BY <3>2, <3>3
  <2>2. Published(s, a) \subseteq Published(u, a + k)
    BY <1>1, <1>3 DEF Published
  <2>3. ASSUME NEW m \in Published(t, k) PROVE m \in Published(u, a + k)
    <3>1. PICK i \in 1..k : t[i].type = "PUBLISH" /\ m = t[i].body
      BY <2>3 DEF Published
    <3>2. a + i \in 1..(a + k) /\ u[a + i] = t[i]
      BY <1>1, <1>3
    <3>3. QED
      BY <3>1, <3>2 DEF Published
  <2>4. QED
    BY <2>1, <2>2, <2>3
<1>6. Messages(u) = Messages(s) \cup Messages(t)
  BY <1>0, <1>1, <1>3, <1>5 DEF Messages
<1>7. QED
  BY <1>0, <1>4, <1>5, <1>6 DEF Messages

\* What goes on behind s \o t goes on behind s, and then behind its messages.
LEMMA ContinuesConcat ==
  ASSUME NEW X, NEW s, IsSeq(s), NEW t, IsSeq(t)
  PROVE  Continues(X, s \o t) <=> Continues(X, s) /\ Continues(X \cup Messages(s), t)
<1>0. PICK S, T, u, a, b :
        S = Range(s) /\ T = Range(t) /\ u = s \o t /\ a = Len(s) /\ b = Len(t)
  OBVIOUS
<1>1. s \in Seq(S) /\ t \in Seq(T) /\ a \in Nat /\ b \in Nat
  BY <1>0, SeqPlaces DEF IsSeq
<1>2. s \in Seq(S \cup T) /\ t \in Seq(S \cup T)
  BY <1>1
<1>3. /\ Len(u) = a + b
      /\ \A i \in 1..a : u[i] = s[i]
      /\ \A i \in 1..b : u[a + i] = t[i]
  BY <1>0, <1>1, <1>2
<1>4. /\ \A n \in 0..a : Published(u, n) = Published(s, n)
      /\ \A k \in 0..b : Published(u, a + k) = Messages(s) \cup Published(t, k)
  BY <1>0, PublishedConcat
<1> DEFINE P(p, E) == p.type = "PUBLISH" => \/ \A m \in E : m < p.body
                                            \/ p.dup /\ p.qos > 0 /\ (MaxSubOps = 0 => p.body \in E)
<1>5. /\ Continues(X, u) <=> \A j \in 1..(a + b) : P(u[j], X \cup Published(u, j - 1))
      /\ Continues(X, s) <=> \A j \in 1..a : P(s[j], X \cup Published(s, j - 1))
      /\ Continues(X \cup Messages(s), t) <=>
           \A j \in 1..b : P(t[j], (X \cup Messages(s)) \cup Published(t, j - 1))
  BY <1>0, <1>3 DEF Continues
<1> HIDE DEF P
<1>6. ASSUME NEW j \in 1..a
      PROVE  u[j] = s[j] /\ X \cup Published(u, j - 1) = X \cup Published(s, j - 1)
  <2>1. j - 1 \in 0..a
    BY <1>1
  <2>2. QED
    BY <1>3, <1>4, <2>1
<1>7. ASSUME NEW j \in 1..b
      PROVE  /\ u[a + j] = t[j] /\ a + j \in 1..(a + b)
             /\ X \cup Published(u, (a + j) - 1) = (X \cup Messages(s)) \cup Published(t, j - 1)
  <2>1. j - 1 \in 0..b /\ (a + j) - 1 = a + (j - 1) /\ a + j \in 1..(a + b)
    BY <1>1
  <2>2. Published(u, a + (j - 1)) = Messages(s) \cup Published(t, j - 1)
    BY <1>4, <2>1
  <2>3. QED
    BY <1>3, <2>1, <2>2
<1>8. ASSUME NEW j \in 1..(a + b)
      PROVE  j \in 1..a \/ (j - a \in 1..b /\ a + (j - a) = j)
  BY <1>1
<1>9. 1..a \subseteq 1..(a + b)
  BY <1>1
<1>10. Continues(X, u) => Continues(X, s) /\ Continues(X \cup Messages(s), t)
  BY <1>5, <1>6, <1>7, <1>9
<1>11. ASSUME Continues(X, s), Continues(X \cup Messages(s), t), NEW j \in 1..(a + b)
       PROVE  P(u[j], X \cup Published(u, j - 1))
  <2>1. CASE j \in 1..a
    BY <1>5, <1>6, <1>11, <2>1
  <2>2. CASE j - a \in 1..b /\ a + (j - a) = j
    BY <1>5, <1>7, <1>11, <2>2
  <2>3. QED
    BY <1>8, <2>1, <2>2
<1>12. QED
  BY <1>0, <1>5, <1>10, <1>11

\* The messages of a stream are those of its PUBLISHes.
LEMMA MessagesIn ==
  ASSUME NEW s, IsSeq(s)
  PROVE  \A m : m \in Messages(s) <=> \E p \in Range(s) : p.type = "PUBLISH" /\ p.body = m
<1>1. /\ Len(s) \in Nat /\ \A i \in 1..Len(s) : s[i] \in Range(s)
      /\ \A e \in Range(s) : \E i \in 1..Len(s) : s[i] = e
  BY SeqPlaces
<1>2. QED
  BY <1>1 DEF Messages, Published

\* Streams of no packet and of one.
LEMMA ContinuesShort ==
  /\ Messages(<< >>) = {} /\ \A X : Continues(X, << >>)
  /\ \A p : Messages(<<p>>) = IF p.type = "PUBLISH" THEN {p.body} ELSE {}
  /\ \A X, p :
       Continues(X, <<p>>) <=>
         (p.type = "PUBLISH" => \/ \A m \in X : m < p.body
                                \/ p.dup /\ p.qos > 0 /\ (MaxSubOps = 0 => p.body \in X))
<1>1. Messages(<< >>) = {} /\ \A X : Continues(X, << >>)
  BY DEF Messages, Published, Continues
<1>2. ASSUME NEW p PROVE Messages(<<p>>) = IF p.type = "PUBLISH" THEN {p.body} ELSE {}
  <2>1. /\ Range(<<p>>) = {p} /\ IsSeq(<<p>>)
    BY ShortSeqs
  <2>2. QED
    BY <2>1, MessagesIn
<1>3. ASSUME NEW X, NEW p
      PROVE  Continues(X, <<p>>) <=>
               (p.type = "PUBLISH" => \/ \A m \in X : m < p.body
                                      \/ p.dup /\ p.qos > 0 /\ (MaxSubOps = 0 => p.body \in X))
  <2>1. Len(<<p>>) = 1 /\ <<p>>[1] = p
    OBVIOUS
  <2>2. \A j \in 1..1 : j = 1 /\ X \cup Published(<<p>>, j - 1) = X
    BY DEF Published
  <2>3. QED
    BY <2>1, <2>2 DEF Continues
<1>4. QED
  BY <1>1, <1>2, <1>3

\* Repetitions of what is behind them go on, marked, and add nothing.
LEMMA MarkedContinue ==
  ASSUME NEW X, NEW s, IsSeq(s),
         \A p \in Range(s) : p.type = "PUBLISH" => p.dup /\ p.qos > 0 /\ p.body \in X
  PROVE  Continues(X, s) /\ X \cup Messages(s) = X
<1>1. \A i \in 1..Len(s) : s[i] \in Range(s)
  BY SeqPlaces
<1>2. Continues(X, s)
  BY <1>1 DEF Continues
<1>3. QED
  BY <1>2, MessagesIn

\* A stream without a PUBLISH goes anywhere.
LEMMA PlainContinue ==
  ASSUME NEW X, NEW s, IsSeq(s), \A p \in Range(s) : p.type # "PUBLISH"
  PROVE  Continues(X, s) /\ Messages(s) = {}
BY MessagesIn, SeqPlaces DEF Continues

\* The head goes first.
LEMMA ContinuesTail ==
  ASSUME NEW X, NEW s, IsSeq(s), s # << >>
  PROVE  /\ Messages(s) = Messages(<<Head(s)>>) \cup Messages(Tail(s))
         /\ Continues(X, s) <=> /\ Continues(X, <<Head(s)>>)
                                /\ Continues(X \cup Messages(<<Head(s)>>), Tail(s))
<1>1. s \in Seq(Range(s))
  BY DEF IsSeq
<1>2. PICK h, t : h = <<Head(s)>> /\ t = Tail(s)
  OBVIOUS
<1>3. IsSeq(h) /\ IsSeq(t)
  BY <1>2, TailElements, ShortSeqs
<1>4. s = h \o t
  BY <1>1, <1>2, HeadTailProperties, SMT
<1>5. Messages(h \o t) = Messages(h) \cup Messages(t)
  BY <1>3, PublishedConcat
<1>6. Continues(X, h \o t) <=> Continues(X, h) /\ Continues(X \cup Messages(h), t)
  BY <1>3, ContinuesConcat
<1>7. QED
  BY <1>2, <1>4, <1>5, <1>6

\* A message that was not seen before and comes is newer than all that were seen.
LEMMA FirstIsNewest ==
  ASSUME NEW X, NEW s, IsSeq(s), Continues(X, s), MaxSubOps = 0,
         NEW m \in Messages(s), m \notin X
  PROVE  \A n \in X : n < m
<1> DEFINE S == {i \in 1..Len(s) : s[i].type = "PUBLISH" /\ s[i].body = m}
<1>1. Len(s) \in Nat /\ S \in SUBSET Nat /\ S # {}
  BY SeqPlaces DEF Messages, Published
<1>2. PICK j \in S : \A k \in S : j <= k
  BY <1>1, LeastElement
<1>3. m \notin Published(s, j - 1)
  <2>1. SUFFICES ASSUME NEW k \in 1..(j - 1), s[k].type = "PUBLISH", s[k].body = m
                 PROVE  FALSE
    BY DEF Published
  <2>2. k \in 1..Len(s) /\ k < j /\ k \in Nat /\ j \in Nat
    BY <1>1, <1>2, <2>1
  <2>3. k \in S
    BY <2>1, <2>2
  <2>4. QED
    BY <1>2, <2>2, <2>3
<1>4. QED
  BY <1>2, <1>3 DEF Continues

\* The messages on their way to the client, and their order stage by stage.
OnWay == Messages(p2c) \cup Messages(leftover) \cup Messages(snap.broker_buf) \cup Messages(b2p)

InLine ==
  /\ Continues(Range(cGot), p2c)
  /\ Continues(Range(cGot) \cup Messages(p2c), leftover)
  /\ Continues(Range(cGot) \cup Messages(p2c) \cup Messages(leftover), snap.broker_buf)
  /\ Continues(Range(cGot) \cup Messages(p2c) \cup Messages(leftover) \cup Messages(snap.broker_buf),
               b2p)

\* Four streams one behind the other, taken apart.
LEMMA ChainParts ==
  ASSUME NEW X, NEW a, IsSeq(a), NEW l, IsSeq(l), NEW k, IsSeq(k), NEW b, IsSeq(b)
  PROVE  /\ Messages(a \o l \o k \o b) = Messages(a) \cup Messages(l) \cup Messages(k) \cup Messages(b)
         /\ Continues(X, a \o l \o k \o b) <=>
              /\ Continues(X, a)
              /\ Continues(X \cup Messages(a), l)
              /\ Continues(X \cup Messages(a) \cup Messages(l), k)
              /\ Continues(X \cup Messages(a) \cup Messages(l) \cup Messages(k), b)
<1>1. PICK al, alk : al = a \o l /\ alk = al \o k
  OBVIOUS
<1>2. IsSeq(al) /\ IsSeq(alk)
  BY <1>1, ConcatElements
<1>3. /\ Messages(al) = Messages(a) \cup Messages(l)
      /\ Messages(alk) = Messages(al) \cup Messages(k)
      /\ Messages(alk \o b) = Messages(alk) \cup Messages(b)
  BY <1>1, <1>2, PublishedConcat
<1>4. Continues(X, al) <=> Continues(X, a) /\ Continues(X \cup Messages(a), l)
  BY <1>1, ContinuesConcat
<1>5. Continues(X, alk) <=> Continues(X, al) /\ Continues(X \cup Messages(al), k)
  BY <1>1, <1>2, ContinuesConcat
<1>6. Continues(X, alk \o b) <=> Continues(X, alk) /\ Continues(X \cup Messages(alk), b)
  BY <1>1, <1>2, ContinuesConcat
<1>7. /\ X \cup Messages(al) = X \cup Messages(a) \cup Messages(l)
      /\ X \cup Messages(alk) = X \cup Messages(a) \cup Messages(l) \cup Messages(k)
  BY <1>3
<1>8. QED
  BY <1>1, <1>3, <1>4, <1>5, <1>6, <1>7

\* The way to the client in its four parts.
LEMMA OrderIs ==
  ASSUME StreamsOK
  PROVE  /\ Arrived = Range(cGot) \cup OnWay
         /\ Continues(Range(cGot), Arriving) <=> InLine
<1>1. IsSeq(p2c) /\ IsSeq(leftover) /\ IsSeq(snap.broker_buf) /\ IsSeq(b2p)
  BY DEF StreamsOK
<1>2. PICK X, a, l, k, b : /\ X = Range(cGot) /\ a = p2c /\ l = leftover
                           /\ k = snap.broker_buf /\ b = b2p
  OBVIOUS
<1>0. IsSeq(a) /\ IsSeq(l) /\ IsSeq(k) /\ IsSeq(b)
  BY <1>1, <1>2
<1>3. /\ Messages(a \o l \o k \o b) = Messages(a) \cup Messages(l) \cup Messages(k) \cup Messages(b)
      /\ Continues(X, a \o l \o k \o b) <=>
           /\ Continues(X, a)
           /\ Continues(X \cup Messages(a), l)
           /\ Continues(X \cup Messages(a) \cup Messages(l), k)
           /\ Continues(X \cup Messages(a) \cup Messages(l) \cup Messages(k), b)
  BY <1>0, ChainParts, ZenonT(60)
<1>4. Arriving = a \o l \o k \o b
  BY <1>2 DEF Arriving
<1>5. Arrived = Range(cGot) \cup OnWay
  BY <1>2, <1>3, <1>4 DEF Arrived, OnWay
<1>6. Continues(Range(cGot), Arriving) <=> InLine
  BY <1>2, <1>3, <1>4 DEF InLine
<1>7. QED
  BY <1>5, <1>6

\* The same after a step.
LEMMA OrderIsNext ==
  ASSUME StreamsOK'
  PROVE  /\ Arrived' = Range(cGot') \cup OnWay'
         /\ Continues(Range(cGot'), Arriving') <=> InLine'
<1>1. IsSeq(p2c') /\ IsSeq(leftover') /\ IsSeq(snap'.broker_buf) /\ IsSeq(b2p')
  BY DEF StreamsOK
<1>2. PICK X, a, l, k, b : /\ X = Range(cGot') /\ a = p2c' /\ l = leftover'
                           /\ k = snap'.broker_buf /\ b = b2p'
  OBVIOUS
<1>0. IsSeq(a) /\ IsSeq(l) /\ IsSeq(k) /\ IsSeq(b)
  BY <1>1, <1>2
<1>3. /\ Messages(a \o l \o k \o b) = Messages(a) \cup Messages(l) \cup Messages(k) \cup Messages(b)
      /\ Continues(X, a \o l \o k \o b) <=>
           /\ Continues(X, a)
           /\ Continues(X \cup Messages(a), l)
           /\ Continues(X \cup Messages(a) \cup Messages(l), k)
           /\ Continues(X \cup Messages(a) \cup Messages(l) \cup Messages(k), b)
  BY <1>0, ChainParts, ZenonT(60)
<1>4. Arriving' = a \o l \o k \o b
  BY <1>2 DEF Arriving
<1>5. Arrived' = Range(cGot') \cup OnWay'
  BY <1>2, <1>3, <1>4 DEF Arrived, OnWay
<1>6. Continues(Range(cGot'), Arriving') <=> InLine'
  BY <1>2, <1>3, <1>4 DEF InLine
<1>7. QED
  BY <1>5, <1>6

\* A step of the proxy keeps the order if each stage does and what it loses is the end of
\* the line, t.
LEMMA ProxyArrives ==
  ASSUME StreamsOK, StreamsOK', ArriveOrder, PeersKept, InLine', link' = "up" => link = "up",
         NEW t, IsSeq(t),
         MaxSubOps = 0 =>
           /\ Range(cGot) \cup OnWay = Range(cGot) \cup OnWay' \cup Messages(t)
           /\ Continues(Range(cGot) \cup OnWay', t)
           /\ link' = "up" => Messages(t) = {},
         Messages(p2c) \subseteq Messages(p2c'),
         \A p \in Raws(windows'.b2c) :
           \/ p \in Raws(windows.b2c)
           \/ p.type = "PUBLISH" => p.qos > 0 /\ p.body \in Messages(p2c')
  PROVE  ArriveOrder'
<1>1. /\ cGot' = cGot /\ Range(cGot)' = Range(cGot)
      /\ bOut' = bOut \/ bOut' = << >>
  BY DEF PeersKept, clientVars
<1>2. Continues(Range(cGot), Arriving)'
  BY OrderIsNext
<1>3. \A p \in Raws(windows'.b2c) : p.type = "PUBLISH" =>
        p.qos > 0 /\ p.body \in Range(cGot') \cup Messages(p2c')
  BY <1>1 DEF ArriveOrder
<1>4. \A i, j \in DOMAIN bOut' : i < j => bOut'[i].msg < bOut'[j].msg
  BY <1>1 DEF ArriveOrder
<1>5. ASSUME MaxSubOps = 0, NEW e \in Range(bOut')
      PROVE  e.msg \in Arrived' \/ (link' # "up" /\ \A m \in Arrived' : m < e.msg)
  <2>1. e \in Range(bOut)
    BY <1>1, <1>5, ShortSeqs
  <2>2. e.msg \in Arrived \/ (link # "up" /\ \A m \in Arrived : m < e.msg)
    BY <1>5, <2>1 DEF ArriveOrder
  <2>3. /\ Arrived = Range(cGot) \cup OnWay /\ Arrived' = Range(cGot) \cup OnWay'
        /\ Range(cGot) \cup OnWay = Range(cGot) \cup OnWay' \cup Messages(t)
        /\ Continues(Range(cGot) \cup OnWay', t) /\ (link' = "up" => Messages(t) = {})
    BY <1>1, <1>5, OrderIs, OrderIsNext
  <2>4. CASE e.msg \in Messages(t) /\ e.msg \notin Arrived'
    BY <1>5, <2>3, <2>4, FirstIsNewest
  <2>5. QED
    BY <2>2, <2>3, <2>4
<1>6. QED
  BY <1>2, <1>3, <1>4, <1>5 DEF ArriveOrder

\* Packets other than PUBLISH make no difference to a stream.
LEMMA PlainMore ==
  ASSUME NEW X, NEW s, IsSeq(s)
  PROVE  /\ \A r : IsSeq(r) /\ (\A p \in Range(r) : p.type # "PUBLISH") =>
                     /\ Messages(s \o r) = Messages(s)
                     /\ Continues(X, s) => Continues(X, s \o r)
         /\ \A p : /\ Messages(Append(s, p)) = Messages(s) \cup Messages(<<p>>)
                   /\ Continues(X, Append(s, p)) <=>
                        Continues(X, s) /\ Continues(X \cup Messages(s), <<p>>)
<1>1. ASSUME NEW r, IsSeq(r), \A p \in Range(r) : p.type # "PUBLISH"
      PROVE  /\ Messages(s \o r) = Messages(s)
             /\ Continues(X, s) => Continues(X, s \o r)
  <2>1. Messages(r) = {} /\ Continues(X \cup Messages(s), r)
    BY <1>1, PlainContinue
  <2>2. Messages(s \o r) = Messages(s) \cup Messages(r)
    BY <1>1, PublishedConcat
  <2>3. Continues(X, s \o r) <=> Continues(X, s) /\ Continues(X \cup Messages(s), r)
    BY <1>1, ContinuesConcat
  <2>4. QED
    BY <2>1, <2>2, <2>3
<1>2. ASSUME NEW p
      PROVE  /\ Messages(Append(s, p)) = Messages(s) \cup Messages(<<p>>)
             /\ Continues(X, Append(s, p)) <=>
                  Continues(X, s) /\ Continues(X \cup Messages(s), <<p>>)
  <2>1. PICK t : t = <<p>>
    OBVIOUS
  <2>2. s \in Seq(Range(s)) /\ IsSeq(t)
    BY <2>1, ShortSeqs DEF IsSeq
  <2>3. Append(s, p) = s \o t
    BY <2>1, <2>2, AppendIsConcat
  <2>4. /\ Messages(s \o t) = Messages(s) \cup Messages(t)
        /\ Continues(X, s \o t) <=> Continues(X, s) /\ Continues(X \cup Messages(s), t)
    BY <2>2, PublishedConcat, ContinuesConcat
  <2>5. QED
    BY <2>1, <2>3, <2>4
<1>3. QED
  BY <1>1, <1>2

\* The broker's socket is left alone, lost, or loses a packet other than PUBLISH.
LEMMA PlainArrives ==
  ASSUME StreamsOK, StreamsOK', ArriveOrder, PeersKept, link' = "up" => link = "up",
         snap'.broker_buf = snap.broker_buf, leftover' = leftover,
         Messages(p2c') = Messages(p2c), Continues(Range(cGot), p2c) => Continues(Range(cGot), p2c'),
         \/ b2p' = b2p
         \/ b2p' = << >> /\ link' # "up"
         \/ b2p # << >> /\ b2p' = Tail(b2p) /\ Head(b2p).type # "PUBLISH",
         Raws(windows'.b2c) \subseteq Raws(windows.b2c)
  PROVE  ArriveOrder'
<1>1. InLine /\ cGot' = cGot /\ IsSeq(b2p)
  BY OrderIs DEF ArriveOrder, PeersKept, clientVars, StreamsOK
<1> DEFINE U == Messages(p2c) \cup Messages(leftover) \cup Messages(snap.broker_buf)
           Y == Range(cGot) \cup Messages(p2c) \cup Messages(leftover) \cup Messages(snap.broker_buf)
<1>2. /\ Continues(Range(cGot'), p2c')
      /\ Continues(Range(cGot') \cup Messages(p2c'), leftover')
      /\ Continues(Range(cGot') \cup Messages(p2c') \cup Messages(leftover'), snap'.broker_buf)
      /\ Range(cGot') \cup Messages(p2c') \cup Messages(leftover') \cup Messages(snap'.broker_buf) = Y
      /\ OnWay = U \cup Messages(b2p) /\ OnWay' = U \cup Messages(b2p')
      /\ Range(cGot) \cup U = Y /\ Continues(Y, b2p)
  BY <1>1 DEF InLine, OnWay
<1> HIDE DEF U, Y
<1>3. CASE b2p' = << >> /\ link' # "up"
  <2>1. Messages(b2p') = {} /\ Continues(Y, b2p')
    BY <1>3, ContinuesShort
  <2>2. InLine' /\ OnWay' = U
    BY <1>2, <2>1 DEF InLine
  <2>3. QED
    BY <1>1, <1>2, <1>3, <2>2, ProxyArrives
<1>4. CASE b2p' = b2p \/ (b2p # << >> /\ b2p' = Tail(b2p) /\ Head(b2p).type # "PUBLISH")
  <2>1. Messages(b2p') = Messages(b2p) /\ Continues(Y, b2p')
    <3>1. CASE b2p' = b2p
      BY <1>2, <3>1
    <3>2. CASE b2p # << >> /\ b2p' = Tail(b2p) /\ Head(b2p).type # "PUBLISH"
      <4>1. Messages(<<Head(b2p)>>) = {}
        BY <3>2, ContinuesShort
      <4>2. /\ Messages(b2p) = Messages(<<Head(b2p)>>) \cup Messages(Tail(b2p))
            /\ Continues(Y, b2p) => Continues(Y \cup Messages(<<Head(b2p)>>), Tail(b2p))
        BY <1>1, <3>2, ContinuesTail
      <4>3. Y \cup Messages(<<Head(b2p)>>) = Y
        BY <4>1
      <4>4. QED
        BY <1>2, <3>2, <4>1, <4>2, <4>3
    <3>3. QED
      BY <1>4, <3>1, <3>2
  <2>2. InLine' /\ OnWay' = OnWay
    BY <1>2, <2>1 DEF InLine
  <2>3. IsSeq(<< >>) /\ Messages(<< >>) = {} /\ \A Z : Continues(Z, << >>)
    BY ShortSeqs, ContinuesShort
  <2>4. PICK t : t = << >>
    OBVIOUS
  <2>5. /\ IsSeq(t) /\ OnWay = OnWay' \cup Messages(t) /\ Messages(t) = {}
        /\ Continues(Range(cGot) \cup OnWay', t)
    BY <2>2, <2>3, <2>4
  <2>6. QED
    BY <1>1, <2>2, <2>5, ProxyArrives
<1>5. QED
  BY <1>3, <1>4

\* Steps that bring no PUBLISH closer to the client.
LEMMA PlainStepsArrive ==
  ASSUME TypeOK, StreamsOK', PeersKept, link' = "up" => link = "up", ArriveOrder, ArriveStages,
         \/ ForwardClientPacket \/ service_outage_packet \/ BrokerEof \/ ClientGone
         \/ KeepaliveTimeout \/ ConnectBroker \/ RecvConnack \/ EstablishFails
  PROVE  ArriveOrder'
<1>1. StreamsOK /\ IsSeq(p2c)
  BY DEF TypeOK, StreamsOK
<1>2. CASE ForwardClientPacket \/ service_outage_packet
  <2>1. PICK r : p2c' = p2c \o r /\ IsSeq(r) /\ \A p \in Range(r) : p.type # "PUBLISH"
    <3>1. p2c' = p2c \o LocalAnswer(Head(c2p))
      BY <1>2 DEF ForwardClientPacket, service_outage_packet
    <3>2. IsSeq(LocalAnswer(Head(c2p))) /\ \A p \in Range(LocalAnswer(Head(c2p))) : p.type = "PINGRESP"
      BY LocalAnswerIs, OwnPackets
    <3>3. QED
      BY <3>1, <3>2
  <2>2. /\ Messages(p2c') = Messages(p2c)
        /\ Continues(Range(cGot), p2c) => Continues(Range(cGot), p2c')
    BY <1>1, <2>1, PlainMore
  <2>3. UNCHANGED <<snap, leftover>> /\ (b2p' = b2p \/ (b2p' = << >> /\ link' # "up"))
    BY <1>2 DEF ForwardClientPacket, service_outage_packet, DropBroker
  <2>4. Raws(windows'.b2c) \subseteq Raws(windows.b2c)
    BY <1>2, ForwardClientMoves, OutageMoves
  <2>5. QED
    BY <1>1, <2>2, <2>3, <2>4, PlainArrives
<1>3. CASE KeepaliveTimeout
  <2>1. UNCHANGED <<snap, leftover, b2p, windows>>
    BY <1>3 DEF KeepaliveTimeout
  <2>2. PICK d : d.type = "DISCONNECT" /\ (p2c' = p2c \/ p2c' = Append(p2c, d))
    BY <1>3, OwnPackets, ZenonT(60) DEF KeepaliveTimeout
  <2>3. Messages(<<d>>) = {} /\ Continues(Range(cGot) \cup Messages(p2c), <<d>>)
    BY <2>2, ContinuesShort
  <2>4. /\ Messages(Append(p2c, d)) = Messages(p2c) \cup Messages(<<d>>)
        /\ Continues(Range(cGot), Append(p2c, d)) <=>
             /\ Continues(Range(cGot), p2c)
             /\ Continues(Range(cGot) \cup Messages(p2c), <<d>>)
    BY <1>1, PlainMore
  <2>5. /\ Messages(p2c') = Messages(p2c)
        /\ Continues(Range(cGot), p2c) => Continues(Range(cGot), p2c')
    BY <2>2, <2>3, <2>4
  <2>6. QED
    BY <1>1, <2>1, <2>5, PlainArrives
<1>4. CASE ClientGone \/ EstablishFails \/ ConnectBroker \/ RecvConnack \/ BrokerEof
  <2>1. UNCHANGED <<snap, windows, p2c>> /\ leftover' = leftover
    <3>1. CASE BrokerEof
      BY <3>1 DEF BrokerEof, ArriveStages
    <3>2. QED
      BY <1>4, <3>1 DEF ClientGone, EstablishFails, ConnectBroker, RecvConnack, streams
  <2>2. \/ b2p' = b2p
        \/ b2p' = << >> /\ link' # "up"
        \/ b2p # << >> /\ b2p' = Tail(b2p) /\ Head(b2p).type # "PUBLISH"
    BY <1>4 DEF ClientGone, EstablishFails, ConnectBroker, RecvConnack, BrokerEof, DropBroker,
       streams, HeadIs
  <2>3. QED
    BY <1>1, <2>1, <2>2, PlainArrives
<1>5. QED
  BY <1>2, <1>3, <1>4

\* ForwardBrokerPacket passes on the head, and the window keeps it.
LEMMA ForwardBrokerArrives ==
  ASSUME TypeOK, StreamsOK', PeersKept, link' = "up" => link = "up", ArriveOrder, ArriveStages, ForwardBrokerPacket,
         \A p \in Range(b2p) : p.type = "PUBLISH" => p.qos \in 0..2
  PROVE  ArriveOrder'
<1>1. /\ StreamsOK /\ IsSeq(p2c) /\ IsSeq(b2p) /\ phase = "connected" /\ b2p # << >>
      /\ b2p' = Tail(b2p) /\ UNCHANGED <<snap, leftover>> /\ leftover = << >> /\ snap = NoSnap
  BY DEF TypeOK, StreamsOK, ForwardBrokerPacket, ArriveStages
<1>2. PICK p : p = Head(b2p)
  OBVIOUS
<1>3. CASE Swallowed(p)
  <2>1. UNCHANGED <<windows, p2c>> /\ p.type # "PUBLISH"
    BY <1>2, <1>3 DEF ForwardBrokerPacket, Swallowed
  <2>2. QED
    BY <1>1, <1>2, <2>1, PlainArrives
<1>4. CASE ~ Swallowed(p)
  <2>1. windows' = track_b2c(windows, p) /\ p2c' = Append(p2c, p)
    BY <1>2, <1>4 DEF ForwardBrokerPacket
  <2>2. InLine /\ cGot' = cGot /\ snap.broker_buf = << >>
    BY <1>1, OrderIs DEF ArriveOrder, PeersKept, clientVars, NoSnap
  <2>3. Messages(<< >>) = {} /\ \A X : Continues(X, << >>)
    BY ContinuesShort
  <2>4. PICK X, M : X = Range(cGot) /\ M = Messages(p2c)
    OBVIOUS
  <2>5. Continues(X, p2c) /\ Continues(X \cup M, b2p)
    <3>1. X \cup M \cup {} \cup {} = X \cup M
      OBVIOUS
    <3>2. QED
      BY <1>1, <2>2, <2>3, <2>4, <3>1 DEF InLine
  <2>6. /\ Continues(X \cup M, <<p>>) /\ Continues(X \cup M \cup Messages(<<p>>), Tail(b2p))
        /\ Messages(b2p) = Messages(<<p>>) \cup Messages(Tail(b2p))
    BY <1>1, <1>2, <2>5, ContinuesTail
  <2>7. /\ Messages(p2c') = M \cup Messages(<<p>>)
        /\ Continues(X, p2c')
    BY <1>1, <2>1, <2>4, <2>5, <2>6, PlainMore
  <2>8. InLine'
    <3>1. X \cup Messages(p2c') \cup {} \cup {} = X \cup M \cup Messages(<<p>>)
      BY <2>7
    <3>2. QED
      BY <1>1, <2>2, <2>3, <2>4, <2>6, <2>7, <3>1, ZenonT(60) DEF InLine
  <2>9. OnWay' = OnWay
    BY <1>1, <2>2, <2>3, <2>4, <2>6, <2>7 DEF OnWay
  <2>10. PICK t : t = << >> /\ IsSeq(t) /\ Messages(t) = {} /\ Continues(X \cup OnWay', t)
    BY <2>3, ShortSeqs
  <2>11. \A q \in Raws(windows'.b2c) :
           \/ q \in Raws(windows.b2c)
           \/ q.type = "PUBLISH" => q.qos > 0 /\ q.body \in Messages(p2c')
    <3>1. SUFFICES ASSUME NEW q \in Raws(windows'.b2c), q \notin Raws(windows.b2c), q.type = "PUBLISH"
                   PROVE  q.qos > 0 /\ q.body \in Messages(p2c')
      OBVIOUS
    <3>2. q = p
      BY <1>2, <3>1, ForwardBrokerMoves
    <3>3. q.qos # 0
      <4>1. SUFFICES ASSUME q.qos = 0 PROVE FALSE
        OBVIOUS
      <4>2. windows' = windows
        BY <2>1, <3>1, <3>2, <4>1 DEF track_b2c, b2c_insert
      <4>3. QED
        BY <3>1, <4>2
    <3>4. q.qos \in 0..2
      BY <1>1, <1>2, <3>1, <3>2, TailElements
    <3>5. q.body \in Messages(<<p>>)
      BY <3>1, <3>2, ContinuesShort
    <3>6. QED
      BY <2>7, <3>3, <3>4, <3>5
  <2>12. QED
    BY <1>1, <2>4, <2>7, <2>8, <2>9, <2>10, <2>11, ProxyArrives
<1>5. QED
  BY <1>3, <1>4

\* The end of a connection: what came behind an administrative DISCONNECT is left over, and
\* what came behind another is lost with the session.
LEMMA InterceptArrives ==
  ASSUME TypeOK, StreamsOK', PeersKept, link' = "up" => link = "up", ArriveOrder, ArriveStages, InterceptDisconnect
  PROVE  ArriveOrder'
<1>1. /\ StreamsOK /\ IsSeq(p2c) /\ IsSeq(b2p) /\ phase = "connected" /\ b2p # << >>
      /\ UNCHANGED <<snap, windows>> /\ leftover = << >> /\ snap = NoSnap
      /\ Head(b2p).type = "DISCONNECT" /\ b2p' = << >> /\ link' # "up"
  BY DEF TypeOK, StreamsOK, InterceptDisconnect, ArriveStages, HeadIs, DropBroker
<1>2. Messages(<< >>) = {} /\ \A X : Continues(X, << >>)
  BY ContinuesShort
<1>3. /\ Messages(<<Head(b2p)>>) = {} /\ \A X : Continues(X, <<Head(b2p)>>)
  BY <1>1, ContinuesShort
<1>4. CASE is_retryable_disconnect(Head(b2p))
  <2>1. leftover' = Tail(b2p) /\ p2c' = p2c
    BY <1>4 DEF InterceptDisconnect
  <2>2. InLine /\ cGot' = cGot /\ snap.broker_buf = << >>
    BY <1>1, OrderIs DEF ArriveOrder, PeersKept, clientVars, NoSnap
  <2>3. PICK Y : Y = Range(cGot) \cup Messages(p2c)
    OBVIOUS
  <2>4. Continues(Y, b2p)
    <3>1. Y \cup {} \cup {} = Y
      OBVIOUS
    <3>2. QED
      BY <1>1, <1>2, <2>2, <2>3, <3>1 DEF InLine
  <2>5. /\ Messages(b2p) = Messages(<<Head(b2p)>>) \cup Messages(Tail(b2p))
        /\ Continues(Y \cup Messages(<<Head(b2p)>>), Tail(b2p))
    BY <1>1, <2>4, ContinuesTail
  <2>6. Y \cup Messages(<<Head(b2p)>>) = Y
    BY <1>3
  <2>7. InLine' /\ OnWay' = OnWay
    BY <1>1, <1>2, <1>3, <2>1, <2>2, <2>3, <2>5, <2>6 DEF InLine, OnWay
  <2>8. PICK t : t = << >> /\ IsSeq(t) /\ Messages(t) = {} /\ Continues(Range(cGot) \cup OnWay', t)
    BY <1>2, ShortSeqs
  <2>9. QED
    BY <1>1, <2>1, <2>7, <2>8, ProxyArrives
<1>5. CASE ~ is_retryable_disconnect(Head(b2p))
  <2>1. p2c' = Append(p2c, Head(b2p)) /\ leftover' = leftover
    BY <1>5 DEF InterceptDisconnect
  <2>2. /\ Messages(p2c') = Messages(p2c) \cup Messages(<<Head(b2p)>>)
        /\ Continues(Range(cGot), p2c') <=>
             /\ Continues(Range(cGot), p2c)
             /\ Continues(Range(cGot) \cup Messages(p2c), <<Head(b2p)>>)
    BY <1>1, <2>1, PlainMore
  <2>3. /\ Messages(p2c') = Messages(p2c)
        /\ Continues(Range(cGot), p2c) => Continues(Range(cGot), p2c')
    BY <1>3, <2>2
  <2>4. QED
    BY <1>1, <2>1, <2>3, PlainArrives
<1>6. QED
  BY <1>4, <1>5

\* Only with subscriptions is a packet taken for a SUBACK; the rest keeps its order behind
\* fewer messages.
LEMMA FewerBefore ==
  ASSUME NEW X, NEW Y, X \subseteq Y, NEW s, Continues(Y, s), MaxSubOps # 0
  PROVE  Continues(X, s)
BY DEF Continues

\* What recv_suback takes out of the line leaves the rest in order.
LEMMA RecvSubackArrives ==
  ASSUME TypeOK, StreamsOK', PeersKept, link' = "up" => link = "up", ArriveOrder, ArriveStages, RecvSuback
  PROVE  ArriveOrder'
<1>1. /\ StreamsOK /\ IsSeq(b2p) /\ b2p # << >> /\ b2p' = Tail(b2p) /\ MaxSubOps # 0
      /\ UNCHANGED <<snap, windows, leftover, p2c>>
  BY DEF TypeOK, StreamsOK, RecvSuback, ArriveStages
<1>2. InLine /\ cGot' = cGot
  BY <1>1, OrderIs DEF ArriveOrder, PeersKept, clientVars
<1>3. PICK Y : Y = Range(cGot) \cup Messages(p2c) \cup Messages(leftover) \cup Messages(snap.broker_buf)
  OBVIOUS
<1>4. Continues(Y \cup Messages(<<Head(b2p)>>), Tail(b2p))
  BY <1>1, <1>2, <1>3, ContinuesTail DEF InLine
<1>5. Continues(Y, Tail(b2p))
  BY <1>1, <1>4, FewerBefore
<1>6. InLine'
  BY <1>1, <1>2, <1>3, <1>5 DEF InLine
<1>7. QED
  BY <1>1, <1>6, ShortSeqs, ProxyArrives

\* Replay writes the leftovers and then, marked, what the window keeps.
LEMMA ReplayArrives ==
  ASSUME TypeOK, StreamsOK', PeersKept, link' = "up" => link = "up", ArriveOrder, ArriveStages, Replay
  PROVE  ArriveOrder'
<1>1. /\ StreamsOK /\ IsSeq(p2c) /\ IsSeq(leftover)
      /\ p2c' = p2c \o leftover \o client_retransmits(windows)
      /\ leftover' = << >> /\ UNCHANGED <<snap, b2p>>
      /\ windows \in Windows(Raws(windows.c2b), Raws(windows.b2c))
  BY DEF TypeOK, StreamsOK, Replay
<1>2. InLine /\ cGot' = cGot
  BY <1>1, OrderIs DEF ArriveOrder, PeersKept, clientVars
<1>3. PICK X, pl, r : X = Range(cGot) /\ pl = p2c \o leftover /\ r = client_retransmits(windows)
  OBVIOUS
<1>4. /\ IsSeq(pl) /\ Messages(pl) = Messages(p2c) \cup Messages(leftover)
      /\ Continues(X, pl)
  BY <1>1, <1>2, <1>3, ConcatElements, PublishedConcat, ContinuesConcat DEF InLine
<1>5. /\ IsSeq(r)
      /\ \A p \in Range(r) : p.type = "PUBLISH" => p.dup /\ p.qos > 0 /\ p.body \in X \cup Messages(pl)
  <2>1. IsSeq(r) /\ \A p \in Range(r) : \E q \in Raws(windows.b2c) : p = with_dup(q)
    BY <1>1, <1>3, ClientRetransmits
  <2>2. ASSUME NEW p \in Range(r), p.type = "PUBLISH"
        PROVE  p.dup /\ p.qos > 0 /\ p.body \in X \cup Messages(pl)
    <3>1. PICK q \in Raws(windows.b2c) : p = with_dup(q)
      BY <2>1, <2>2
    <3>2. q.type = "PUBLISH" /\ p.dup /\ p.qos = q.qos /\ p.body = q.body
      BY <2>2, <3>1 DEF with_dup, Packet
    <3>3. QED
      BY <1>3, <1>4, <3>2 DEF ArriveOrder
  <2>3. QED
    BY <2>1, <2>2
<1>6. Continues(X \cup Messages(pl), r) /\ X \cup Messages(pl) \cup Messages(r) = X \cup Messages(pl)
  BY <1>5, MarkedContinue
<1>7. Messages(p2c') = Messages(pl) \cup Messages(r) /\ Continues(X, p2c')
  <2>1. p2c' = pl \o r
    BY <1>1, <1>3
  <2>2. QED
    BY <1>4, <1>5, <1>6, <2>1, PublishedConcat, ContinuesConcat
<1>8. PICK k : k = Messages(snap.broker_buf)
  OBVIOUS
<1>9. /\ Continues(X \cup Messages(pl), snap.broker_buf)
      /\ Continues(X \cup Messages(pl) \cup k, b2p)
  <2>1. /\ X \cup Messages(p2c) \cup Messages(leftover) = X \cup Messages(pl)
        /\ X \cup Messages(p2c) \cup Messages(leftover) \cup k = X \cup Messages(pl) \cup k
    BY <1>4
  <2>2. QED
    BY <1>2, <1>3, <1>8, <2>1 DEF InLine
<1>10. Messages(leftover') = {} /\ \A Z : Continues(Z, leftover')
  BY <1>1, ContinuesShort
<1>11. InLine'
  <2>1. /\ X \cup Messages(p2c') \cup {} = X \cup Messages(pl)
        /\ X \cup Messages(p2c') \cup {} \cup k = X \cup Messages(pl) \cup k
    BY <1>6, <1>7
  <2>2. QED
    BY <1>1, <1>2, <1>3, <1>7, <1>8, <1>9, <1>10, <2>1 DEF InLine
<1>12. X \cup OnWay = X \cup OnWay'
  BY <1>1, <1>4, <1>6, <1>7, <1>8, <1>10 DEF OnWay
<1>13. PICK t : t = << >> /\ IsSeq(t) /\ Messages(t) = {} /\ Continues(X \cup OnWay', t)
  BY ContinuesShort, ShortSeqs
<1>14. Raws(windows'.b2c) \subseteq Raws(windows.b2c)
  BY ReplayMoves
<1>15. Messages(p2c) \subseteq Messages(p2c')
  BY <1>4, <1>7
<1>16. QED
  BY <1>1, <1>3, <1>11, <1>12, <1>13, <1>14, <1>15, ProxyArrives

\* Freeze cuts the broker's socket in two, and resume puts the parts together again.
LEMMA SocketArrives ==
  ASSUME StreamsOK, StreamsOK', ArriveOrder, PeersKept, link' = "up" => link = "up",
         UNCHANGED <<p2c, leftover, windows>>,
         snap'.broker_buf \o b2p' = snap.broker_buf \o b2p
  PROVE  ArriveOrder'
<1>1. InLine /\ cGot' = cGot
  BY OrderIs DEF ArriveOrder, PeersKept, clientVars
<1>2. PICK k, b, h, c : k = snap.broker_buf /\ b = b2p /\ h = snap'.broker_buf /\ c = b2p'
  OBVIOUS
<1>3. IsSeq(k) /\ IsSeq(b) /\ IsSeq(h) /\ IsSeq(c) /\ h \o c = k \o b
  BY <1>2 DEF StreamsOK
<1>4. PICK Y : Y = Range(cGot) \cup Messages(p2c) \cup Messages(leftover)
  OBVIOUS
<1>5. Continues(Y, k) /\ Continues(Y \cup Messages(k), b)
  BY <1>1, <1>2, <1>4 DEF InLine
<1>6. Continues(Y, k \o b) /\ Messages(k \o b) = Messages(k) \cup Messages(b)
  BY <1>3, <1>5, ContinuesConcat, PublishedConcat
<1>7. /\ Continues(Y, h) /\ Continues(Y \cup Messages(h), c)
      /\ Messages(h) \cup Messages(c) = Messages(k) \cup Messages(b)
  <2>1. Continues(Y, h \o c) <=> Continues(Y, h) /\ Continues(Y \cup Messages(h), c)
    BY <1>3, ContinuesConcat
  <2>2. Messages(h \o c) = Messages(h) \cup Messages(c)
    BY <1>3, PublishedConcat
  <2>3. QED
    BY <1>3, <1>6, <2>1, <2>2
<1>8. InLine'
  BY <1>1, <1>2, <1>4, <1>7 DEF InLine
<1>9. OnWay' = OnWay
  BY <1>2, <1>7 DEF OnWay
<1>10. PICK t : t = << >> /\ IsSeq(t) /\ Messages(t) = {} /\ Continues(Range(cGot) \cup OnWay', t)
  BY ContinuesShort, ShortSeqs
<1>11. QED
  BY <1>8, <1>9, <1>10, ProxyArrives

\* A sequence without elements.
LEMMA NothingInside ==
  ASSUME NEW s, IsSeq(s), Range(s) = {}
  PROVE  s = << >>
BY TailElements

\* Freezing and thawing keep the line: the read buffer stays before the socket.
LEMMA FreezeArrives ==
  ASSUME TypeOK, StreamsOK', PeersKept, link' = "up" => link = "up", ArriveOrder, ArriveStages, StageInv,
         Freeze \/ ResumeSession \/ adopt_session
  PROVE  ArriveOrder'
<1>1. /\ StreamsOK /\ IsSeq(b2p) /\ IsSeq(snap.broker_buf) /\ IsSeq(leftover)
  BY DEF TypeOK, StreamsOK
<1>2. b2p \in Seq(Range(b2p)) /\ snap.broker_buf \in Seq(Range(snap.broker_buf))
  BY <1>1 DEF IsSeq
<1>3. CASE Freeze
  <2>1. snap.broker_buf = << >> /\ UNCHANGED <<p2c, leftover, windows>>
    BY <1>1, <1>3 DEF Freeze, StreamsOK, NoSnap
  <2>2. PICK j \in 0..Len(b2p) :
          snap'.broker_buf = SubSeq(b2p, 1, j) /\ b2p' = SubSeq(b2p, j + 1, Len(b2p))
    <3>1. PICK i \in 0..Len(c2p), j \in 0..Len(b2p) :
            /\ snap' = [client_buf    |-> SubSeq(c2p, 1, i),
                        broker_buf    |-> SubSeq(b2p, 1, j),
                        windows       |-> snapshot(windows),
                        subscriptions |-> subscriptions,
                        buffered      |-> buffer]
            /\ b2p' = SubSeq(b2p, j + 1, Len(b2p))
      BY <1>3, Zenon DEF Freeze
    <3>2. QED
      BY <3>1
  <2>3. SubSeq(b2p, 1, j) \o SubSeq(b2p, j + 1, Len(b2p)) = b2p
    BY <1>1, CutSeq
  <2>4. snap.broker_buf \o b2p = b2p
    BY <1>2, <2>1
  <2>5. QED
    BY <1>1, <2>1, <2>2, <2>3, <2>4, SocketArrives
<1>4. CASE ResumeSession
  <2>1. /\ UNCHANGED <<p2c, leftover, windows>> /\ snap'.broker_buf = << >>
        /\ b2p' = snap.broker_buf \o b2p
    BY <1>4 DEF ResumeSession, NoSnap, Restored
  <2>2. IsSeq(b2p')
    BY <1>1, <2>1, ConcatElements
  <2>3. snap'.broker_buf \o b2p' = b2p'
    BY <2>1, <2>2 DEF IsSeq
  <2>4. QED
    BY <1>1, <2>1, <2>3, SocketArrives
<1>5. CASE adopt_session
  <2>1. /\ UNCHANGED <<p2c, windows>> /\ snap'.broker_buf = << >>
        /\ leftover' = snap.broker_buf /\ b2p' = << >> /\ phase = "frozen" /\ link' # "up"
    BY <1>5, ThawMoves DEF adopt_session, NoSnap, DropBroker
  <2>2. InLine /\ cGot' = cGot
    BY <1>1, OrderIs DEF ArriveOrder, PeersKept, clientVars
  <2>3. PICK X, A, k : X = Range(cGot) /\ A = Messages(p2c) /\ k = Messages(snap.broker_buf)
    OBVIOUS
  <2>4. Messages(<< >>) = {} /\ \A Z : Continues(Z, << >>)
    BY ContinuesShort
  <2>5. CASE link # "none"
    <3>1. leftover = << >> /\ Messages(leftover) = {}
      BY <2>1, <2>4, <2>5 DEF ArriveStages
    <3>2. X \cup A \cup {} = X \cup A /\ X \cup A \cup {} \cup k = X \cup A \cup k
      OBVIOUS
    <3>3. /\ Continues(X, p2c) /\ Continues(X \cup A, snap.broker_buf)
          /\ Continues(X \cup A \cup k, b2p)
      BY <2>2, <2>3, <3>1, <3>2 DEF InLine
    <3>4. InLine'
      BY <2>1, <2>2, <2>3, <2>4, <3>3 DEF InLine
    <3>5. OnWay = A \cup k \cup Messages(b2p) /\ OnWay' = A \cup k
      BY <2>1, <2>3, <2>4, <3>1 DEF OnWay
    <3>6. PICK t : t = b2p
      OBVIOUS
    <3>7. X \cup OnWay' = X \cup A \cup k /\ IsSeq(t) /\ Continues(X \cup OnWay', t)
      BY <1>1, <3>3, <3>5, <3>6
    <3>8. X \cup OnWay = X \cup OnWay' \cup Messages(t)
      BY <3>5, <3>6
    <3>9. QED
      BY <1>1, <2>1, <2>3, <3>4, <3>7, <3>8, ProxyArrives
  <2>6. CASE link = "none"
    <3>1. snap.broker_buf = << >> /\ b2p = << >>
      <4>1. Range(snap.broker_buf) = {} /\ Range(b2p) = {}
        BY <2>6 DEF StageInv, FromBrokerSocket
      <4>2. QED
        BY <1>1, <4>1, NothingInside
    <3>2. Continues(X, p2c) /\ Continues(X \cup A, leftover)
      BY <2>2, <2>3 DEF InLine
    <3>3. InLine'
      BY <2>1, <2>2, <2>3, <2>4, <3>1, <3>2 DEF InLine
    <3>4. OnWay = A \cup Messages(leftover) /\ OnWay' = A
      BY <2>1, <2>3, <2>4, <3>1 DEF OnWay
    <3>5. PICK t : t = leftover
      OBVIOUS
    <3>6. IsSeq(t) /\ Continues(X \cup OnWay', t) /\ X \cup OnWay = X \cup OnWay' \cup Messages(t)
      BY <1>1, <3>2, <3>4, <3>5
    <3>7. QED
      BY <1>1, <2>1, <2>3, <3>3, <3>6, ProxyArrives
  <2>7. QED
    BY <2>5, <2>6
<1>6. QED
  BY <1>3, <1>4, <1>5

\* A step that only moves packets keeps what is known of each of them.
LEMMA MovesKeepArrived ==
  ASSUME ArriveMessages, MovesOnly, PeersKept
  PROVE  ArriveMessages'
<1>1. UNCHANGED <<cGot, cRecvd, bSent>> /\ (bOut' = bOut \/ bOut' = << >>)
  BY DEF PeersKept, clientVars
<1>2. \A p \in ClientBound' : p.type = "PUBLISH" => \E q \in ClientBound : Same(p, q)
  BY DEF MovesOnly, OnlyFrom, QosTypes
<1>3. ASSUME NEW p \in ClientBound', p.type = "PUBLISH"
      PROVE  /\ p.body \in 1..bSent /\ p.qos = BrokerQoS[p.body]
             /\ \A q \in ClientBound' :
                  q.type = "PUBLISH" /\ p.qos > 0 /\ q.qos > 0 /\ p.id = q.id => p.body = q.body
             /\ p.qos = 2 /\ p.id \in cRecvd => p.body \in Range(cGot)
  <2>1. PICK o \in ClientBound : o.type = "PUBLISH" /\ o.id = p.id /\ o.qos = p.qos /\ o.body = p.body
    BY <1>2, <1>3 DEF Same
  <2>2. /\ o.body \in 1..bSent /\ o.qos = BrokerQoS[o.body]
        /\ o.qos = 2 /\ o.id \in cRecvd => o.body \in Range(cGot)
    BY <2>1 DEF ArriveMessages
  <2>3. ASSUME NEW q \in ClientBound', q.type = "PUBLISH", p.qos > 0, q.qos > 0, p.id = q.id
        PROVE  p.body = q.body
    <3>1. PICK r \in ClientBound : r.type = "PUBLISH" /\ r.id = q.id /\ r.qos = q.qos /\ r.body = q.body
      BY <1>2, <2>3 DEF Same
    <3>2. QED
      BY <2>1, <2>3, <3>1 DEF ArriveMessages
  <2>4. QED
    BY <2>1, <2>2, <2>3
<1>4. \A e \in Range(bOut') : e.msg \in 1..bSent /\ BrokerQoS[e.msg] > 0
  BY <1>1, ShortSeqs DEF ArriveMessages
<1>5. QED
  BY <1>1, <1>3, <1>4 DEF ArriveMessages

\* What the proxy has of the client it has read, and it keeps no table without subscriptions.
LEMMA ProxyStages ==
  ASSUME TypeOK, StreamsOK', PeersKept, ArriveStages, Proxy
  PROVE  ArriveStages'
<1>1. StreamsOK /\ ControlOK /\ IsSeq(c2p) /\ IsSeq(snap.client_buf)
  BY DEF TypeOK, StreamsOK
<1>2. UNCHANGED <<cGot, cSubOps>>
  BY DEF PeersKept, clientVars
<1>3. (phase' = "connected" \/ (phase' = "frozen" /\ link' # "none")) => leftover' = << >>
  <2>1. CASE ForwardClientPacket \/ ForwardBrokerPacket
    BY <2>1 DEF ForwardClientPacket, ForwardBrokerPacket, ArriveStages
  <2>2. CASE InterceptDisconnect \/ BrokerEof \/ ClientGone \/ KeepaliveTimeout \/ EstablishFails
    BY <2>2 DEF InterceptDisconnect, BrokerEof, ClientGone, KeepaliveTimeout, EstablishFails, End
  <2>3. CASE service_outage_packet
    BY <2>3 DEF service_outage_packet, Push, End
  <2>4. CASE ConnectBroker \/ RecvConnack \/ RecvSuback \/ Replay
    BY <2>4 DEF ConnectBroker, RecvConnack, RecvSuback, Replay
  <2>5. CASE Freeze
    BY <1>1, <2>5 DEF Freeze, ControlOK, ArriveStages
  <2>6. CASE ResumeSession
    BY <2>6 DEF ResumeSession, ArriveStages
  <2>7. CASE adopt_session
    BY <2>7 DEF adopt_session
  <2>8. QED
    BY <2>1, <2>2, <2>3, <2>4, <2>5, <2>6, <2>7, Zenon DEF Proxy
<1>4. FromClient' \subseteq FromClient
  <2>1. CASE ForwardClientPacket \/ service_outage_packet
    BY <1>1, <2>1, TailElements DEF ForwardClientPacket, service_outage_packet, FromClient
  <2>2. CASE \/ ForwardBrokerPacket \/ InterceptDisconnect \/ BrokerEof \/ ClientGone
             \/ KeepaliveTimeout \/ EstablishFails \/ ConnectBroker \/ RecvConnack \/ RecvSuback
             \/ Replay
    BY <2>2 DEF ForwardBrokerPacket, InterceptDisconnect, BrokerEof, ClientGone, KeepaliveTimeout,
       EstablishFails, ConnectBroker, RecvConnack, RecvSuback, Replay, FromClient, streams
  <2>3. CASE Freeze
    <3>1. PICK i \in 0..Len(c2p) :
            snap'.client_buf = SubSeq(c2p, 1, i) /\ c2p' = SubSeq(c2p, i + 1, Len(c2p))
      BY <2>3 DEF Freeze
    <3>2. Len(c2p) \in Nat
      BY <1>1, SeqPlaces
    <3>3. Range(SubSeq(c2p, 1, i)) \subseteq Range(c2p)
      BY <1>1, <3>2, SubSeqElements
    <3>4. Range(SubSeq(c2p, i + 1, Len(c2p))) \subseteq Range(c2p)
      BY <1>1, <3>2, SubSeqElements
    <3>5. QED
      BY <3>1, <3>3, <3>4 DEF FromClient
  <2>4. CASE ResumeSession \/ adopt_session
    <3>1. c2p' = snap.client_buf \o c2p /\ snap'.client_buf = << >>
      BY <2>4 DEF ResumeSession, adopt_session, Restored, NoSnap
    <3>2. QED
      BY <1>1, <3>1, ConcatElements, ShortSeqs DEF FromClient
  <2>5. QED
    BY <2>1, <2>2, <2>3, <2>4, Zenon DEF Proxy
<1>5. ASSUME MaxSubOps = 0 PROVE subscriptions' = NoSubs
  <2>1. CASE ForwardClientPacket \/ service_outage_packet
    <3>1. c2p # << >> /\ subscriptions' = track(subscriptions, Head(c2p))
      BY <2>1 DEF ForwardClientPacket, service_outage_packet
    <3>2. Head(c2p) \in FromClient
      BY <1>1, <3>1, TailElements DEF FromClient
    <3>3. Head(c2p).type # "SUBSCRIBE" /\ Head(c2p).type # "UNSUBSCRIBE" /\ subscriptions = NoSubs
      BY <1>5, <3>2 DEF ArriveStages
    <3>4. track(subscriptions, Head(c2p)) = subscriptions
      BY <3>3, Zenon DEF track
    <3>5. QED
      BY <3>1, <3>3, <3>4
  <2>2. CASE adopt_session
    BY <1>1, <1>5, <2>2 DEF adopt_session, StreamsOK, ArriveStages
  <2>3. CASE \/ ForwardBrokerPacket \/ InterceptDisconnect \/ BrokerEof \/ ClientGone
             \/ KeepaliveTimeout \/ EstablishFails \/ ConnectBroker \/ RecvConnack \/ RecvSuback
             \/ Replay \/ Freeze \/ ResumeSession
    BY <1>5, <2>3 DEF ForwardBrokerPacket, InterceptDisconnect, BrokerEof, ClientGone,
       KeepaliveTimeout, EstablishFails, ConnectBroker, RecvConnack, RecvSuback, Replay, Freeze,
       ResumeSession, ArriveStages
  <2>4. QED
    BY <2>1, <2>2, <2>3, Zenon DEF Proxy
<1>6. ASSUME MaxSubOps = 0 PROVE phase' # "suback"
  <2>1. CASE RecvConnack
    BY <1>6, <2>1 DEF RecvConnack, resubscribe_packet, ArriveStages
  <2>2. CASE \/ ForwardClientPacket \/ ForwardBrokerPacket \/ InterceptDisconnect \/ BrokerEof
             \/ ClientGone \/ KeepaliveTimeout \/ EstablishFails \/ ConnectBroker \/ RecvSuback
             \/ Replay \/ Freeze \/ ResumeSession \/ adopt_session
    BY <2>2 DEF ForwardClientPacket, ForwardBrokerPacket, InterceptDisconnect, BrokerEof,
       ClientGone, KeepaliveTimeout, EstablishFails, ConnectBroker, RecvSuback, Replay, Freeze,
       ResumeSession, adopt_session, End
  <2>3. CASE service_outage_packet
    BY <2>3 DEF service_outage_packet, Push, End
  <2>4. QED
    BY <2>1, <2>2, <2>3, Zenon DEF Proxy
<1>7. DeliveredInOrder => DeliveredInOrder'
  BY <1>2 DEF DeliveredInOrder
<1>8. QED
  BY <1>2, <1>3, <1>4, <1>5, <1>6, <1>7 DEF ArriveStages

\* Only the broker accepts a connection.
LEMMA NoNewLink ==
  ASSUME Proxy
  PROVE  link' = "up" => link = "up"
BY DEF Proxy, ForwardClientPacket, ForwardBrokerPacket, InterceptDisconnect, BrokerEof, ClientGone,
       KeepaliveTimeout, service_outage_packet, ConnectBroker, RecvConnack, RecvSuback,
       EstablishFails, Replay, Freeze, ResumeSession, adopt_session, DropBroker, streams

\* All steps of the proxy.
LEMMA ProxyKeepsArriving ==
  ASSUME IInv, PassInv, ArriveInv, Proxy
  PROVE  ArriveInv'
<1>1. TypeOK /\ StreamsOK' /\ MovesOnly /\ PeersKept /\ StageInv
  BY ProxyStep, ProxyKeepsPeers DEF IInv, PassInv
<1>2. ArriveOrder /\ ArriveMessages /\ ArriveStages
  BY DEF ArriveInv
<1>3. \A p \in Range(b2p) : p.type = "PUBLISH" => p.qos \in 0..2
  BY DEF IInv, DeliverInv, BrokerFlow, ClientBound, ToClient
<1>4. link' = "up" => link = "up"
  BY NoNewLink
<1>5. ArriveOrder'
  BY <1>1, <1>2, <1>3, <1>4, PlainStepsArrive, ForwardBrokerArrives, InterceptArrives, RecvSubackArrives,
     ReplayArrives, FreezeArrives, Zenon DEF Proxy
<1>6. QED
  BY <1>1, <1>2, <1>5, MovesKeepArrived, ProxyStages DEF ArriveInv

\* A step of the client: together it and its socket have what they had.
LEMMA ClientArrives ==
  ASSUME StreamsOK, StreamsOK', ArriveOrder, UNCHANGED proxyVars, UNCHANGED <<b2p, bOut, link>>,
         Range(cGot') \cup Messages(p2c') = Range(cGot) \cup Messages(p2c),
         Continues(Range(cGot'), p2c')
  PROVE  ArriveOrder'
<1>1. InLine /\ UNCHANGED <<leftover, snap, windows>>
  BY OrderIs DEF ArriveOrder, proxyVars
<1>2. InLine'
  BY <1>1 DEF InLine
<1>3. Range(cGot') \cup OnWay' = Range(cGot) \cup OnWay
  BY <1>1 DEF OnWay
<1>4. Arrived' = Arrived /\ Continues(Range(cGot), Arriving)'
  BY <1>2, <1>3, OrderIs, OrderIsNext
<1>5. QED
  BY <1>1, <1>4 DEF ArriveOrder

\* A step of the broker: what it sends goes on behind what is on its way, and what it keeps
\* is of what it kept, or sent.
LEMMA BrokerArrives ==
  ASSUME StreamsOK, StreamsOK', ArriveOrder, UNCHANGED proxyVars, UNCHANGED <<p2c, cGot>>,
         \A Y : /\ Y = Range(cGot) \cup Messages(p2c) \cup Messages(leftover) \cup Messages(snap.broker_buf)
                /\ Continues(Y, b2p)
                => Continues(Y, b2p'),
         \A i, j \in DOMAIN bOut' : i < j => bOut'[i].msg < bOut'[j].msg,
         MaxSubOps = 0 =>
           \A e \in Range(bOut') :
             e.msg \in Arrived' \/ (link' # "up" /\ \A m \in Arrived' : m < e.msg)
  PROVE  ArriveOrder'
<1>1. InLine /\ UNCHANGED <<leftover, snap, windows>>
  BY OrderIs DEF ArriveOrder, proxyVars
<1>2. InLine'
  BY <1>1 DEF InLine
<1>3. Continues(Range(cGot), Arriving)'
  BY <1>2, OrderIsNext
<1>4. QED
  BY <1>1, <1>3 DEF ArriveOrder

\* Packets and messages still go together if the broker sends nothing but what it keeps.
LEMMA ArrivedKept ==
  ASSUME DeliverInv, ArriveMessages, bSent' = bSent,
         Range(cGot) \subseteq Range(cGot'), Range(cGot') \subseteq 1..bSent,
         \A p \in ClientBound' : p.type = "PUBLISH" =>
           \/ p \in ClientBound
           \/ \E e \in Range(bOut) : p.id = e.id /\ p.body = e.msg /\ p.qos = BrokerQoS[e.msg],
         \A e \in Range(bOut') : \E o \in Range(bOut) : e.msg = o.msg,
         \A id \in cRecvd' :
           \/ id \in cRecvd
           \/ \A p \in ClientBound' : p.type = "PUBLISH" /\ p.qos = 2 /\ p.id = id => p.body \in Range(cGot')
  PROVE  ArriveMessages'
<1> DEFINE Sent(p) == \E e \in Range(bOut) : p.id = e.id /\ p.body = e.msg /\ p.qos = BrokerQoS[e.msg]
<1>1. \A e \in Range(bOut') : e.msg \in 1..bSent /\ BrokerQoS[e.msg] > 0
  BY DEF ArriveMessages
<1>2. ASSUME NEW p \in ClientBound', p.type = "PUBLISH"
      PROVE  /\ p.body \in 1..bSent /\ p.qos = BrokerQoS[p.body]
             /\ \A q \in ClientBound' :
                  q.type = "PUBLISH" /\ p.qos > 0 /\ q.qos > 0 /\ p.id = q.id => p.body = q.body
             /\ p.qos = 2 /\ p.id \in cRecvd' => p.body \in Range(cGot')
  <2>1. p \in ClientBound \/ Sent(p)
    BY <1>2
  <2>2. p.body \in 1..bSent /\ p.qos = BrokerQoS[p.body]
    BY <1>2, <2>1 DEF ArriveMessages
  <2>3. ASSUME NEW q \in ClientBound', q.type = "PUBLISH", p.qos > 0, q.qos > 0, p.id = q.id
        PROVE  p.body = q.body
    <3>1. q \in ClientBound \/ Sent(q)
      BY <2>3
    <3>2. CASE p \in ClientBound /\ q \in ClientBound
      BY <1>2, <2>3, <3>2 DEF ArriveMessages
    <3>3. CASE p \in ClientBound /\ Sent(q)
      BY <1>2, <2>3, <3>3 DEF DeliverInv, BrokerFlow
    <3>4. CASE Sent(p) /\ q \in ClientBound
      BY <1>2, <2>3, <3>4 DEF DeliverInv, BrokerFlow
    <3>5. CASE Sent(p) /\ Sent(q)
      BY <2>3, <3>5 DEF DeliverInv, StoreOK
    <3>6. QED
      BY <2>1, <3>1, <3>2, <3>3, <3>4, <3>5
  <2>4. ASSUME p.qos = 2, p.id \in cRecvd' PROVE p.body \in Range(cGot')
    <3>1. CASE p.id \in cRecvd
      <4>1. CASE p \in ClientBound
        BY <1>2, <2>4, <3>1, <4>1 DEF ArriveMessages
      <4>2. CASE Sent(p)
        BY <3>1, <4>2 DEF DeliverInv, Received
      <4>3. QED
        BY <2>1, <4>1, <4>2
    <3>2. CASE p.id \notin cRecvd
      BY <1>2, <2>4, <3>2
    <3>3. QED
      BY <3>1, <3>2
  <2>5. QED
    BY <2>2, <2>3, <2>4
<1>3. QED
  BY <1>1, <1>2 DEF ArriveMessages

\* The stages see only what the client sends, and what it receives.
LEMMA PeerStages ==
  ASSUME ArriveStages, UNCHANGED proxyVars, cSubOps' \in Nat, link' = "none" <=> link = "none",
         MaxSubOps = 0 =>
           \A p \in Range(c2p') : p \in Range(c2p) \/ p.type \notin {"SUBSCRIBE", "UNSUBSCRIBE"},
         MaxSubOps = 0 /\ DeliveredInOrder => DeliveredInOrder'
  PROVE  ArriveStages'
<1>1. UNCHANGED <<phase, leftover, subscriptions, snap>>
  BY DEF proxyVars
<1>2. MaxSubOps = 0 =>
        \A p \in FromClient' : p \in FromClient \/ p.type \notin {"SUBSCRIBE", "UNSUBSCRIBE"}
  BY <1>1 DEF FromClient
<1>3. QED
  BY <1>1, <1>2 DEF ArriveStages

\* What the client sends on its own account does not touch what comes to it.
LEMMA ClientSendsArrives ==
  ASSUME IInv, IInv', ArriveInv, UNCHANGED proxyVars,
         UNCHANGED <<p2c, b2p, link, cRecvd, cGot, bOut, bSent>>, cSubOps' \in Nat,
         MaxSubOps = 0 =>
           \A p \in Range(c2p') : p \in Range(c2p) \/ p.type \notin {"SUBSCRIBE", "UNSUBSCRIBE"}
  PROVE  ArriveInv'
<1>1. ArriveOrder /\ ArriveMessages /\ ArriveStages /\ DeliverInv /\ StreamsOK /\ StreamsOK'
  BY DEF ArriveInv, IInv, TypeOK
<1>2. ClientBound' = ClientBound
  BY DEF ClientBound, ToClient, proxyVars
<1>3. ArriveOrder'
  <2>1. InLine
    BY <1>1, OrderIs DEF ArriveOrder
  <2>2. Continues(Range(cGot'), p2c')
    BY <2>1 DEF InLine
  <2>3. QED
    BY <1>1, <2>2, ClientArrives
<1>4. ArriveMessages'
  <2>1. Range(cGot) \subseteq 1..bSent
    BY <1>1 DEF ArriveMessages
  <2>2. QED
    BY <1>1, <1>2, <2>1, ArrivedKept
<1>5. DeliveredInOrder => DeliveredInOrder'
  BY DEF DeliveredInOrder
<1>6. QED
  BY <1>1, <1>3, <1>4, <1>5, PeerStages DEF ArriveInv

\* What the client sends on its own account is not on this way.
LEMMA ClientStepsArrive ==
  ASSUME IInv, IInv', ArriveInv, UNCHANGED proxyVars, ClientSteps
  PROVE  ArriveInv'
<1>1. cSubOps \in Nat /\ MaxSubOps \in Nat /\ IsSeq(c2p)
  BY EndpointsAssumption DEF ArriveInv, ArriveStages, IInv, TypeOK, StreamsOK
<1>2. ASSUME NEW p, NEW st, ClientSends(p, st)
      PROVE  /\ UNCHANGED <<p2c, b2p, link, cRecvd, cGot, bOut, bSent>>
             /\ Range(c2p') = Range(c2p) \cup {p}
  BY <1>1, <1>2, AppendElements DEF ClientSends, brokerVars
<1>3. CASE ClientPublish
  <2>1. PICK p, st : ClientSends(p, st) /\ p.type = "PUBLISH"
    <3>1. PICK id, q, m : ClientSends(PublishPkt(id, q, m), "pub")
      BY <1>3, Zenon DEF ClientPublish
    <3>2. PublishPkt(id, q, m).type = "PUBLISH"
      BY DEF PublishPkt, Packet
    <3>3. QED
      BY <3>1, <3>2
  <2>2. cSubOps' \in Nat
    BY <1>1, <1>3 DEF ClientPublish
  <2>3. /\ UNCHANGED <<p2c, b2p, link, cRecvd, cGot, bOut, bSent>>
        /\ \A q \in Range(c2p') : q \in Range(c2p) \/ q.type \notin {"SUBSCRIBE", "UNSUBSCRIBE"}
    BY <1>2, <2>1
  <2>4. QED
    BY <2>2, <2>3, ClientSendsArrives
<1>4. CASE ClientSubscribe \/ ClientUnsubscribe
  <2>1. PICK p, st : ClientSends(p, st)
    BY <1>4 DEF ClientSubscribe, ClientUnsubscribe
  <2>2. cSubOps < MaxSubOps /\ cSubOps' = cSubOps + 1
    BY <1>4 DEF ClientSubscribe, ClientUnsubscribe
  <2>3. cSubOps' \in Nat /\ MaxSubOps # 0
    BY <1>1, <2>2
  <2>4. QED
    BY <1>2, <2>1, <2>3, ClientSendsArrives
<1>5. CASE ClientPing
  <2>1. PICK p, st : ClientSends(p, st) /\ p.type = "PINGREQ"
    BY <1>5, OwnPackets DEF ClientPing
  <2>2. cSubOps' \in Nat
    BY <1>1, <1>5 DEF ClientPing
  <2>3. /\ UNCHANGED <<p2c, b2p, link, cRecvd, cGot, bOut, bSent>>
        /\ \A q \in Range(c2p') : q \in Range(c2p) \/ q.type \notin {"SUBSCRIBE", "UNSUBSCRIBE"}
    BY <1>2, <2>1
  <2>4. QED
    BY <2>2, <2>3, ClientSendsArrives
<1>6. CASE ClientLeave
  <2>1. PICK p : p = Pkt("DISCONNECT", NoId)
    OBVIOUS
  <2>2. p.type = "DISCONNECT" /\ Range(Append(c2p, p)) = Range(c2p) \cup {p}
    BY <1>1, <2>1, OwnPackets, AppendElements
  <2>3. /\ UNCHANGED <<p2c, b2p, link, cRecvd, cGot, bOut, bSent, cSubOps>>
        /\ c2p' = c2p \/ c2p' = Append(c2p, p)
    BY <1>6, <2>1 DEF ClientLeave, brokerVars
  <2>4. \A q \in Range(c2p') : q \in Range(c2p) \/ q.type \notin {"SUBSCRIBE", "UNSUBSCRIBE"}
    BY <2>2, <2>3
  <2>5. QED
    BY <1>1, <2>3, <2>4, ClientSendsArrives
<1>7. QED
  BY <1>3, <1>4, <1>5, <1>6 DEF ClientSteps

\* A message the client hands on again, or one newer than all before it, keeps the order.
LEMMA DeliveredInOrderMore ==
  ASSUME IsSeq(cGot), DeliveredInOrder, NEW m, cGot' = Append(cGot, m),
         m \in Range(cGot) \/ \A n \in Range(cGot) : n < m
  PROVE  DeliveredInOrder'
<1>1. /\ Len(cGot) \in Nat /\ DOMAIN cGot = 1..Len(cGot) /\ cGot \in Seq(Range(cGot))
      /\ \A i \in 1..Len(cGot) : cGot[i] \in Range(cGot)
      /\ \A n \in Range(cGot) : \E i \in 1..Len(cGot) : cGot[i] = n
  BY SeqPlaces DEF IsSeq
<1>2. /\ DOMAIN cGot' = 1..(Len(cGot) + 1) /\ cGot'[Len(cGot) + 1] = m
      /\ \A i \in 1..Len(cGot) : cGot'[i] = cGot[i]
  <2>0. PICK S : S = Range(cGot) \cup {m}
    OBVIOUS
  <2>1. cGot \in Seq(S) /\ m \in S
    BY <2>0, SeqPlaces DEF IsSeq
  <2>2. QED
    BY <1>1, <2>1
<1>3. ASSUME NEW i \in 1..(Len(cGot) + 1), NEW j \in 1..(Len(cGot) + 1), i < j,
             \A k \in 1..(j - 1) : cGot'[k] # cGot'[j]
      PROVE  cGot'[i] < cGot'[j]
  <2>1. i \in 1..Len(cGot)
    BY <1>1, <1>3
  <2>2. CASE j = Len(cGot) + 1
    <3>1. \A k \in 1..Len(cGot) : cGot[k] # m
      BY <1>1, <1>2, <1>3, <2>2
    <3>2. m \notin Range(cGot)
      BY <1>1, <3>1
    <3>3. QED
      BY <1>1, <1>2, <2>1, <2>2, <3>2
  <2>3. CASE j \in 1..Len(cGot)
    <3>1. \A k \in 1..(j - 1) : k \in 1..Len(cGot)
      BY <1>1, <2>3
    <3>2. \A k \in 1..(j - 1) : cGot[k] # cGot[j]
      BY <1>2, <1>3, <2>3, <3>1
    <3>3. QED
      BY <1>1, <1>2, <1>3, <2>1, <2>3, <3>2 DEF DeliveredInOrder
  <2>4. QED
    BY <1>1, <2>2, <2>3
<1>4. QED
  BY <1>2, <1>3 DEF DeliveredInOrder

\* The client reads a PUBLISH: now it has the message, or it had it.
LEMMA ClientOnPublishArrives ==
  ASSUME IInv, IInv', ArriveInv, UNCHANGED proxyVars, ClientOnPublish
  PROVE  ArriveInv'
<1>0. PICK p : p = Head(p2c)
  OBVIOUS
<1>1. /\ p2c # << >> /\ p.type = "PUBLISH" /\ ClientTakes(Answer(p))
      /\ cRecvd' = IF p.qos = 2 THEN cRecvd \cup {p.id} ELSE cRecvd
      /\ cGot' = IF p.qos < 2 \/ p.id \notin cRecvd THEN Append(cGot, p.body) ELSE cGot
  BY <1>0 DEF ClientOnPublish, HeadIs
<1>2. BrokerFlow(p) /\ IsSeq(cGot)
  BY <1>0, <1>1, ClientHead
<1>3. p.qos \in 0..2
  BY <1>1, <1>2 DEF BrokerFlow
<1>4. /\ IsSeq(Answer(p))
      /\ \A q \in Range(Answer(p)) : q.type \in {"PUBACK", "PUBREC"}
  BY <1>3, AnswerIs
<1>5. /\ StreamsOK /\ StreamsOK' /\ p \in ClientBound /\ IsSeq(c2p) /\ IsSeq(p2c)
      /\ \A q \in ClientBound' : q \in ClientBound
  BY <1>0, <1>1, <1>4, ClientTakesFrame DEF IInv, TypeOK, StreamsOK
<1>6. /\ p2c' = Tail(p2c) /\ c2p' = c2p \o Answer(p) /\ UNCHANGED <<b2p, link, cSubOps, bOut, bSent>>
  BY <1>1 DEF ClientTakes, brokerVars
<1>7. ArriveOrder /\ ArriveMessages /\ ArriveStages /\ DeliverInv
  BY DEF ArriveInv, IInv
<1>8. Range(cGot') = Range(cGot) \cup {p.body} /\ p.body \in 1..bSent
  <2>1. Range(Append(cGot, p.body)) = Range(cGot) \cup {p.body}
    BY <1>2, AppendElements
  <2>2. /\ p.body \in 1..bSent /\ p.qos = 2 /\ p.id \in cRecvd => p.body \in Range(cGot)
    BY <1>1, <1>5, <1>7 DEF ArriveMessages
  <2>3. p.body \in 1..bSent
    BY <1>1, <1>5, <1>7 DEF ArriveMessages
  <2>4. CASE p.qos < 2 \/ p.id \notin cRecvd
    BY <1>1, <2>1, <2>3, <2>4
  <2>5. CASE ~ (p.qos < 2 \/ p.id \notin cRecvd)
    BY <1>1, <1>3, <2>2, <2>3, <2>5
  <2>6. QED
    BY <2>4, <2>5
<1>9. /\ Messages(p2c) = {p.body} \cup Messages(Tail(p2c))
      /\ Continues(Range(cGot), <<p>>) /\ Continues(Range(cGot) \cup {p.body}, Tail(p2c))
  <2>1. Continues(Range(cGot), p2c)
    BY <1>5, <1>7, OrderIs DEF ArriveOrder, InLine
  <2>2. Messages(<<p>>) = {p.body}
    BY <1>1, ContinuesShort
  <2>3. PICK X : X = Range(cGot)
    OBVIOUS
  <2>4. /\ Messages(p2c) = Messages(<<p>>) \cup Messages(Tail(p2c))
        /\ Continues(X, p2c) <=> Continues(X, <<p>>) /\ Continues(X \cup Messages(<<p>>), Tail(p2c))
    BY <1>0, <1>1, <1>5, ContinuesTail
  <2>5. QED
    BY <2>1, <2>2, <2>3, <2>4
<1>10. ArriveOrder'
  <2>1. Range(cGot') \cup Messages(p2c') = Range(cGot) \cup Messages(p2c)
    BY <1>6, <1>8, <1>9
  <2>2. Continues(Range(cGot'), p2c')
    BY <1>6, <1>8, <1>9
  <2>3. QED
    BY <1>5, <1>6, <1>7, <2>1, <2>2, ClientArrives
<1>11. ArriveMessages'
  <2>1. Range(cGot) \subseteq Range(cGot') /\ Range(cGot') \subseteq 1..bSent
    BY <1>7, <1>8 DEF ArriveMessages
  <2>2. ASSUME NEW id \in cRecvd', id \notin cRecvd
        PROVE  \A q \in ClientBound' : q.type = "PUBLISH" /\ q.qos = 2 /\ q.id = id => q.body \in Range(cGot')
    <3>1. p.qos = 2 /\ id = p.id
      BY <1>1, <2>2
    <3>2. SUFFICES ASSUME NEW q \in ClientBound', q.type = "PUBLISH", q.qos = 2, q.id = id
                   PROVE  q.body \in Range(cGot')
      OBVIOUS
    <3>3. p.body = q.body
      BY <1>1, <1>5, <1>7, <3>1, <3>2 DEF ArriveMessages
    <3>4. QED
      BY <1>8, <3>3
  <2>3. QED
    BY <1>5, <1>6, <1>7, <2>1, <2>2, ArrivedKept
<1>12. MaxSubOps = 0 /\ DeliveredInOrder => DeliveredInOrder'
  <2>1. ASSUME MaxSubOps = 0 PROVE p.body \in Range(cGot) \/ \A n \in Range(cGot) : n < p.body
    BY <1>1, <1>9, <2>1, ContinuesShort
  <2>2. CASE cGot' = cGot
    BY <2>2 DEF DeliveredInOrder
  <2>3. CASE cGot' = Append(cGot, p.body)
    BY <1>2, <2>1, <2>3, DeliveredInOrderMore
  <2>4. QED
    BY <1>1, <2>2, <2>3
<1>13. ArriveStages'
  <2>1. \A q \in Range(c2p') : q \in Range(c2p) \/ q.type \notin {"SUBSCRIBE", "UNSUBSCRIBE"}
    BY <1>4, <1>5, <1>6, ConcatElements
  <2>2. cSubOps' \in Nat
    BY <1>6, <1>7 DEF ArriveStages
  <2>3. QED
    BY <1>6, <1>7, <1>12, <2>1, <2>2, PeerStages
<1>14. QED
  BY <1>10, <1>11, <1>13 DEF ArriveInv

\* The client reads another packet.
LEMMA ClientTakesArrives ==
  ASSUME IInv, IInv', ArriveInv, UNCHANGED proxyVars, p2c # << >>, Head(p2c).type # "PUBLISH",
         NEW reply, IsSeq(reply), ClientTakes(reply), cGot' = cGot, cRecvd' \subseteq cRecvd,
         \A q \in Range(reply) : q.type \notin {"SUBSCRIBE", "UNSUBSCRIBE"}
  PROVE  ArriveInv'
<1>5. /\ StreamsOK /\ StreamsOK' /\ IsSeq(c2p) /\ IsSeq(p2c)
      /\ \A q \in ClientBound' : q \in ClientBound
  BY ClientTakesFrame DEF IInv, TypeOK, StreamsOK
<1>6. /\ p2c' = Tail(p2c) /\ c2p' = c2p \o reply /\ UNCHANGED <<b2p, link, cSubOps, bOut, bSent>>
  BY DEF ClientTakes, brokerVars
<1>7. ArriveOrder /\ ArriveMessages /\ ArriveStages /\ DeliverInv
  BY DEF ArriveInv, IInv
<1>9. Messages(p2c) = Messages(Tail(p2c)) /\ Continues(Range(cGot), Tail(p2c))
  <2>1. Continues(Range(cGot), p2c)
    BY <1>5, <1>7, OrderIs DEF ArriveOrder, InLine
  <2>2. Messages(<<Head(p2c)>>) = {}
    BY ContinuesShort
  <2>3. PICK X : X = Range(cGot)
    OBVIOUS
  <2>4. /\ Messages(p2c) = Messages(<<Head(p2c)>>) \cup Messages(Tail(p2c))
        /\ Continues(X, p2c) => Continues(X \cup Messages(<<Head(p2c)>>), Tail(p2c))
    BY <1>5, ContinuesTail
  <2>5. X \cup Messages(<<Head(p2c)>>) = X
    BY <2>2
  <2>6. QED
    BY <2>1, <2>2, <2>3, <2>4, <2>5
<1>10. ArriveOrder'
  BY <1>5, <1>6, <1>7, <1>9, ClientArrives
<1>11. ArriveMessages'
  <2>1. Range(cGot) \subseteq 1..bSent
    BY <1>7 DEF ArriveMessages
  <2>2. QED
    BY <1>5, <1>6, <1>7, <2>1, ArrivedKept
<1>12. DeliveredInOrder => DeliveredInOrder'
  BY DEF DeliveredInOrder
<1>13. ArriveStages'
  <2>1. \A q \in Range(c2p') : q \in Range(c2p) \/ q.type \notin {"SUBSCRIBE", "UNSUBSCRIBE"}
    BY <1>5, <1>6, ConcatElements
  <2>2. cSubOps' \in Nat
    BY <1>6, <1>7 DEF ArriveStages
  <2>3. QED
    BY <1>6, <1>7, <1>12, <2>1, <2>2, PeerStages
<1>14. QED
  BY <1>10, <1>11, <1>13 DEF ArriveInv

\* All packets that the client reads.
LEMMA ClientReadsArrive ==
  ASSUME IInv, IInv', ArriveInv, UNCHANGED proxyVars, ClientReads
  PROVE  ArriveInv'
<1>1. CASE ClientOnPublish
  BY <1>1, ClientOnPublishArrives
<1>2. CASE ClientOnPubrel \/ ClientOnPubrec \/ ClientOnAck \/ ClientOnSuback \/ ClientOnPingresp
           \/ ClientOnDisconnect
  <2>1. /\ p2c # << >> /\ Head(p2c).type # "PUBLISH" /\ cGot' = cGot /\ cRecvd' \subseteq cRecvd
    BY <1>2 DEF ClientOnPubrel, ClientOnPubrec, ClientOnAck, ClientOnSuback, ClientOnPingresp,
                ClientOnDisconnect, HeadIs
  <2>2. PICK comp, rel : /\ comp = Pkt("PUBCOMP", Head(p2c).id) /\ rel = Pkt("PUBREL", Head(p2c).id)
    OBVIOUS
  <2>3. ClientTakes(<<comp>>) \/ ClientTakes(<<rel>>) \/ ClientTakes(<< >>)
    BY <1>2, <2>2, Zenon DEF ClientOnPubrel, ClientOnPubrec, ClientOnAck, ClientOnSuback, ClientOnPingresp,
                ClientOnDisconnect
  <2>4. comp.type = "PUBCOMP" /\ rel.type = "PUBREL"
    BY <2>2, OwnPackets
  <2>5. PICK reply : /\ IsSeq(reply) /\ ClientTakes(reply)
                     /\ \A q \in Range(reply) : q.type \notin {"SUBSCRIBE", "UNSUBSCRIBE"}
    BY <2>3, <2>4, ShortSeqs
  <2>6. QED
    BY <2>1, <2>5, ClientTakesArrives
<1>3. QED
  BY <1>1, <1>2 DEF ClientReads

\* The broker adds to what is on its way only packets other than PUBLISH, and to what it
\* keeps nothing.
LEMMA BrokerPlainArrives ==
  ASSUME IInv, IInv', ArriveInv, UNCHANGED proxyVars, UNCHANGED <<c2p, p2c, link, clientVars, bSent>>,
         NEW r, IsSeq(r), \A p \in Range(r) : p.type # "PUBLISH", b2p' = b2p \o r,
         \A i, j \in DOMAIN bOut' : i < j => bOut'[i].msg < bOut'[j].msg,
         \A e \in Range(bOut') : \E o \in Range(bOut) : e.msg = o.msg
  PROVE  ArriveInv'
<1>1. /\ ArriveOrder /\ ArriveMessages /\ ArriveStages /\ DeliverInv /\ StreamsOK /\ StreamsOK'
      /\ IsSeq(b2p)
  BY DEF ArriveInv, IInv, TypeOK, StreamsOK
<1>2. UNCHANGED <<cGot, cRecvd, cSubOps, leftover, snap, windows>>
  BY DEF clientVars, proxyVars
<1>3. Messages(b2p') = Messages(b2p) /\ \A Y : Continues(Y, b2p) => Continues(Y, b2p')
  BY <1>1, PlainMore
<1>4. Arrived' = Arrived
  <2>1. OnWay' = OnWay
    BY <1>2, <1>3 DEF OnWay
  <2>2. QED
    BY <1>1, <1>2, <2>1, OrderIs, OrderIsNext
<1>5. ArriveOrder'
  <2>1. MaxSubOps = 0 =>
          \A e \in Range(bOut') :
            e.msg \in Arrived' \/ (link' # "up" /\ \A m \in Arrived' : m < e.msg)
    BY <1>1, <1>4 DEF ArriveOrder
  <2>2. QED
    BY <1>1, <1>2, <1>3, <2>1, BrokerArrives
<1>6. ArriveMessages'
  <2>1. Range(b2p') = Range(b2p) \cup Range(r)
    BY <1>1, ConcatElements
  <2>2. \A p \in ClientBound' : p.type = "PUBLISH" => p \in ClientBound
    BY <1>2, <2>1 DEF ClientBound, ToClient
  <2>3. Range(cGot) \subseteq 1..bSent
    BY <1>1 DEF ArriveMessages
  <2>4. QED
    BY <1>1, <1>2, <2>2, <2>3, ArrivedKept
<1>7. ArriveStages'
  <2>1. (DeliveredInOrder => DeliveredInOrder') /\ cSubOps' \in Nat
    BY <1>1, <1>2 DEF DeliveredInOrder, ArriveStages
  <2>2. QED
    BY <1>1, <2>1, PeerStages
<1>8. QED
  BY <1>5, <1>6, <1>7 DEF ArriveInv

\* The broker reads a packet and answers it.
LEMMA BrokerAnswersArrive ==
  ASSUME IInv, IInv', ArriveInv, UNCHANGED proxyVars,
         BrokerOnPublish \/ BrokerOnPubrel \/ BrokerOnSubscribe \/ BrokerOnPing
  PROVE  ArriveInv'
<1>1. PICK r : IsSeq(r) /\ (\A p \in Range(r) : p.type # "PUBLISH") /\ BrokerTakes(r)
  <2>1. CASE BrokerOnPublish
    <3>1. PICK p : p = Head(p2b)
      OBVIOUS
    <3>2. p2b # << >> /\ p.type = "PUBLISH" /\ BrokerTakes(Answer(p))
      BY <2>1, <3>1 DEF BrokerOnPublish, HeadIs
    <3>3. ClientFlow(p)
      BY <3>1, <3>2, BrokerHead
    <3>4. p.qos \in 0..2
      BY <3>2, <3>3 DEF ClientFlow
    <3>5. IsSeq(Answer(p)) /\ \A q \in Range(Answer(p)) : q.type \in {"PUBACK", "PUBREC"}
      BY <3>4, AnswerIs
    <3>6. QED
      BY <3>2, <3>5
  <2>2. CASE BrokerOnPubrel \/ BrokerOnSubscribe \/ BrokerOnPing
    <3>0. PICK t, id : /\ t \in {"PUBCOMP", "SUBACK", "UNSUBACK", "PINGRESP"}
                       /\ BrokerTakes(<<Pkt(t, id)>>)
      BY <2>2 DEF BrokerOnPubrel, BrokerOnSubscribe, BrokerOnPing
    <3>1. PICK q : q.type \in {"PUBCOMP", "SUBACK", "UNSUBACK", "PINGRESP"} /\ BrokerTakes(<<q>>)
      BY <3>0, OwnPackets
    <3>2. IsSeq(<<q>>) /\ Range(<<q>>) = {q}
      BY ShortSeqs
    <3>3. QED
      BY <3>1, <3>2
  <2>3. QED
    BY <2>1, <2>2
<1>2. UNCHANGED <<c2p, p2c, clientVars, bSent, link>> /\ b2p' = b2p \o r
  BY <1>1 DEF BrokerTakes
<1>3. bOut' = bOut
  BY DEF BrokerOnPublish, BrokerOnPubrel, BrokerOnSubscribe, BrokerOnPing
<1>4. /\ \A i, j \in DOMAIN bOut' : i < j => bOut'[i].msg < bOut'[j].msg
      /\ \A e \in Range(bOut') : \E o \in Range(bOut) : e.msg = o.msg
  BY <1>3 DEF ArriveInv, ArriveOrder
<1>5. QED
  BY <1>1, <1>2, <1>4, BrokerPlainArrives

\* PUBREC turns an entry of the broker's store into one of the same message.
LEMMA BrokerOnPubrecArrives ==
  ASSUME IInv, IInv', ArriveInv, UNCHANGED proxyVars, BrokerOnPubrec
  PROVE  ArriveInv'
<1>1. PICK q : q.type = "PUBREL" /\ BrokerTakes(<<q>>)
  BY OwnPackets DEF BrokerOnPubrec
<1>2. IsSeq(<<q>>) /\ Range(<<q>>) = {q}
  BY ShortSeqs
<1>3. PICK r : IsSeq(r) /\ (\A p \in Range(r) : p.type # "PUBLISH") /\ BrokerTakes(r)
  BY <1>1, <1>2
<1>4. UNCHANGED <<c2p, p2c, clientVars, bSent, link>> /\ b2p' = b2p \o r
  BY <1>3 DEF BrokerTakes
<1>5. IsSeq(bOut) /\ IsSeq(bOut')
  BY DEF IInv, DeliverInv
<1>6. DOMAIN bOut' = DOMAIN bOut /\ \A i \in DOMAIN bOut : bOut'[i].msg = bOut[i].msg
  BY DEF BrokerOnPubrec
<1>7. \A i, j \in DOMAIN bOut' : i < j => bOut'[i].msg < bOut'[j].msg
  BY <1>6 DEF ArriveInv, ArriveOrder
<1>8. \A e \in Range(bOut') : \E o \in Range(bOut) : e.msg = o.msg
  BY <1>5, <1>6, SeqPlaces
<1>9. QED
  BY <1>3, <1>4, <1>7, <1>8, BrokerPlainArrives

\* An acknowledgement takes an entry out of the broker's store.
LEMMA BrokerOnAckArrives ==
  ASSUME IInv, IInv', ArriveInv, UNCHANGED proxyVars, BrokerOnAck
  PROVE  ArriveInv'
<1>0. PICK p : p = Head(p2b)
  OBVIOUS
<1> DEFINE done == {i \in Flow(p.id) :
                      IF p.type = "PUBACK"
                      THEN bOut[i].st = "pub" /\ BrokerQoS[bOut[i].msg] = 1
                      ELSE bOut[i].st = "rel"}
<1>1. BrokerTakes(<< >>) /\ bOut' = IF done = {} THEN bOut ELSE RemoveAt(bOut, Min(done))
  BY <1>0 DEF BrokerOnAck
<1>2. /\ IsSeq(bOut) /\ IsSeq(b2p)
      /\ \A i, j \in DOMAIN bOut : i < j => bOut[i].msg < bOut[j].msg
  BY DEF IInv, DeliverInv, TypeOK, StreamsOK, ArriveInv, ArriveOrder
<1>3. Len(bOut) \in Nat /\ DOMAIN bOut = 1..Len(bOut) /\ bOut \in Seq(Range(bOut))
      /\ \A i \in 1..Len(bOut) : bOut[i] \in Range(bOut)
  BY <1>2, SeqPlaces DEF IsSeq
<1>4. done \subseteq 1..Len(bOut)
  BY <1>3 DEF Flow
<1> HIDE DEF done
<1>5. /\ \A i, j \in DOMAIN bOut' : i < j => bOut'[i].msg < bOut'[j].msg
      /\ \A e \in Range(bOut') : \E o \in Range(bOut) : e.msg = o.msg
  <2>1. CASE done = {}
    BY <1>1, <1>2, <2>1
  <2>2. CASE done # {}
    <3>1. done \in SUBSET Nat
      BY <1>3, <1>4
    <3>2. \E m \in done : \A k \in done : m <= k
      BY <2>2, <3>1, LeastElement
    <3>3. Min(done) \in done
      BY <3>2, Zenon DEF Min
    <3>4. PICK k \in 1..Len(bOut) : bOut' = RemoveAt(bOut, k)
      BY <1>1, <1>4, <2>2, <3>3
    <3>5. /\ bOut' \in Seq(Range(bOut)) /\ Len(bOut') = Len(bOut) - 1
          /\ \A i \in 1..(Len(bOut) - 1) : bOut'[i] = IF i < k THEN bOut[i] ELSE bOut[i + 1]
      BY <1>3, <3>4, RemoveAtPlaces
    <3>6. Range(bOut') \subseteq Range(bOut) /\ DOMAIN bOut' = 1..(Len(bOut) - 1)
      BY <3>5, SeqOver
    <3>7. ASSUME NEW i \in DOMAIN bOut', NEW j \in DOMAIN bOut', i < j
          PROVE  bOut'[i].msg < bOut'[j].msg
      <4>1. PICK a, b \in 1..Len(bOut) : a < b /\ bOut'[i] = bOut[a] /\ bOut'[j] = bOut[b]
        BY <1>3, <3>4, <3>5, <3>6, <3>7
      <4>2. QED
        BY <1>2, <1>3, <4>1
    <3>8. QED
      BY <3>6, <3>7
  <2>3. QED
    BY <2>1, <2>2
<1>6. PICK r : r = << >> /\ IsSeq(r) /\ Range(r) = {}
  BY ShortSeqs
<1>7. UNCHANGED <<c2p, p2c, clientVars, bSent, link>> /\ b2p' = b2p \o r
  BY <1>1, <1>6 DEF BrokerTakes
<1>8. QED
  BY <1>5, <1>6, <1>7, BrokerPlainArrives

\* The connection ends: of what the broker sent, the end t may be lost, and nothing but a
\* DISCONNECT is added.
LEMMA BrokerCutArrives ==
  ASSUME IInv, IInv', ArriveInv, UNCHANGED proxyVars, UNCHANGED <<c2p, p2c, clientVars, bSent>>,
         link # "none", link' = "dead", bOut' = bOut \/ bOut' = << >>,
         NEW c, IsSeq(c), NEW t, IsSeq(t), NEW r, IsSeq(r), \A p \in Range(r) : p.type # "PUBLISH",
         b2p = c \o t, b2p' = c \o r
  PROVE  ArriveInv'
<1>1. ArriveOrder /\ ArriveMessages /\ ArriveStages /\ DeliverInv /\ StreamsOK /\ StreamsOK'
  BY DEF ArriveInv, IInv, TypeOK
<1>2. UNCHANGED <<cGot, cRecvd, cSubOps, leftover, snap, windows>>
  BY DEF clientVars, proxyVars
<1>3. PICK Y : Y = Range(cGot) \cup Messages(p2c) \cup Messages(leftover) \cup Messages(snap.broker_buf)
  OBVIOUS
<1>4. Messages(b2p') = Messages(c) /\ (Continues(Y, c) => Continues(Y, b2p'))
  BY PlainMore
<1>5. /\ Messages(b2p) = Messages(c) \cup Messages(t)
      /\ Continues(Y, b2p) <=> Continues(Y, c) /\ Continues(Y \cup Messages(c), t)
  BY PublishedConcat, ContinuesConcat
<1>6. Continues(Y, b2p)
  BY <1>1, <1>3, OrderIs DEF ArriveOrder, InLine
<1>7. Arrived = Y \cup Messages(c) \cup Messages(t) /\ Arrived' = Y \cup Messages(c)
  <2>1. OnWay = Messages(p2c) \cup Messages(leftover) \cup Messages(snap.broker_buf) \cup
                Messages(c) \cup Messages(t)
    BY <1>5 DEF OnWay
  <2>2. OnWay' = Messages(p2c) \cup Messages(leftover) \cup Messages(snap.broker_buf) \cup Messages(c)
    BY <1>2, <1>4 DEF OnWay
  <2>3. Arrived = Range(cGot) \cup OnWay /\ Arrived' = Range(cGot) \cup OnWay'
    BY <1>1, <1>2, OrderIs, OrderIsNext
  <2>4. QED
    BY <1>3, <2>1, <2>2, <2>3
<1>8. ASSUME MaxSubOps = 0, NEW e \in Range(bOut')
      PROVE  e.msg \in Arrived' \/ (link' # "up" /\ \A m \in Arrived' : m < e.msg)
  <2>1. e \in Range(bOut)
    BY <1>8, ShortSeqs
  <2>2. e.msg \in Arrived \/ \A m \in Arrived : m < e.msg
    BY <1>1, <1>8, <2>1 DEF ArriveOrder
  <2>3. CASE e.msg \in Messages(t) /\ e.msg \notin Arrived'
    <3>1. PICK X : X = Y \cup Messages(c)
      OBVIOUS
    <3>2. Continues(X, t) /\ e.msg \notin X
      BY <1>5, <1>6, <1>7, <2>3, <3>1
    <3>3. \A n \in X : n < e.msg
      BY <1>8, <2>3, <3>2, FirstIsNewest
    <3>4. QED
      BY <1>7, <3>1, <3>3
  <2>4. QED
    BY <1>7, <2>2, <2>3
<1>9. ArriveOrder'
  <2>1. \A i, j \in DOMAIN bOut' : i < j => bOut'[i].msg < bOut'[j].msg
    BY <1>1 DEF ArriveOrder
  <2>2. \A Z : Z = Y /\ Continues(Z, b2p) => Continues(Z, b2p')
    BY <1>4, <1>5
  <2>3. QED
    BY <1>1, <1>2, <1>3, <1>8, <2>1, <2>2, BrokerArrives
<1>10. ArriveMessages'
  <2>1. Range(b2p') = Range(c) \cup Range(r) /\ Range(b2p) = Range(c) \cup Range(t)
    BY ConcatElements
  <2>2. \A p \in ClientBound' : p.type = "PUBLISH" => p \in ClientBound
    BY <1>2, <2>1 DEF ClientBound, ToClient
  <2>3. Range(cGot) \subseteq 1..bSent
    BY <1>1 DEF ArriveMessages
  <2>4. \A e \in Range(bOut') : \E o \in Range(bOut) : e.msg = o.msg
    BY ShortSeqs
  <2>5. QED
    BY <1>1, <1>2, <2>2, <2>3, <2>4, ArrivedKept
<1>11. ArriveStages'
  <2>1. (DeliveredInOrder => DeliveredInOrder') /\ cSubOps' \in Nat
    BY <1>1, <1>2 DEF DeliveredInOrder, ArriveStages
  <2>2. QED
    BY <1>1, <2>1, PeerStages
<1>12. QED
  BY <1>9, <1>10, <1>11 DEF ArriveInv

\* A closed connection loses the end of the line, nothing in between.
LEMMA BrokerClosesArrives ==
  ASSUME IInv, IInv', ArriveInv, UNCHANGED proxyVars, BrokerOnDisconnect \/ BrokerCloses
  PROVE  ArriveInv'
<1>1. /\ UNCHANGED <<c2p, p2c, clientVars, bSent>> /\ link # "none" /\ link' = "dead"
      /\ bOut' = bOut \/ bOut' = << >>
  BY DEF BrokerOnDisconnect, BrokerCloses, Forget, Keep, Alive
<1>2. IsSeq(b2p) /\ b2p \in Seq(Range(b2p)) /\ Len(b2p) \in Nat
  BY SeqPlaces DEF IInv, TypeOK, StreamsOK, IsSeq
<1>3. PICK none : none = << >> /\ IsSeq(none) /\ Range(none) = {}
  BY ShortSeqs
<1>4. b2p = b2p \o none
  BY <1>2, <1>3
<1>5. \/ b2p' = b2p
      \/ \E k \in 0..Len(b2p) : b2p' = SubSeq(b2p, 1, k)
      \/ \E cause : b2p' = Append(b2p, PktWith("DISCONNECT", NoId, cause))
  BY DEF BrokerOnDisconnect, BrokerCloses
<1>6. CASE b2p' = b2p
  <2>1. b2p' = b2p \o none
    BY <1>4, <1>6
  <2>2. QED
    BY <1>1, <1>2, <1>3, <1>4, <2>1, BrokerCutArrives
<1>7. CASE \E k \in 0..Len(b2p) : b2p' = SubSeq(b2p, 1, k)
  <2>1. PICK k \in 0..Len(b2p) : b2p' = SubSeq(b2p, 1, k)
    BY <1>7
  <2>2. PICK c, t : c = SubSeq(b2p, 1, k) /\ t = SubSeq(b2p, k + 1, Len(b2p))
    OBVIOUS
  <2>3. IsSeq(c) /\ IsSeq(t)
    <3>1. k \in Nat /\ k <= Len(b2p) /\ k + 1 \in Nat /\ 1 <= k + 1
      BY <1>2, <2>1
    <3>2. QED
      BY <1>2, <2>2, <3>1, SubSeqElements
  <2>4. b2p = c \o t
    BY <1>2, <2>1, <2>2, CutSeq
  <2>5. b2p' = c \o none
    BY <1>3, <2>1, <2>2, <2>3 DEF IsSeq
  <2>6. QED
    BY <1>1, <1>3, <2>3, <2>4, <2>5, BrokerCutArrives
<1>8. CASE \E cause : b2p' = Append(b2p, PktWith("DISCONNECT", NoId, cause))
  <2>1. PICK d : d.type = "DISCONNECT" /\ b2p' = Append(b2p, d)
    BY <1>8, OwnPackets
  <2>2. PICK r : r = <<d>>
    OBVIOUS
  <2>3. IsSeq(r) /\ Range(r) = {d}
    BY <2>2, ShortSeqs
  <2>4. b2p' = b2p \o r
    BY <1>2, <2>1, <2>2, AppendIsConcat
  <2>5. QED
    BY <1>1, <1>2, <1>3, <1>4, <2>1, <2>3, <2>4, BrokerCutArrives
<1>9. QED
  BY <1>5, <1>6, <1>7, <1>8

\* What is on its way, or reached the client, was published before.
LEMMA ArrivedBefore ==
  ASSUME StreamsOK, ArriveMessages
  PROVE  Arrived \subseteq 1..bSent
<1>1. IsSeq(p2c) /\ IsSeq(leftover) /\ IsSeq(snap.broker_buf) /\ IsSeq(b2p)
  BY DEF StreamsOK
<1>2. Messages(p2c) \subseteq 1..bSent /\ Messages(leftover) \subseteq 1..bSent
  BY <1>1, MessagesIn DEF ArriveMessages, ClientBound, ToClient
<1>3. Messages(snap.broker_buf) \subseteq 1..bSent /\ Messages(b2p) \subseteq 1..bSent
  BY <1>1, MessagesIn DEF ArriveMessages, ClientBound, ToClient
<1>4. Range(cGot) \subseteq 1..bSent
  BY DEF ArriveMessages
<1>5. QED
  BY <1>2, <1>3, <1>4, OrderIs DEF OnWay

\* The broker's next message is newer than all before, and its id is new.
LEMMA BrokerPublishArrives ==
  ASSUME IInv, IInv', ~ Reuse, ArriveInv, UNCHANGED proxyVars, BrokerPublish
  PROVE  ArriveInv'
<1>0. PICK m, q : m = bSent + 1 /\ q = BrokerQoS[m]
  OBVIOUS
<1>1. PICK id \in (IF q = 0 THEN {NoId} ELSE NextIds({bOut[i].id : i \in DOMAIN bOut}, bIds)) :
        /\ b2p' = Append(b2p, PublishPkt(id, q, m))
        /\ bOut' = IF q = 0 THEN bOut ELSE Append(bOut, [id |-> id, msg |-> m, st |-> "pub"])
  BY <1>0 DEF BrokerPublish
<1>2. /\ link = "up" /\ bSent < Len(BrokerQoS) /\ bSent' = m
      /\ UNCHANGED <<c2p, p2c, link, cRecvd, cGot, cSubOps, clientVars>>
  BY <1>0 DEF BrokerPublish, clientVars
<1>3. PICK p, e : p = PublishPkt(id, q, m) /\ e = [id |-> id, msg |-> m, st |-> "pub"]
  OBVIOUS
<1>4. /\ p.type = "PUBLISH" /\ p.id = id /\ p.qos = q /\ p.body = m /\ e.msg = m
  BY <1>3 DEF PublishPkt, Packet
<1>5. /\ ArriveOrder /\ ArriveMessages /\ ArriveStages /\ DeliverInv /\ StreamsOK /\ StreamsOK'
      /\ IsSeq(b2p) /\ IsSeq(bOut) /\ bSent \in Nat /\ UNCHANGED <<leftover, snap, windows>>
      /\ bIds \in Nat /\ bSent \in 0..Len(BrokerQoS) /\ Len(BrokerQoS) \in Nat /\ BrokerQoS \in Seq(0..2)
  BY EndpointsAssumption DEF ArriveInv, IInv, TypeOK, StreamsOK, DeliverInv, proxyVars
<1>6. m \in 1..Len(BrokerQoS) /\ m \in Nat
  BY <1>0, <1>2, <1>5
<1>7. q \in 0..2
  BY <1>0, <1>5, <1>6
<1>8. q # 0 => id = bIds + 1
  BY <1>1, FreshId
<1>9. Range(b2p') = Range(b2p) \cup {p} /\ b2p' = Append(b2p, p)
  BY <1>1, <1>3, <1>5, AppendElements
<1>10. \A n \in Arrived : n < m
  BY <1>0, <1>5, ArrivedBefore
<1>11. PICK Y : Y = Range(cGot) \cup Messages(p2c) \cup Messages(leftover) \cup Messages(snap.broker_buf)
  OBVIOUS
<1>12. Arrived = Y \cup Messages(b2p)
  BY <1>5, <1>11, OrderIs DEF OnWay
<1>13. /\ Messages(b2p') = Messages(b2p) \cup {m}
       /\ Continues(Y, b2p) => Continues(Y, b2p')
  <2>1. Messages(<<p>>) = {m}
    BY <1>4, ContinuesShort
  <2>2. Continues(Y \cup Messages(b2p), <<p>>)
    BY <1>4, <1>10, <1>12, ContinuesShort
  <2>3. /\ Messages(b2p') = Messages(b2p) \cup Messages(<<p>>)
        /\ Continues(Y, b2p') <=> Continues(Y, b2p) /\ Continues(Y \cup Messages(b2p), <<p>>)
    BY <1>5, <1>9, PlainMore
  <2>4. QED
    BY <2>1, <2>2, <2>3
<1>14. Arrived' = Arrived \cup {m}
  <2>1. OnWay' = Messages(p2c) \cup Messages(leftover) \cup Messages(snap.broker_buf) \cup
                 (Messages(b2p) \cup {m})
    BY <1>2, <1>5, <1>13 DEF OnWay
  <2>2. Arrived' = Range(cGot) \cup OnWay'
    BY <1>2, <1>5, OrderIsNext
  <2>3. QED
    BY <1>11, <1>12, <2>1, <2>2
<1>15. \A f \in Range(bOut') : f \in Range(bOut) \/ (q # 0 /\ f = e)
  <2>1. Range(Append(bOut, e)) = Range(bOut) \cup {e}
    BY <1>5, AppendElements
  <2>2. bOut' = IF q = 0 THEN bOut ELSE Append(bOut, e)
    BY <1>1, <1>3
  <2>3. QED
    BY <2>1, <2>2
<1>16. \A i, j \in DOMAIN bOut' : i < j => bOut'[i].msg < bOut'[j].msg
  <2>1. CASE q = 0
    BY <1>1, <1>5, <2>1 DEF ArriveOrder
  <2>2. CASE q # 0
    <3>1. Len(bOut) \in Nat /\ DOMAIN bOut = 1..Len(bOut) /\ \A i \in 1..Len(bOut) : bOut[i] \in Range(bOut)
      BY <1>5, SeqPlaces
    <3>2. \A i \in 1..Len(bOut) : bOut[i].msg < m
      BY <1>0, <1>5, <3>1 DEF ArriveMessages
    <3>3. /\ DOMAIN bOut' = 1..(Len(bOut) + 1) /\ bOut'[Len(bOut) + 1] = e
          /\ \A i \in 1..Len(bOut) : bOut'[i] = bOut[i]
      <4>1. PICK S : S = Range(bOut) \cup {e}
        OBVIOUS
      <4>2. bOut \in Seq(S) /\ e \in S /\ bOut' = Append(bOut, e)
        BY <1>1, <1>3, <1>5, <2>2, <4>1, SeqPlaces DEF IsSeq
      <4>3. QED
        BY <3>1, <4>2
    <3>4. ASSUME NEW i \in 1..(Len(bOut) + 1), NEW j \in 1..(Len(bOut) + 1), i < j
          PROVE  bOut'[i].msg < bOut'[j].msg
      <4>1. i \in 1..Len(bOut)
        BY <3>1, <3>4
      <4>2. CASE j = Len(bOut) + 1
        BY <1>4, <3>2, <3>3, <4>1, <4>2
      <4>3. CASE j \in 1..Len(bOut)
        <5>1. bOut[i].msg < bOut[j].msg
          BY <1>5, <3>1, <3>4, <4>1, <4>3 DEF ArriveOrder
        <5>2. QED
          BY <3>3, <4>1, <4>3, <5>1
      <4>4. QED
        BY <3>1, <4>2, <4>3
    <3>5. QED
      BY <3>3, <3>4
  <2>3. QED
    BY <2>1, <2>2
<1>17. ArriveOrder'
  <2>1. MaxSubOps = 0 =>
          \A f \in Range(bOut') :
            f.msg \in Arrived' \/ (link' # "up" /\ \A n \in Arrived' : n < f.msg)
    BY <1>2, <1>4, <1>5, <1>14, <1>15 DEF ArriveOrder
  <2>2. \A Z : Z = Y /\ Continues(Z, b2p) => Continues(Z, b2p')
    BY <1>13
  <2>3. QED
    BY <1>2, <1>5, <1>11, <1>16, <2>1, <2>2, BrokerArrives
<1>18. ArriveMessages'
  <2>1. \A x \in ClientBound' : x \in ClientBound \/ x = p
    BY <1>2, <1>5, <1>9 DEF ClientBound, ToClient
  <2>2. \A n \in 1..bSent : n \in 1..bSent'
    BY <1>0, <1>2, <1>5
  <2>3. m \in 1..bSent'
    BY <1>2, <1>6
  <2>4. \A f \in Range(bOut') : f.msg \in 1..bSent' /\ BrokerQoS[f.msg] > 0
    BY <1>0, <1>4, <1>5, <1>7, <1>15, <2>2, <2>3 DEF ArriveMessages
  <2>5. \A x \in ClientBound : x.type = "PUBLISH" /\ x.qos > 0 /\ q > 0 => x.id # p.id
    <3>1. \A x \in ClientBound : x.type = "PUBLISH" /\ x.qos > 0 => x.id \in 1..bIds
      BY <1>5 DEF DeliverInv, BrokerFlow
    <3>2. q > 0 => p.id = bIds + 1
      BY <1>4, <1>7, <1>8
    <3>3. QED
      BY <1>5, <3>1, <3>2
  <2>6. q = 2 => p.id \notin cRecvd
    <3>1. \A i \in cRecvd : i \in 1..bIds
      BY <1>5 DEF DeliverInv
    <3>2. QED
      BY <1>4, <1>5, <1>8, <3>1
  <2>7. ASSUME NEW x \in ClientBound', x.type = "PUBLISH"
        PROVE  /\ x.body \in 1..bSent' /\ x.qos = BrokerQoS[x.body]
               /\ \A y \in ClientBound' :
                    y.type = "PUBLISH" /\ x.qos > 0 /\ y.qos > 0 /\ x.id = y.id => x.body = y.body
               /\ x.qos = 2 /\ x.id \in cRecvd' => x.body \in Range(cGot')
    <3>1. CASE x = p
      BY <1>0, <1>2, <1>4, <2>1, <2>3, <2>5, <2>6, <3>1
    <3>2. CASE x \in ClientBound
      <4>1. /\ x.body \in 1..bSent /\ x.qos = BrokerQoS[x.body]
            /\ \A y \in ClientBound :
                 y.type = "PUBLISH" /\ x.qos > 0 /\ y.qos > 0 /\ x.id = y.id => x.body = y.body
        BY <1>5, <2>7, <3>2 DEF ArriveMessages
      <4>2. x.qos = 2 /\ x.id \in cRecvd => x.body \in Range(cGot)
        BY <1>5, <2>7, <3>2 DEF ArriveMessages
      <4>3. \A y \in ClientBound' :
              y.type = "PUBLISH" /\ x.qos > 0 /\ y.qos > 0 /\ x.id = y.id => x.body = y.body
        BY <1>4, <2>1, <2>5, <2>7, <3>2, <4>1
      <4>4. QED
        BY <1>2, <2>2, <4>1, <4>2, <4>3
    <3>3. QED
      BY <2>1, <3>1, <3>2
  <2>8. Range(cGot') \subseteq 1..bSent'
    BY <1>2, <1>5, <2>2 DEF ArriveMessages
  <2>9. QED
    BY <2>4, <2>7, <2>8 DEF ArriveMessages
<1>19. ArriveStages'
  <2>1. (DeliveredInOrder => DeliveredInOrder') /\ cSubOps' \in Nat
    BY <1>2, <1>5 DEF DeliveredInOrder, ArriveStages
  <2>2. QED
    BY <1>2, <1>5, <2>1, PeerStages
<1>20. QED
  BY <1>17, <1>18, <1>19 DEF ArriveInv

\* What the broker sends again: the messages of its store, in order, marked.
LEMMA RedeliveryPackets ==
  ASSUME IsSeq(bOut)
  PROVE  /\ Len(Redelivery(bOut)) = Len(bOut)
         /\ \A i \in 1..Len(bOut) :
              LET q == Redelivery(bOut)[i]
                  e == bOut[i]
              IN  /\ q.type = "PUBLISH" <=> e.st = "pub"
                  /\ q.type = "PUBLISH" =>
                       q.id = e.id /\ q.body = e.msg /\ q.qos = BrokerQoS[e.msg] /\ q.dup
                  /\ e.st # "pub" => q.type = "PUBREL" /\ q.id = e.id
<1> DEFINE again(i) == IF bOut[i].st = "pub"
                       THEN with_dup(PublishPkt(bOut[i].id, BrokerQoS[bOut[i].msg], bOut[i].msg))
                       ELSE Pkt("PUBREL", bOut[i].id)
<1>1. Len(bOut) \in Nat /\ DOMAIN bOut = 1..Len(bOut)
  BY SeqPlaces
<1>2. Redelivery(bOut) = [i \in 1..Len(bOut) |-> again(i)]
  BY <1>1 DEF Redelivery
<1>3. ASSUME NEW i \in 1..Len(bOut)
      PROVE  /\ again(i).type = "PUBLISH" <=> bOut[i].st = "pub"
             /\ again(i).type = "PUBLISH" =>
                  /\ again(i).id = bOut[i].id /\ again(i).body = bOut[i].msg
                  /\ again(i).qos = BrokerQoS[bOut[i].msg] /\ again(i).dup
             /\ bOut[i].st # "pub" => again(i).type = "PUBREL" /\ again(i).id = bOut[i].id
  <2>1. CASE bOut[i].st = "pub"
    BY <2>1 DEF with_dup, PublishPkt, Packet
  <2>2. CASE bOut[i].st # "pub"
    BY <2>2, OwnPackets
  <2>3. QED
    BY <2>1, <2>2
<1> HIDE DEF again
<1>4. Len(Redelivery(bOut)) = Len(bOut)
  BY <1>1, <1>2
<1>5. QED
  BY <1>2, <1>3, <1>4

\* What the broker redelivers continues the line.
LEMMA RedeliveryContinues ==
  ASSUME DeliverInv, ArriveMessages, NEW Y,
         \A i, j \in DOMAIN bOut : i < j => bOut[i].msg < bOut[j].msg,
         MaxSubOps = 0 => \A e \in Range(bOut) : e.msg \in Y \/ \A m \in Y : m < e.msg
  PROVE  Continues(Y, Redelivery(bOut))
<1>1. /\ IsSeq(bOut) /\ Len(bOut) \in Nat /\ DOMAIN bOut = 1..Len(bOut)
      /\ \A i \in 1..Len(bOut) : bOut[i] \in Range(bOut)
  BY SeqPlaces DEF DeliverInv
<1>2. PICK r : r = Redelivery(bOut)
  OBVIOUS
<1>3. /\ Len(r) = Len(bOut)
      /\ \A i \in 1..Len(bOut) : r[i].type = "PUBLISH" =>
           r[i].body = bOut[i].msg /\ r[i].qos = BrokerQoS[bOut[i].msg] /\ r[i].dup
  BY <1>1, <1>2, RedeliveryPackets
<1>4. ASSUME NEW j \in 1..Len(r), r[j].type = "PUBLISH"
      PROVE  \/ \A m \in Y \cup Published(r, j - 1) : m < r[j].body
             \/ r[j].dup /\ r[j].qos > 0 /\ (MaxSubOps = 0 => r[j].body \in Y \cup Published(r, j - 1))
  <2>1. j \in 1..Len(bOut) /\ j \in Nat /\ bOut[j] \in Range(bOut)
    BY <1>1, <1>3
  <2>2. r[j].body = bOut[j].msg /\ r[j].dup /\ r[j].qos > 0
    BY <1>3, <1>4, <2>1 DEF ArriveMessages
  <2>3. \A m \in Published(r, j - 1) : m < r[j].body
    <3>1. SUFFICES ASSUME NEW k \in 1..(j - 1), r[k].type = "PUBLISH" PROVE r[k].body < r[j].body
      BY DEF Published
    <3>2. k \in 1..Len(bOut) /\ k < j
      BY <1>1, <2>1, <3>1
    <3>3. QED
      BY <1>1, <1>3, <2>1, <2>2, <3>1, <3>2
  <2>4. MaxSubOps = 0 => r[j].body \in Y \/ \A m \in Y : m < r[j].body
    BY <2>1, <2>2
  <2>5. QED
    BY <2>2, <2>3, <2>4
<1>5. QED
  BY <1>2, <1>4 DEF Continues

\* The broker resumes the session, or starts an empty one.
LEMMA BrokerOnConnectArrives ==
  ASSUME IInv, IInv', StageInv, ArriveInv, UNCHANGED proxyVars, BrokerOnConnect
  PROVE  ArriveInv'
<1>0. PICK first : first = << Pkt("CONNACK", NoId) >>
  OBVIOUS
<1>1. /\ link = "syn" /\ link' = "up" /\ UNCHANGED <<c2p, p2c, bSent, clientVars>>
      /\ \/ bOut' = << >> /\ b2p' = first
         \/ bOut' = bOut /\ b2p' = first \o Redelivery(bOut)
  BY <1>0 DEF BrokerOnConnect, Forget, Keep
<1>2. /\ ArriveOrder /\ ArriveMessages /\ ArriveStages /\ DeliverInv /\ StreamsOK /\ StreamsOK'
      /\ IsSeq(b2p) /\ IsSeq(snap.broker_buf) /\ IsSeq(bOut) /\ StoreOK
      /\ UNCHANGED <<cGot, cRecvd, cSubOps, leftover, snap, windows>>
  BY <1>1 DEF ArriveInv, IInv, TypeOK, StreamsOK, DeliverInv, proxyVars, clientVars
<1>3. b2p = << >> /\ snap.broker_buf = << >> /\ Range(b2p) = {}
  <2>1. Range(b2p) = {} /\ Range(snap.broker_buf) = {}
    BY <1>1 DEF StageInv, FromBrokerSocket
  <2>2. QED
    BY <1>2, <2>1, NothingInside
<1>4. /\ IsSeq(first) /\ Range(first) = {Pkt("CONNACK", NoId)} /\ \A p \in Range(first) : p.type = "CONNACK"
  BY <1>0, ShortSeqs, OwnPackets
<1>5. Messages(first) = {} /\ \A Y : Continues(Y, first)
  BY <1>4, PlainContinue
<1>6. PICK Y, r :
        /\ Y = Range(cGot) \cup Messages(p2c) \cup Messages(leftover) \cup Messages(snap.broker_buf)
        /\ r = Redelivery(bOut)
  OBVIOUS
<1>7. Arrived = Y /\ Arrived' = Y \cup Messages(b2p')
  <2>1. Messages(b2p) = {}
    BY <1>3, ContinuesShort
  <2>2. /\ OnWay = Messages(p2c) \cup Messages(leftover) \cup Messages(snap.broker_buf)
        /\ OnWay' = Messages(p2c) \cup Messages(leftover) \cup Messages(snap.broker_buf) \cup Messages(b2p')
    BY <1>1, <1>2, <2>1 DEF OnWay
  <2>3. Arrived = Range(cGot) \cup OnWay /\ Arrived' = Range(cGot) \cup OnWay'
    BY <1>2, OrderIs, OrderIsNext
  <2>4. QED
    BY <1>6, <2>2, <2>3
<1>8. /\ IsSeq(r) /\ Continues(Y, r) /\ Len(r) = Len(bOut)
      /\ \A i \in 1..Len(bOut) :
           /\ r[i].type = "PUBLISH" <=> bOut[i].st = "pub"
           /\ r[i].type = "PUBLISH" =>
                r[i].id = bOut[i].id /\ r[i].body = bOut[i].msg /\ r[i].qos = BrokerQoS[bOut[i].msg]
  <2>1. IsSeq(r)
    BY <1>2, <1>6, RedeliveryIs
  <2>2. /\ \A i, j \in DOMAIN bOut : i < j => bOut[i].msg < bOut[j].msg
        /\ MaxSubOps = 0 => \A e \in Range(bOut) : e.msg \in Y \/ \A m \in Y : m < e.msg
    BY <1>2, <1>7 DEF ArriveOrder
  <2>3. Continues(Y, r)
    BY <1>2, <1>6, <2>2, RedeliveryContinues
  <2>4. QED
    BY <1>2, <1>6, <2>1, <2>3, RedeliveryPackets
<1>9. Continues(Y, b2p')
  <2>1. Y \cup Messages(first) = Y
    BY <1>5
  <2>2. Continues(Y, first \o r) <=> Continues(Y, first) /\ Continues(Y \cup Messages(first), r)
    BY <1>4, <1>8, ContinuesConcat
  <2>3. QED
    BY <1>1, <1>5, <1>6, <1>8, <2>1, <2>2
<1>10. bOut' = bOut => \A e \in Range(bOut) : e.msg \in Arrived'
  <2>1. SUFFICES ASSUME bOut' = bOut, NEW e \in Range(bOut) PROVE e.msg \in Arrived'
    OBVIOUS
  <2>2. PICK i \in 1..Len(bOut) : bOut[i] = e
    BY <1>2, SeqPlaces
  <2>3. CASE e.st # "pub"
    BY <1>2, <1>6, <1>7, <2>3 DEF StoreOK
  <2>4. CASE e.st = "pub"
    <3>1. b2p' = first \o r
      <4>1. bOut # << >>
        BY <2>1, ShortSeqs
      <4>2. QED
        BY <1>1, <1>6, <2>1, <4>1
    <3>2. r[i].type = "PUBLISH" /\ r[i].body = e.msg /\ r[i] \in Range(r)
      BY <1>8, <2>2, <2>4, SeqPlaces
    <3>3. e.msg \in Messages(r)
      BY <1>8, <3>2, MessagesIn
    <3>4. Messages(first \o r) = Messages(first) \cup Messages(r)
      BY <1>4, <1>8, PublishedConcat
    <3>5. QED
      BY <1>7, <3>1, <3>3, <3>4
  <2>5. QED
    BY <2>3, <2>4
<1>11. ArriveOrder'
  <2>1. \A i, j \in DOMAIN bOut' : i < j => bOut'[i].msg < bOut'[j].msg
    BY <1>1, <1>2 DEF ArriveOrder
  <2>2. MaxSubOps = 0 =>
          \A e \in Range(bOut') :
            e.msg \in Arrived' \/ (link' # "up" /\ \A m \in Arrived' : m < e.msg)
    <3>1. CASE bOut' = bOut
      BY <1>10, <3>1
    <3>2. CASE bOut' = << >>
      BY <3>2, ShortSeqs
    <3>3. QED
      BY <1>1, <3>1, <3>2
  <2>3. QED
    BY <1>1, <1>2, <1>6, <1>9, <2>1, <2>2, BrokerArrives
<1>12. ArriveMessages'
  <2>1. Range(first \o r) = Range(first) \cup Range(r)
    BY <1>4, <1>8, ConcatElements
  <2>2. \A p \in ClientBound' : p \in ClientBound \/ p \in Range(first) \/ p \in Range(r)
    BY <1>1, <1>2, <1>6, <2>1 DEF ClientBound, ToClient
  <2>3. \A p \in Range(r) : p.type = "PUBLISH" =>
          \E e \in Range(bOut) : p.id = e.id /\ p.body = e.msg /\ p.qos = BrokerQoS[e.msg]
    BY <1>2, <1>8, SeqPlaces
  <2>4. \A p \in ClientBound' : p.type = "PUBLISH" =>
          \/ p \in ClientBound
          \/ \E e \in Range(bOut) : p.id = e.id /\ p.body = e.msg /\ p.qos = BrokerQoS[e.msg]
    BY <1>4, <2>2, <2>3
  <2>5. Range(cGot) \subseteq 1..bSent
    BY <1>2 DEF ArriveMessages
  <2>6. \A e \in Range(bOut') : \E o \in Range(bOut) : e.msg = o.msg
    BY <1>1, ShortSeqs
  <2>7. QED
    BY <1>1, <1>2, <2>4, <2>5, <2>6, ArrivedKept
<1>13. ArriveStages'
  <2>1. (DeliveredInOrder => DeliveredInOrder') /\ cSubOps' \in Nat
    BY <1>2 DEF DeliveredInOrder, ArriveStages
  <2>2. QED
    BY <1>1, <1>2, <2>1, PeerStages
<1>14. QED
  BY <1>11, <1>12, <1>13 DEF ArriveInv

\* All steps of the peers.
LEMMA PeersKeepArriving ==
  ASSUME IInv, PassInv, ArriveInv, ~ Reuse, Peers
  PROVE  ArriveInv'
<1>1. IInv' /\ UNCHANGED proxyVars /\ StageInv
  BY PeersKeep DEF Peers, PassInv
<1>2. ASSUME BrokerReads PROVE ArriveInv'
  BY <1>1, <1>2, BrokerOnConnectArrives, BrokerAnswersArrive, BrokerOnPubrecArrives,
     BrokerOnAckArrives, BrokerClosesArrives, Zenon DEF BrokerReads
<1>3. QED
  BY <1>1, <1>2, ClientStepsArrive, ClientReadsArrive, BrokerPublishArrives, BrokerClosesArrives,
     Zenon DEF Peers

\* A session starts with nothing on the way.
LEMMA InitArrive ==
  ASSUME Init
  PROVE  ArriveInv
<1>1. /\ c2p = << >> /\ p2c = << >> /\ b2p = << >> /\ leftover = << >>
      /\ snap.client_buf = << >> /\ snap.broker_buf = << >> /\ windows.b2c = << >>
      /\ cGot = << >> /\ bOut = << >> /\ bSent = 0 /\ cSubOps = 0
      /\ phase = "connected" /\ subscriptions = NoSubs
  BY DEF Init, EndpointsInit, NoSnap, EmptyWindows
<1>2. Range(<< >>) = {} /\ Raws(<< >>) = {} /\ << >> \o << >> = << >>
  BY ShortSeqs DEF Raws
<1>3. ClientBound = {} /\ FromClient = {}
  BY <1>1, <1>2 DEF ClientBound, ToClient, FromClient
<1>4. Continues(Range(cGot), Arriving)
  BY <1>1, <1>2, ContinuesShort DEF Arriving
<1>5. ArriveOrder
  BY <1>1, <1>2, <1>4 DEF ArriveOrder
<1>6. ArriveMessages
  BY <1>1, <1>2, <1>3 DEF ArriveMessages
<1>7. ArriveStages
  BY <1>1, <1>2, <1>3 DEF ArriveStages, DeliveredInOrder
<1>8. QED
  BY <1>5, <1>6, <1>7 DEF ArriveInv

\* Nothing happens.
LEMMA StutterArrive ==
  ASSUME ArriveInv, UNCHANGED vars
  PROVE  ArriveInv'
<1>1. UNCHANGED <<c2p, p2c, b2p, link, cRecvd, cGot, cSubOps, bOut, bSent, phase, windows, leftover,
                  snap, subscriptions>>
  BY DEF vars, streams, clientVars, brokerVars, proxyVars
<1>2. UNCHANGED <<ClientBound, FromClient, Arriving, Arrived>>
  BY <1>1 DEF ClientBound, ToClient, FromClient, Arriving, Arrived
<1>3. ArriveOrder'
  BY <1>1, <1>2 DEF ArriveInv, ArriveOrder
<1>4. ArriveMessages'
  BY <1>1, <1>2 DEF ArriveInv, ArriveMessages
<1>5. ArriveStages'
  BY <1>1, <1>2 DEF ArriveInv, ArriveStages, DeliveredInOrder
<1>6. QED
  BY <1>3, <1>4, <1>5 DEF ArriveInv

\* The invariant of the way to the client: through read buffers, leftovers, retransmissions
\* of the b2c window and redeliveries of the broker, each PUBLISH is newer than all before
\* it or repeats one of them with DUP, the window keeps only what was written to the client,
\* and packet ids stand for one message each.  It holds of every session whose packet ids
\* are not used again.
THEOREM ArriveInvariant ==
  ASSUME ~ Reuse
  PROVE  Spec => []ArriveInv
<1>1. Init => ArriveInv
  BY InitArrive
<1>2. IInv /\ PassInv /\ ArriveInv /\ [Next]_vars => ArriveInv'
  BY ProxyKeepsArriving, PeersKeepArriving, StutterArrive, Zenon DEF Next
<1>3. QED
  BY <1>1, <1>2, SessionInvariant, PassInvariant, PTL DEF Spec

\* Whatever comes to the client a second time, from the window, the leftovers or the broker
\* itself, is marked DUP.
THEOREM RepeatsToClientMarked ==
  ASSUME ~ Reuse
  PROVE  Spec => []DupToClient
<1>1. IInv /\ ArriveInv => DupToClient
  <2>1. SUFFICES ASSUME IInv, ArriveInv, NEW i \in DOMAIN p2c,
                        p2c[i].type = "PUBLISH", p2c[i].body \in Range(cGot)
                 PROVE  p2c[i].dup
    BY DEF DupToClient
  <2>2. StreamsOK /\ IsSeq(p2c) /\ ArriveOrder /\ Range(cGot) \subseteq 1..bSent
    BY <2>1 DEF IInv, TypeOK, StreamsOK, ArriveInv, ArriveMessages
  <2>3. Continues(Range(cGot), p2c) /\ i \in 1..Len(p2c)
    BY <2>1, <2>2, OrderIs, SeqPlaces DEF ArriveOrder, InLine
  <2>4. ~ (p2c[i].body < p2c[i].body)
    BY <2>1, <2>2
  <2>5. QED
    BY <2>1, <2>3, <2>4 DEF Continues
<1>2. QED
  BY <1>1, SessionInvariant, ArriveInvariant, PTL

\* Messages reach the client for the first time in the order in which the broker sent them,
\* through any number of outages, replays, freezes and adoptions of a session that does not
\* subscribe: while subscriptions are restored, a redelivered PUBLISH can be taken for the
\* SUBACK that was waited for (recv_suback).
THEOREM MessagesDeliveredInOrder ==
  ASSUME ~ Reuse, MaxSubOps = 0
  PROVE  Spec => []DeliveredInOrder
<1>1. ArriveInv => DeliveredInOrder
  BY DEF ArriveInv, ArriveStages
<1>2. QED
  BY <1>1, ArriveInvariant, PTL

\* The broker is told of a message of QoS 1 or 2 after it came out.
LEMMA BrokerAckIsAcknowledge ==
  ASSUME IInv, ArriveInv, BrokerOnAck
  PROVE  \/ \E m \in 1..bSent : FromBroker!Acknowledge(m)
         \/ UNCHANGED <<bSent, cGot, bDone>>
<1>0. PICK p : p = Head(p2b)
  OBVIOUS
<1> DEFINE done == {i \in Flow(p.id) :
                      IF p.type = "PUBACK"
                      THEN bOut[i].st = "pub" /\ BrokerQoS[bOut[i].msg] = 1
                      ELSE bOut[i].st = "rel"}
<1>1. /\ p2b # << >> /\ p.type \in {"PUBACK", "PUBCOMP"} /\ UNCHANGED <<bSent, cGot>>
      /\ bDone' = bDone \cup {bOut[i].msg : i \in done}
  BY <1>0 DEF BrokerOnAck, HeadIs, BrokerTakes, clientVars
<1>2. BrokerAnswer(p) /\ IsSeq(cGot) /\ IsSeq(bOut) /\ StoreOK
  BY <1>0, <1>1, BrokerHead DEF IInv, DeliverInv
<1>3. Received(p.id)
  BY <1>1, <1>2 DEF BrokerAnswer
<1>4. DOMAIN bOut = 1..Len(bOut) /\ \A i \in 1..Len(bOut) : bOut[i] \in Range(bOut)
  BY <1>2, SeqPlaces
<1>5. \A i \in done : bOut[i] \in Range(bOut) /\ bOut[i].id = p.id
  BY <1>4 DEF Flow
<1> HIDE DEF done
<1>6. CASE done = {}
  BY <1>1, <1>6
<1>7. CASE done # {}
  <2>1. PICK k \in done : TRUE
    BY <1>7
  <2>2. PICK m : m = bOut[k].msg
    OBVIOUS
  <2>3. \A i \in done : bOut[i].msg = m
    BY <1>2, <1>5, <2>1, <2>2 DEF StoreOK
  <2>4. bDone' = bDone \cup {m}
    BY <1>1, <2>1, <2>2, <2>3
  <2>5. m \in 1..bSent /\ BrokerQoS[m] > 0
    BY <1>5, <2>1, <2>2 DEF ArriveInv, ArriveMessages
  <2>6. m \in Range(cGot)
    BY <1>3, <1>5, <2>1, <2>2 DEF Received
  <2>7. \E i \in DOMAIN cGot : cGot[i] = m
    BY <1>2, <2>6, SeqPlaces
  <2>8. FromBroker!Acknowledge(m)
    BY <1>1, <2>4, <2>5, <2>7 DEF FromBroker!Acknowledge
  <2>9. QED
    BY <2>5, <2>8
<1>8. QED
  BY <1>6, <1>7

\* A message comes out in its turn, or again if its QoS is not 0.
LEMMA ClientPublishIsDeliver ==
  ASSUME IInv, ArriveInv, MaxSubOps = 0, ClientOnPublish
  PROVE  \/ \E m \in 1..bSent : FromBroker!Deliver(m)
         \/ UNCHANGED <<bSent, cGot, bDone>>
<1>0. PICK p : p = Head(p2c)
  OBVIOUS
<1>1. /\ p2c # << >> /\ p.type = "PUBLISH" /\ UNCHANGED <<bSent, bDone>>
      /\ cGot' = Append(cGot, p.body) \/ cGot' = cGot
  BY <1>0 DEF ClientOnPublish, HeadIs, ClientTakes, brokerVars
<1>2. StreamsOK /\ IsSeq(p2c) /\ IsSeq(cGot) /\ ArriveOrder /\ ArriveMessages /\ BrokerFlow(p)
  BY <1>0, <1>1, ClientHead DEF IInv, TypeOK, StreamsOK, ArriveInv
<1>3. p \in ClientBound
  BY <1>0, <1>1, <1>2, TailElements DEF ClientBound, ToClient
<1>4. p.body \in 1..bSent /\ p.qos = BrokerQoS[p.body] /\ p.qos \in 0..2
  BY <1>1, <1>2, <1>3 DEF ArriveMessages, BrokerFlow
<1>5. \/ \A n \in Range(cGot) : n < p.body
      \/ p.qos > 0 /\ p.body \in Range(cGot)
  <2>1. Continues(Range(cGot), p2c)
    BY <1>2, OrderIs DEF ArriveOrder, InLine
  <2>2. PICK X : X = Range(cGot)
    OBVIOUS
  <2>3. Continues(X, <<p>>)
    BY <1>0, <1>1, <1>2, <2>1, <2>2, ContinuesTail
  <2>4. QED
    BY <1>1, <2>2, <2>3, ContinuesShort
<1>6. DOMAIN cGot = 1..Len(cGot) /\ \A i \in 1..Len(cGot) : cGot[i] \in Range(cGot)
  BY <1>2, SeqPlaces
<1>7. CASE cGot' = Append(cGot, p.body)
  <2>1. CASE \E i \in DOMAIN cGot : cGot[i] = p.body
    <3>1. p.body \in Range(cGot)
      BY <1>6, <2>1
    <3>2. BrokerQoS[p.body] = 1 \/ BrokerQoS[p.body] = 2
      BY <1>4, <1>5, <3>1
    <3>3. FromBroker!Deliver(p.body)
      BY <1>1, <1>7, <2>1, <3>2 DEF FromBroker!Deliver, FromBroker!MayRepeat
    <3>4. QED
      BY <1>4, <3>3
  <2>2. CASE ~ \E i \in DOMAIN cGot : cGot[i] = p.body
    <3>1. p.body \notin Range(cGot)
      BY <1>2, <2>2, SeqPlaces
    <3>2. \A i \in DOMAIN cGot : cGot[i] < p.body
      BY <1>5, <1>6, <3>1
    <3>3. FromBroker!Deliver(p.body)
      BY <1>1, <1>7, <2>2, <3>2 DEF FromBroker!Deliver
    <3>4. QED
      BY <1>4, <3>3
  <2>3. QED
    BY <2>1, <2>2
<1>8. QED
  BY <1>1, <1>7

\* Every step is one of the delivery service, or none that it sees.
LEMMA StepIsBrokerDelivery ==
  ASSUME IInv, ArriveInv, MaxSubOps = 0, Next
  PROVE  FromBroker!Next \/ UNCHANGED <<bSent, cGot, bDone>>
<1>1. CASE Proxy
  BY <1>1, ProxyKeepsPeers DEF PeersKept, clientVars
<1>2. CASE BrokerPublish
  <2>1. FromBroker!Publish
    BY <1>2 DEF BrokerPublish, clientVars, FromBroker!Publish
  <2>2. QED
    BY <2>1 DEF FromBroker!Next
<1>3. CASE ClientSteps
  BY <1>3 DEF ClientSteps, ClientPublish, ClientSubscribe, ClientUnsubscribe, ClientPing, ClientLeave,
     ClientSends, brokerVars
<1>4. CASE ClientOnPublish
  BY <1>4, ClientPublishIsDeliver DEF FromBroker!Next
<1>5. CASE \/ ClientOnAck \/ ClientOnPubrel \/ ClientOnPubrec
           \/ ClientOnSuback \/ ClientOnPingresp \/ ClientOnDisconnect
  BY <1>5 DEF ClientOnAck, ClientOnPubrel, ClientOnPubrec, ClientOnSuback, ClientOnPingresp,
     ClientOnDisconnect, ClientTakes, brokerVars
<1>6. CASE BrokerOnAck
  BY <1>6, BrokerAckIsAcknowledge DEF FromBroker!Next
<1>7. CASE \/ BrokerOnConnect \/ BrokerOnPublish \/ BrokerOnPubrel \/ BrokerOnPubrec
           \/ BrokerOnSubscribe \/ BrokerOnPing \/ BrokerOnDisconnect \/ BrokerCloses
  BY <1>7 DEF BrokerOnConnect, BrokerOnPublish, BrokerOnPubrel, BrokerOnPubrec, BrokerOnSubscribe,
     BrokerOnPing, BrokerOnDisconnect, BrokerCloses, BrokerTakes, clientVars
<1>8. QED
  BY <1>1, <1>2, <1>3, <1>4, <1>5, <1>6, <1>7, Zenon
     DEF Next, Peers, ClientReads, BrokerReads

\* From the broker to the client the proxy, with any number of outages, sheds, freezes and
\* adoptions, implements the same service for a session that does not subscribe, except that
\* a QoS 2 message may come out again: the client forgets an id with its PUBREL, and a
\* PUBLISH of it can still be on the way.
THEOREM SessionDeliversToClient ==
  ASSUME ~ Reuse, MaxSubOps = 0
  PROVE  Spec => BrokerToClientDelivery
<1>1. Init => FromBroker!Init
  BY DEF Init, EndpointsInit, FromBroker!Init
<1>2. IInv /\ ArriveInv /\ [Next]_vars => [FromBroker!Next]_(FromBroker!vars)
  <2>1. SUFFICES ASSUME IInv, ArriveInv, [Next]_vars
                 PROVE  FromBroker!Next \/ UNCHANGED <<bSent, cGot, bDone>>
    BY DEF FromBroker!vars
  <2>2. CASE UNCHANGED vars
    BY <2>2 DEF vars, clientVars, brokerVars
  <2>3. QED
    BY <2>1, <2>2, StepIsBrokerDelivery
<1>3. QED
  BY <1>1, <1>2, SessionInvariant, ArriveInvariant, PTL
     DEF Spec, BrokerToClientDelivery, FromBroker!Spec

----------------------------------------------------------------------------
(* Counting packets.                                                       *)

\* How many packets of one type, and of one id, are in s.
CountId(s, type, id) == Cardinality({i \in DOMAIN s : s[i].type = type /\ s[i].id = id})

\* Places A and B in two sequences of lengths m and n are C when they are put together.
Placed(m, n, A, B, C) ==
  /\ m \in Nat /\ n \in Nat
  /\ A \subseteq 1..m /\ B \subseteq 1..n /\ C \subseteq 1..(m + n)
  /\ \A i \in 1..m : i \in A <=> i \in C
  /\ \A i \in 1..n : i \in B <=> m + i \in C

\* The places in the concatenation are those of both parts.
LEMMA PlacesAdd ==
  ASSUME NEW m, NEW n, NEW A, NEW B, NEW C, Placed(m, n, A, B, C)
  PROVE  /\ Cardinality(A) \in Nat /\ Cardinality(B) \in Nat
         /\ Cardinality(C) = Cardinality(A) + Cardinality(B)
<1>1. /\ m \in Nat /\ n \in Nat
      /\ A \subseteq 1..m /\ B \subseteq 1..n /\ C \subseteq 1..(m + n)
      /\ \A i \in 1..m : i \in A <=> i \in C
      /\ \A i \in 1..n : i \in B <=> m + i \in C
  BY DEF Placed
<1> DEFINE D == C \ A
           f == [i \in B |-> m + i]
<1>2. IsFiniteSet(1..m) /\ IsFiniteSet(1..n)
  BY <1>1, FS_Interval
<1>3. IsFiniteSet(A) /\ IsFiniteSet(B)
  BY <1>1, <1>2, FS_Subset
<1>4. ASSUME NEW j \in D PROVE \E i \in B : m + i = j
  <2>1. j \in 1..(m + n) /\ j \notin 1..m
    BY <1>1
  <2>2. j - m \in 1..n /\ m + (j - m) = j
    BY <1>1, <2>1
  <2>3. QED
    BY <1>1, <2>2
<1>5. ASSUME NEW i \in B PROVE m + i \in D
  BY <1>1
<1>6. f \in Bijection(B, D)
  <2>1. f \in [B -> D]
    BY <1>5
  <2>2. \A i, j \in B : f[i] = f[j] => i = j
    BY <1>1
  <2>3. \A j \in D : \E i \in B : f[i] = j
    BY <1>4
  <2>4. QED
    BY <2>1, <2>2, <2>3 DEF Bijection, Injection, Surjection, IsInjective
<1>7. IsFiniteSet(D) /\ Cardinality(D) = Cardinality(B)
  <2>1. ExistsBijection(B, D)
    BY <1>6 DEF ExistsBijection
  <2>2. QED
    BY <1>3, <2>1, FS_Bijection
<1>8. C = A \cup D /\ A \cap D = {}
  BY <1>1
<1>9. Cardinality(C) = Cardinality(A) + Cardinality(D) - 0
  <2>1. Cardinality(A \cup D) = Cardinality(A) + Cardinality(D) - Cardinality(A \cap D)
    BY <1>3, <1>7, FS_Union
  <2>2. QED
    BY <1>8, <2>1, FS_EmptySet
<1>10. Cardinality(A) \in Nat /\ Cardinality(B) \in Nat
  BY <1>3, FS_CardinalityType
<1>11. QED
  BY <1>7, <1>9, <1>10

\* Counting goes by parts.
LEMMA CountParts ==
  ASSUME NEW s, IsSeq(s), NEW t, IsSeq(t), NEW type, NEW id
  PROVE  /\ Count(s, type) \in Nat /\ Count(s \o t, type) = Count(s, type) + Count(t, type)
         /\ CountId(s, type, id) \in Nat
         /\ CountId(s \o t, type, id) = CountId(s, type, id) + CountId(t, type, id)
<1>0. PICK u, m, n : u = s \o t /\ m = Len(s) /\ n = Len(t)
  OBVIOUS
<1>1. /\ m \in Nat /\ n \in Nat /\ DOMAIN s = 1..m /\ DOMAIN t = 1..n /\ DOMAIN u = 1..(m + n)
      /\ \A i \in 1..m : u[i] = s[i]
      /\ \A i \in 1..n : u[m + i] = t[i]
  BY <1>0, ConcatPlaces
<1>2. (\A i \in 1..m : i \in 1..(m + n)) /\ (\A i \in 1..n : m + i \in 1..(m + n))
  BY <1>1
<1>3. Count(s, type) \in Nat /\ Count(u, type) = Count(s, type) + Count(t, type)
  <2>0. PICK A, B, C : /\ A = {i \in DOMAIN s : s[i].type = type}
                       /\ B = {i \in DOMAIN t : t[i].type = type}
                       /\ C = {i \in DOMAIN u : u[i].type = type}
    OBVIOUS
  <2>1. \A i \in 1..m : i \in A <=> i \in C
    BY <1>1, <1>2, <2>0
  <2>2. \A i \in 1..n : i \in B <=> m + i \in C
    BY <1>1, <1>2, <2>0
  <2>3. A \in SUBSET (1..m) /\ B \in SUBSET (1..n) /\ C \in SUBSET (1..(m + n))
    BY <1>1, <2>0
  <2>4. Cardinality(A) \in Nat /\ Cardinality(C) = Cardinality(A) + Cardinality(B)
    <3>1. Placed(m, n, A, B, C)
      BY <1>1, <2>1, <2>2, <2>3 DEF Placed
    <3>2. QED
      BY <3>1, PlacesAdd
  <2>5. QED
    BY <2>0, <2>4 DEF Count
<1>4. /\ CountId(s, type, id) \in Nat
      /\ CountId(u, type, id) = CountId(s, type, id) + CountId(t, type, id)
  <2>0. PICK A, B, C : /\ A = {i \in DOMAIN s : s[i].type = type /\ s[i].id = id}
                       /\ B = {i \in DOMAIN t : t[i].type = type /\ t[i].id = id}
                       /\ C = {i \in DOMAIN u : u[i].type = type /\ u[i].id = id}
    OBVIOUS
  <2>1. \A i \in 1..m : i \in A <=> i \in C
    BY <1>1, <1>2, <2>0
  <2>2. \A i \in 1..n : i \in B <=> m + i \in C
    BY <1>1, <1>2, <2>0
  <2>3. A \in SUBSET (1..m) /\ B \in SUBSET (1..n) /\ C \in SUBSET (1..(m + n))
    BY <1>1, <2>0
  <2>4. Cardinality(A) \in Nat /\ Cardinality(C) = Cardinality(A) + Cardinality(B)
    <3>1. Placed(m, n, A, B, C)
      BY <1>1, <2>1, <2>2, <2>3 DEF Placed
    <3>2. QED
      BY <3>1, PlacesAdd
  <2>5. QED
    BY <2>0, <2>4 DEF CountId
<1>5. QED
  BY <1>0, <1>3, <1>4

\* None, and one.
LEMMA CountNone ==
  ASSUME NEW s, IsSeq(s), NEW type, NEW id
  PROVE  /\ (\A p \in Range(s) : p.type # type) <=> Count(s, type) = 0
         /\ (\A p \in Range(s) : p.type # type \/ p.id # id) <=> CountId(s, type, id) = 0
<1>0. PICK A, B : /\ A = {i \in DOMAIN s : s[i].type = type}
                  /\ B = {i \in DOMAIN s : s[i].type = type /\ s[i].id = id}
  OBVIOUS
<1>1. IsFiniteSet(DOMAIN s)
  BY SeqPlaces, FS_Interval
<1>2. IsFiniteSet(A) /\ IsFiniteSet(B)
  BY <1>0, <1>1, FS_Subset
<1>3. (\A p \in Range(s) : p.type # type) <=> A = {}
  BY <1>0, SeqPlaces
<1>4. (\A p \in Range(s) : p.type # type \/ p.id # id) <=> B = {}
  BY <1>0, SeqPlaces
<1>5. QED
  BY <1>0, <1>2, <1>3, <1>4, FS_EmptySet DEF Count, CountId

\* Counting in streams of no packet and of one.
LEMMA CountOne ==
  ASSUME NEW p, NEW type, NEW id
  PROVE  /\ Count(<< >>, type) = 0 /\ CountId(<< >>, type, id) = 0
         /\ Count(<<p>>, type) = (IF p.type = type THEN 1 ELSE 0)
         /\ CountId(<<p>>, type, id) = (IF p.type = type /\ p.id = id THEN 1 ELSE 0)
<1>1. Count(<< >>, type) = 0 /\ CountId(<< >>, type, id) = 0
  BY ShortSeqs, CountNone
<1>2. p.type # type => Count(<<p>>, type) = 0
  BY ShortSeqs, CountNone
<1>3. p.type # type \/ p.id # id => CountId(<<p>>, type, id) = 0
  BY ShortSeqs, CountNone
<1>4. DOMAIN <<p>> = {1} /\ <<p>>[1] = p
  OBVIOUS
<1>5. ASSUME p.type = type PROVE Count(<<p>>, type) = 1
  <2>1. {i \in DOMAIN <<p>> : <<p>>[i].type = type} = {1}
    BY <1>4, <1>5
  <2>2. QED
    BY <2>1, FS_Singleton DEF Count
<1>6. ASSUME p.type = type, p.id = id PROVE CountId(<<p>>, type, id) = 1
  <2>1. {i \in DOMAIN <<p>> : <<p>>[i].type = type /\ <<p>>[i].id = id} = {1}
    BY <1>4, <1>6
  <2>2. QED
    BY <2>1, FS_Singleton DEF CountId
<1>7. QED
  BY <1>1, <1>2, <1>3, <1>5, <1>6

\* Taking the head off.
LEMMA CountTail ==
  ASSUME NEW s, IsSeq(s), s # << >>, NEW type, NEW id
  PROVE  /\ Count(Tail(s), type) \in Nat /\ CountId(Tail(s), type, id) \in Nat
         /\ Count(s, type) = Count(Tail(s), type) + (IF Head(s).type = type THEN 1 ELSE 0)
         /\ CountId(s, type, id) = CountId(Tail(s), type, id)
              + (IF Head(s).type = type /\ Head(s).id = id THEN 1 ELSE 0)
<1>0. PICK h, t : h = Head(s) /\ t = Tail(s)
  OBVIOUS
<1>1. s = <<h>> \o t /\ IsSeq(t) /\ IsSeq(<<h>>)
  <2>1. s \in Seq(Range(s))
    BY DEF IsSeq
  <2>2. QED
    BY <1>0, <2>1, HeadTailProperties, TailElements, ShortSeqs
<1>2. /\ Count(t, type) \in Nat /\ CountId(t, type, id) \in Nat
      /\ Count(s, type) = Count(<<h>>, type) + Count(t, type)
      /\ CountId(s, type, id) = CountId(<<h>>, type, id) + CountId(t, type, id)
  BY <1>1, CountParts
<1>3. QED
  BY <1>0, <1>2, CountOne

\* What counting does, of packets of a type.
LEMMA Counting ==
  ASSUME NEW s, IsSeq(s), NEW type
  PROVE  /\ Count(s, type) \in Nat /\ Count(<< >>, type) = 0
         /\ \A t : IsSeq(t) => Count(s \o t, type) = Count(s, type) + Count(t, type)
         /\ \A p : Count(Append(s, p), type)
                  = Count(s, type) + (IF p.type = type THEN 1 ELSE 0)
         /\ s # << >> => Count(s, type)
                          = Count(Tail(s), type) + (IF Head(s).type = type THEN 1 ELSE 0)
         /\ (\A p \in Range(s) : p.type # type) <=> Count(s, type) = 0
<1>1. Count(s, type) \in Nat /\ Count(<< >>, type) = 0
  BY CountParts, CountOne
<1>2. \A t : IsSeq(t) => Count(s \o t, type) = Count(s, type) + Count(t, type)
  BY CountParts
<1>3. ASSUME NEW p
      PROVE  Count(Append(s, p), type) = Count(s, type) + (IF p.type = type THEN 1 ELSE 0)
  <2>1. IsSeq(<<p>>) /\ Append(s, p) = s \o <<p>>
    BY ShortSeqs, AppendIsConcat DEF IsSeq
  <2>2. Count(<<p>>, type) = IF p.type = type THEN 1 ELSE 0
    BY CountOne
  <2>3. Count(s \o <<p>>, type) = Count(s, type) + Count(<<p>>, type)
    BY <1>2, <2>1
  <2>4. QED
    BY <2>1, <2>2, <2>3
<1>4. s # << >> => Count(s, type)
                   = Count(Tail(s), type) + (IF Head(s).type = type THEN 1 ELSE 0)
  BY CountTail
<1>5. (\A p \in Range(s) : p.type # type) <=> Count(s, type) = 0
  BY CountNone
<1>6. QED
  BY <1>1, <1>2, <1>3, <1>4, <1>5

\* The same of packets of a type with an id.
LEMMA CountingIds ==
  ASSUME NEW s, IsSeq(s), NEW type, NEW id
  PROVE  /\ CountId(s, type, id) \in Nat /\ CountId(<< >>, type, id) = 0
         /\ \A t : IsSeq(t) => CountId(s \o t, type, id) = CountId(s, type, id) + CountId(t, type, id)
         /\ \A p : CountId(Append(s, p), type, id)
                  = CountId(s, type, id) + (IF p.type = type /\ p.id = id THEN 1 ELSE 0)
         /\ s # << >> => CountId(s, type, id)
                          = CountId(Tail(s), type, id) + (IF Head(s).type = type /\ Head(s).id = id THEN 1 ELSE 0)
         /\ (\A p \in Range(s) : p.type # type \/ p.id # id) <=> CountId(s, type, id) = 0
<1>1. CountId(s, type, id) \in Nat /\ CountId(<< >>, type, id) = 0
  BY CountParts, CountOne
<1>2. \A t : IsSeq(t) => CountId(s \o t, type, id) = CountId(s, type, id) + CountId(t, type, id)
  BY CountParts
<1>3. ASSUME NEW p
      PROVE  CountId(Append(s, p), type, id) = CountId(s, type, id) + (IF p.type = type /\ p.id = id THEN 1 ELSE 0)
  <2>1. IsSeq(<<p>>) /\ Append(s, p) = s \o <<p>>
    BY ShortSeqs, AppendIsConcat DEF IsSeq
  <2>2. CountId(<<p>>, type, id) = IF p.type = type /\ p.id = id THEN 1 ELSE 0
    BY CountOne
  <2>3. CountId(s \o <<p>>, type, id) = CountId(s, type, id) + CountId(<<p>>, type, id)
    BY <1>2, <2>1
  <2>4. QED
    BY <2>1, <2>2, <2>3
<1>4. s # << >> => CountId(s, type, id)
                   = CountId(Tail(s), type, id) + (IF Head(s).type = type /\ Head(s).id = id THEN 1 ELSE 0)
  BY CountTail
<1>5. (\A p \in Range(s) : p.type # type \/ p.id # id) <=> CountId(s, type, id) = 0
  BY CountNone
<1>6. QED
  BY <1>1, <1>2, <1>3, <1>4, <1>5

----------------------------------------------------------------------------
(* Keepalive.                                                              *)

\* The b2c window keeps the PUBLISH of a flow, to its end.
B2CPublishes == \A q \in Raws(windows.b2c) : q.type = "PUBLISH"

\* Only a PUBLISH is inserted into the b2c window, and the state of an entry changes, not
\* its packet.
LEMMA ProxyKeepsB2C ==
  ASSUME TypeOK, B2CPublishes, Proxy
  PROVE  B2CPublishes'
<1>1. windows \in Windows(Raws(windows.c2b), Raws(windows.b2c))
  BY DEF TypeOK, StreamsOK
<1>2. CASE ForwardClientPacket \/ service_outage_packet \/ Replay
  <2>1. Raws(windows.b2c)' \subseteq Raws(windows.b2c)
    BY <1>2, ForwardClientMoves, OutageMoves, ReplayMoves
  <2>2. QED
    BY <2>1 DEF B2CPublishes
<1>3. CASE ForwardBrokerPacket
  <2>1. Raws(windows.b2c)' \subseteq Raws(windows.b2c) \cup {Head(b2p)}
    BY <1>3, ForwardBrokerMoves
  <2>2. CASE Head(b2p).type = "PUBLISH"
    BY <2>1, <2>2 DEF B2CPublishes
  <2>3. CASE Head(b2p).type # "PUBLISH"
    <3>1. windows' = windows \/ windows' = track_b2c(windows, Head(b2p))
      BY <1>3 DEF ForwardBrokerPacket
    <3>2. track_b2c(windows, Head(b2p)) \in {windows, c2b_remove(windows, Head(b2p).id)}
      BY <2>3, Zenon DEF track_b2c
    <3>3. windows = [c2b |-> windows.c2b, b2c |-> windows.b2c]
      BY <1>1 DEF Windows
    <3>4. c2b_remove(windows, Head(b2p).id).b2c = windows.b2c
      BY <3>3, Zenon DEF c2b_remove
    <3>5. windows'.b2c = windows.b2c
      BY <3>1, <3>2, <3>4
    <3>6. QED
      BY <3>5 DEF B2CPublishes
  <2>4. QED
    BY <2>2, <2>3
<1>4. CASE \/ InterceptDisconnect \/ BrokerEof \/ ClientGone \/ KeepaliveTimeout \/ ConnectBroker
           \/ RecvConnack \/ RecvSuback \/ EstablishFails \/ Freeze \/ ResumeSession \/ adopt_session
  <2>1. windows' = windows
    BY <1>4, ThawMoves DEF InterceptDisconnect, BrokerEof, ClientGone, KeepaliveTimeout,
       ConnectBroker, RecvConnack, RecvSuback, EstablishFails, Freeze
  <2>2. QED
    BY <2>1 DEF B2CPublishes
<1>5. QED
  BY <1>2, <1>3, <1>4, Zenon DEF Proxy

\* What the b2c window sends again are PUBLISHes (track_b2c).
LEMMA B2CPublishesAlways ==
  ASSUME ~ Reuse
  PROVE  Spec => []B2CPublishes
<1>1. Init => B2CPublishes
  BY DEF Init, EmptyWindows, B2CPublishes, Raws
<1>2. IInv /\ B2CPublishes /\ [Next]_vars => B2CPublishes'
  <2>1. SUFFICES ASSUME IInv, B2CPublishes, [Next]_vars PROVE B2CPublishes'
    OBVIOUS
  <2>2. CASE Proxy
    BY <2>1, <2>2, ProxyKeepsB2C DEF IInv
  <2>3. CASE ~ Proxy
    <3>1. windows' = windows
      BY <2>1, <2>3 DEF Next, Peers, proxyVars, vars
    <3>2. QED
      BY <2>1, <3>1 DEF B2CPublishes
  <2>4. QED
    BY <2>2, <2>3
<1>3. QED
  BY <1>1, <1>2, SessionInvariant, PTL DEF Spec

\* A PINGREQ is answered by the step that reads it, and by no other.
LEMMA ProxyPings ==
  ASSUME IInv, B2CPublishes, PingAnsweredOnce, Proxy
  PROVE  PingAnsweredOnce'
<1>1. SUFFICES ASSUME freezes' = 0, phase' # "ended"
               PROVE  cPings'.open = Count(c2p', "PINGREQ") + Count(snap'.client_buf, "PINGREQ")
                                     + Count(p2c', "PINGRESP")
  BY DEF PingAnsweredOnce
<1>2. TypeOK /\ IsSeq(c2p) /\ IsSeq(p2c) /\ IsSeq(leftover) /\ IsSeq(snap.client_buf)
      /\ windows \in Windows(Raws(windows.c2b), Raws(windows.b2c)) /\ freezes \in Nat
  BY DEF IInv, TypeOK, StreamsOK, ControlOK
<1>3. cPings' = cPings
  BY ProxyKeepsPeers DEF PeersKept, clientVars
<1>4. ~ Freeze /\ freezes' = freezes
  BY <1>1, <1>2 DEF Proxy, ForwardClientPacket, ForwardBrokerPacket, InterceptDisconnect, BrokerEof,
     ClientGone, KeepaliveTimeout, service_outage_packet, ConnectBroker, RecvConnack, RecvSuback,
     EstablishFails, Replay, Freeze, ResumeSession, adopt_session
<1>5. phase # "frozen" /\ leftover = << >>
  BY <1>1, <1>4 DEF IInv, AdminInv
<1>6. phase # "ended" /\ UNCHANGED snap
  BY <1>1, <1>4, <1>5 DEF Proxy, ForwardClientPacket, ForwardBrokerPacket, InterceptDisconnect, BrokerEof,
     ClientGone, KeepaliveTimeout, service_outage_packet, ConnectBroker, RecvConnack, RecvSuback,
     EstablishFails, Replay, ResumeSession, adopt_session
<1>7. PICK a, b, c : /\ a = Count(c2p, "PINGREQ") /\ b = Count(snap.client_buf, "PINGREQ")
                     /\ c = Count(p2c, "PINGRESP") /\ a \in Nat /\ b \in Nat /\ c \in Nat
                     /\ cPings.open = a + b + c
  BY <1>1, <1>2, <1>4, <1>6, Counting DEF PingAnsweredOnce
<1>8. SUFFICES \/ /\ Count(c2p', "PINGREQ") = a /\ Count(p2c', "PINGRESP") = c
               \/ /\ Count(c2p', "PINGREQ") = a - 1 /\ Count(p2c', "PINGRESP") = c + 1
  BY <1>3, <1>6, <1>7
<1>9. CASE ForwardClientPacket \/ service_outage_packet
  <2>1. PICK p : /\ c2p # << >> /\ p = Head(c2p) /\ c2p' = Tail(c2p) /\ p2c' = p2c \o LocalAnswer(p)
    BY <1>9 DEF ForwardClientPacket, service_outage_packet
  <2>2. /\ Count(c2p', "PINGREQ") \in Nat
        /\ a = Count(c2p', "PINGREQ") + (IF p.type = "PINGREQ" THEN 1 ELSE 0)
    <3>1. IsSeq(Tail(c2p))
      BY <1>2, <2>1, TailElements
    <3>2. Count(Tail(c2p), "PINGREQ") \in Nat
      BY <3>1, Counting
    <3>3. Count(c2p, "PINGREQ")
            = Count(Tail(c2p), "PINGREQ") + (IF Head(c2p).type = "PINGREQ" THEN 1 ELSE 0)
      BY <1>2, <2>1, Counting
    <3>4. QED
      BY <1>7, <2>1, <3>2, <3>3
  <2>3. Count(LocalAnswer(p), "PINGRESP") = IF p.type = "PINGREQ" THEN 1 ELSE 0
    <3>1. Pkt("PINGRESP", NoId).type = "PINGRESP"
      BY OwnPackets
    <3>2. QED
      BY <3>1, CountOne DEF LocalAnswer
  <2>4. Count(p2c', "PINGRESP") = c + Count(LocalAnswer(p), "PINGRESP")
    BY <1>2, <1>7, <2>1, LocalAnswerIs, Counting
  <2>5. QED
    BY <1>7, <2>2, <2>3, <2>4
<1>10. CASE ForwardBrokerPacket
  <2>1. PICK p : c2p' = c2p /\ (p2c' = p2c \/ (p2c' = Append(p2c, p) /\ p.type # "PINGRESP"))
    BY <1>10 DEF ForwardBrokerPacket, Swallowed
  <2>2. CASE p2c' = Append(p2c, p) /\ p.type # "PINGRESP"
    <3>0. Count(Append(p2c, p), "PINGRESP")
            = Count(p2c, "PINGRESP") + (IF p.type = "PINGRESP" THEN 1 ELSE 0)
      BY <1>2, Counting
    <3>1. Count(p2c', "PINGRESP") = c + 0
      BY <1>7, <2>2, <3>0
    <3>2. QED
      BY <1>7, <2>1, <3>1
  <2>3. QED
    BY <1>7, <2>1, <2>2
<1>11. CASE Replay
  <2>1. PICK r : r = client_retransmits(windows)
    OBVIOUS
  <2>2. c2p' = c2p /\ p2c' = (p2c \o leftover) \o r
    BY <1>11, <2>1 DEF Replay
  <2>3. IsSeq(r) /\ \A q \in Range(r) : q.type # "PINGRESP"
    <3>1. IsSeq(r) /\ \A q \in Range(r) : \E o \in Raws(windows.b2c) : q = with_dup(o)
      BY <1>2, <2>1, ClientRetransmits
    <3>2. QED
      BY <3>1 DEF B2CPublishes, with_dup, Packet
  <2>4. Count(r, "PINGRESP") = 0 /\ Count(leftover, "PINGRESP") = 0
    BY <1>5, <2>3, Counting
  <2>5. Count(p2c \o leftover, "PINGRESP") = c + 0 /\ IsSeq(p2c \o leftover)
    BY <1>2, <1>7, <2>4, Counting, ConcatElements
  <2>6. Count(p2c', "PINGRESP") = c + 0
    BY <1>7, <2>2, <2>3, <2>4, <2>5, Counting
  <2>7. QED
    BY <1>7, <2>2, <2>6
<1>12. CASE \/ InterceptDisconnect \/ BrokerEof \/ ConnectBroker \/ RecvConnack \/ RecvSuback
  <2>1. c2p' = c2p /\ p2c' = p2c
    BY <1>1, <1>12 DEF InterceptDisconnect, BrokerEof, ConnectBroker, RecvConnack, RecvSuback, End
  <2>2. QED
    BY <1>7, <2>1
<1>13. ~ (ClientGone \/ KeepaliveTimeout \/ EstablishFails \/ ResumeSession \/ adopt_session)
  BY <1>1, <1>5 DEF ClientGone, KeepaliveTimeout, EstablishFails, ResumeSession, adopt_session, End
<1>14. QED
  BY <1>4, <1>9, <1>10, <1>11, <1>12, <1>13, Zenon DEF Proxy

\* The client counts what it asked and what it was answered.
LEMMA PeersPing ==
  ASSUME IInv, PingAnsweredOnce, Peers
  PROVE  PingAnsweredOnce'
<1>1. SUFFICES ASSUME freezes' = 0, phase' # "ended"
               PROVE  cPings'.open = Count(c2p', "PINGREQ") + Count(snap'.client_buf, "PINGREQ")
                                     + Count(p2c', "PINGRESP")
  BY DEF PingAnsweredOnce
<1>2. IsSeq(c2p) /\ IsSeq(p2c) /\ IsSeq(snap.client_buf) /\ UNCHANGED <<freezes, phase, snap>>
  BY DEF IInv, TypeOK, StreamsOK, Peers, proxyVars
<1>3. PICK a, b, c : /\ a = Count(c2p, "PINGREQ") /\ b = Count(snap.client_buf, "PINGREQ")
                     /\ c = Count(p2c, "PINGRESP") /\ a \in Nat /\ b \in Nat /\ c \in Nat
                     /\ cPings.open = a + b + c
  BY <1>1, <1>2, Counting DEF PingAnsweredOnce
<1>4. SUFFICES cPings'.open = Count(c2p', "PINGREQ") + b + Count(p2c', "PINGRESP")
  BY <1>2, <1>3
<1>5. CASE ClientPing
  <2>0. PICK p : p = Pkt("PINGREQ", NoId)
    OBVIOUS
  <2>1. p.type = "PINGREQ" /\ c2p' = Append(c2p, p) /\ p2c' = p2c /\ cPings'.open = cPings.open + 1
    BY <1>5, <2>0, OwnPackets DEF ClientPing, ClientSends
  <2>2. Count(Append(c2p, p), "PINGREQ")
          = Count(c2p, "PINGREQ") + (IF p.type = "PINGREQ" THEN 1 ELSE 0)
    BY <1>2, Counting
  <2>3. QED
    BY <1>3, <2>1, <2>2
<1>6. CASE ClientPublish \/ ClientSubscribe \/ ClientUnsubscribe \/ ClientLeave
  <2>1. PICK p : /\ p.type # "PINGREQ" /\ p2c' = p2c /\ cPings' = cPings
                 /\ c2p' = c2p \/ c2p' = Append(c2p, p)
    <3>0. \A id, q, m : PublishPkt(id, q, m).type # "PINGREQ"
      BY DEF PublishPkt, Packet
    <3>1. CASE ClientPublish
      BY <3>0, <3>1 DEF ClientPublish, ClientSends
    <3>2. CASE ClientSubscribe \/ ClientUnsubscribe
      <4>1. \A id, body : /\ PktWith("SUBSCRIBE", id, body).type # "PINGREQ"
                          /\ PktWith("UNSUBSCRIBE", id, body).type # "PINGREQ"
        BY OwnPackets
      <4>2. QED
        BY <3>2, <4>1, Zenon DEF ClientSubscribe, ClientUnsubscribe, ClientSends
    <3>3. CASE ClientLeave
      BY <3>3, OwnPackets DEF ClientLeave
    <3>4. QED
      BY <1>6, <3>1, <3>2, <3>3
  <2>2. Count(Append(c2p, p), "PINGREQ")
          = Count(c2p, "PINGREQ") + (IF p.type = "PINGREQ" THEN 1 ELSE 0)
    BY <1>2, Counting
  <2>3. Count(Append(c2p, p), "PINGREQ") = a
    BY <1>3, <2>1, <2>2
  <2>4. Count(c2p', "PINGREQ") = a /\ Count(p2c', "PINGRESP") = c
    BY <1>3, <2>1, <2>3
  <2>5. QED
    BY <1>3, <2>1, <2>4
<1>7. CASE ClientOnPingresp
  <2>1. /\ p2c # << >> /\ Head(p2c).type = "PINGRESP" /\ p2c' = Tail(p2c)
        /\ c2p' = c2p \o << >> /\ cPings'.open = (IF cPings.open = 0 THEN 0 ELSE cPings.open - 1)
    BY <1>7 DEF ClientOnPingresp, ClientTakes, HeadIs
  <2>2. IsSeq(Tail(p2c)) /\ IsSeq(<< >>)
    BY <1>2, <2>1, TailElements, ShortSeqs
  <2>3. Count(Tail(p2c), "PINGRESP") \in Nat
    BY <2>2, Counting
  <2>4. Count(p2c, "PINGRESP")
          = Count(Tail(p2c), "PINGRESP") + (IF Head(p2c).type = "PINGRESP" THEN 1 ELSE 0)
    BY <1>2, <2>1, Counting
  <2>5. Count(c2p \o << >>, "PINGREQ") = a + 0
    BY <1>2, <1>3, <2>2, Counting
  <2>6. Count(c2p', "PINGREQ") = a /\ Count(p2c', "PINGRESP") = c - 1 /\ c # 0
    <3>1. a + 0 = a
      BY <1>3
    <3>2. Count(c2p', "PINGREQ") = a
      BY <2>1, <2>5, <3>1, Zenon
    <3>3. Count(Tail(p2c), "PINGRESP") = c - 1 /\ c # 0
      <4>1. Head(p2c).type = "PINGRESP"
        BY <2>1
      <4>2. QED
        BY <1>3, <2>3, <2>4, <4>1
    <3>4. Count(p2c', "PINGRESP") = c - 1
      BY <2>1, <3>3, Zenon
    <3>5. QED
      BY <3>2, <3>3, <3>4
  <2>7. cPings.open # 0 /\ cPings'.open = cPings.open - 1
    BY <1>3, <2>1, <2>6
  <2>8. QED
    BY <1>3, <2>6, <2>7
<1>8. CASE \/ ClientOnPublish \/ ClientOnPubrel \/ ClientOnPubrec \/ ClientOnAck
           \/ ClientOnSuback \/ ClientOnDisconnect
  <2>1. PICK reply : /\ p2c # << >> /\ Head(p2c).type # "PINGRESP" /\ ClientTakes(reply)
                     /\ cPings' = cPings
                     /\ \/ reply = << >> \/ (ClientOnPublish /\ reply = Answer(Head(p2c)))
                        \/ \E id : reply = <<Pkt("PUBCOMP", id)>> \/ reply = <<Pkt("PUBREL", id)>>
    BY <1>8, Zenon DEF ClientOnPublish, ClientOnPubrel, ClientOnPubrec, ClientOnAck, ClientOnSuback,
       ClientOnDisconnect, HeadIs
  <2>2. IsSeq(reply) /\ \A q \in Range(reply) : q.type # "PINGREQ"
    <3>1. ASSUME ClientOnPublish PROVE Head(p2c).qos \in 0..2
      <4>1. Head(p2c) \in ClientBound /\ Head(p2c).type = "PUBLISH"
        BY <1>2, <2>1, <3>1, TailElements DEF ClientBound, ToClient, ClientOnPublish, HeadIs
      <4>2. QED
        BY <4>1 DEF IInv, DeliverInv, BrokerFlow
    <3>2. \/ reply = << >>
          \/ \E id : reply = <<Pkt("PUBCOMP", id)>> \/ reply = <<Pkt("PUBREL", id)>>
          \/ Head(p2c).qos \in 0..2 /\ reply = Answer(Head(p2c))
      BY <2>1, <3>1
    <3>3. QED
      BY <3>2, ShortSeqs, OwnPackets, AnswerIs
  <2>3. c2p' = c2p \o reply /\ p2c' = Tail(p2c)
    BY <2>1 DEF ClientTakes
  <2>4. Count(reply, "PINGREQ") = 0
    BY <2>2, Counting
  <2>5. Count(c2p \o reply, "PINGREQ") = a + 0
    BY <1>2, <1>3, <2>2, <2>4, Counting
  <2>6. Count(p2c, "PINGRESP")
          = Count(Tail(p2c), "PINGRESP") + (IF Head(p2c).type = "PINGRESP" THEN 1 ELSE 0)
    BY <1>2, <2>1, Counting
  <2>7. Count(Tail(p2c), "PINGRESP") \in Nat
    <3>1. IsSeq(Tail(p2c))
      BY <1>2, <2>1, TailElements
    <3>2. QED
      BY <3>1, Counting
  <2>8. QED
    BY <1>3, <2>1, <2>3, <2>5, <2>6, <2>7
<1>9. CASE BrokerReads \/ BrokerPublish \/ BrokerCloses
  <2>1. UNCHANGED <<c2p, p2c, cPings>>
    BY <1>9 DEF BrokerReads, BrokerOnConnect, BrokerOnPublish, BrokerOnPubrel, BrokerOnAck,
       BrokerOnPubrec, BrokerOnSubscribe, BrokerOnPing, BrokerOnDisconnect, BrokerTakes,
       BrokerPublish, BrokerCloses, clientVars
  <2>2. QED
    BY <1>3, <2>1
<1>10. QED
  BY <1>5, <1>6, <1>7, <1>8, <1>9, Zenon DEF Peers, ClientSteps, ClientReads

\* Until a first freeze each PINGREQ gets one PINGRESP: in every phase of the loop the proxy
\* answers the one it reads, and the broker's answer to the one that was passed on is swallowed.
THEOREM PingsAnsweredOnce ==
  ASSUME ~ Reuse
  PROVE  Spec => []PingAnsweredOnce
<1>1. Init => PingAnsweredOnce
  <2>1. SUFFICES ASSUME Init PROVE PingAnsweredOnce
    OBVIOUS
  <2>2. /\ c2p = << >> /\ p2c = << >> /\ cPings.open = 0 /\ snap.client_buf = << >>
    BY <2>1 DEF Init, EndpointsInit, NoSnap
  <2>3. \A type : Count(<< >>, type) = 0
    BY ShortSeqs, Counting
  <2>4. QED
    BY <2>2, <2>3 DEF PingAnsweredOnce
<1>2. IInv /\ B2CPublishes /\ PingAnsweredOnce /\ [Next]_vars => PingAnsweredOnce'
  <2>1. SUFFICES ASSUME IInv, B2CPublishes, PingAnsweredOnce, [Next]_vars PROVE PingAnsweredOnce'
    OBVIOUS
  <2>2. CASE UNCHANGED vars
    <3>1. UNCHANGED <<freezes, phase, c2p, p2c, snap, cPings>>
      BY <2>2 DEF vars, streams, clientVars, proxyVars
    <3>2. QED
      BY <2>1, <3>1 DEF PingAnsweredOnce
  <2>3. QED
    BY <2>1, <2>2, PeersPing, ProxyPings DEF Next
<1>3. QED
  BY <1>1, <1>2, SessionInvariant, B2CPublishesAlways, PTL DEF Spec

----------------------------------------------------------------------------
(* The SUBACK of a re-SUBSCRIBE.                                           *)

\* How often the SUBSCRIBE with this id, or its SUBACK, is on the way; on a connection
\* that is being established it is the proxy's own, which does not count.
Subscribing(id) ==
  CountId(snap.client_buf, "SUBSCRIBE", id) + CountId(c2p, "SUBSCRIBE", id)
  + CountId(buffer, "SUBSCRIBE", id)
  + (IF phase \in {"connected", "frozen"}
     THEN CountId(p2b, "SUBSCRIBE", id) + CountId(snap.broker_buf, "SUBACK", id)
          + CountId(b2p, "SUBACK", id)
     ELSE 0)
  + CountId(leftover, "SUBACK", id) + CountId(p2c, "SUBACK", id)

\* How often the client waits for the SUBACK with this id.
Waits(id) == IF id \in 1..cIds /\ cOut[id].st = "sub" THEN 1 ELSE 0

\* The streams of a connection that is being established, when the broker publishes nothing:
\* CONNECT and CONNACK, then the proxy's SUBSCRIBE and its SUBACK.
Establishing ==
  /\ phase = "connack" =>
       /\ \A p \in Range(p2b) : p.type = "CONNECT"
       /\ \A p \in Range(b2p) : p.type \in {"CONNACK", "DISCONNECT"}
       /\ link = "syn" => b2p = << >> /\ Len(p2b) = 1
       /\ link = "up" => Len(b2p) <= 1 /\ p2b = << >>
  /\ phase = "suback" =>
       /\ \/ p2b = << >>
          \/ b2p = << >> /\ Len(p2b) = 1 /\ p2b[1].type = "SUBSCRIBE"
       /\ \A i \in DOMAIN b2p : b2p[i].type = "SUBACK" => i = 1
  /\ phase = "replay" =>
       /\ p2b = << >>
       /\ \A p \in Range(b2p) : p.type # "SUBACK"

\* Why the SUBACKs stay apart when the broker publishes nothing: a SUBSCRIBE of the client, or its
\* answer, is on the way at most once, and only while the client waits for it; the answer
\* to the proxy's own is the first packet it finds.
SubackInv ==
  Len(BrokerQoS) = 0 =>
    /\ Establishing
    /\ \A id \in Ids : Subscribing(id) <= Waits(id)

\* The count of every id, whether it is on the way or not.
SubscribesOnce == \A id : Subscribing(id) <= Waits(id)

\* What Subscribing adds up.
LEMMA SubCounts ==
  ASSUME StreamsOK, NEW id
  PROVE  /\ CountId(snap.client_buf, "SUBSCRIBE", id) \in Nat /\ CountId(c2p, "SUBSCRIBE", id) \in Nat
         /\ CountId(buffer, "SUBSCRIBE", id) \in Nat /\ CountId(p2b, "SUBSCRIBE", id) \in Nat
         /\ CountId(snap.broker_buf, "SUBACK", id) \in Nat /\ CountId(b2p, "SUBACK", id) \in Nat
         /\ CountId(leftover, "SUBACK", id) \in Nat /\ CountId(p2c, "SUBACK", id) \in Nat
BY CountingIds DEF StreamsOK

\* No step of the proxy repeats a SUBSCRIBE of the client or its answer.
LEMMA ForwardCounts ==
  ASSUME TypeOK, NEW id,
         ForwardClientPacket \/ service_outage_packet \/ ForwardBrokerPacket \/ InterceptDisconnect
  PROVE  Subscribing(id)' <= Subscribing(id)
<1>1. StreamsOK /\ IsSeq(c2p) /\ IsSeq(p2c) /\ IsSeq(p2b) /\ IsSeq(b2p) /\ IsSeq(buffer)
  BY DEF TypeOK, StreamsOK
<1>2. PICK a, b, c, d, e, f, g, h :
        /\ a = CountId(snap.client_buf, "SUBSCRIBE", id) /\ b = CountId(c2p, "SUBSCRIBE", id)
        /\ c = CountId(buffer, "SUBSCRIBE", id) /\ d = CountId(p2b, "SUBSCRIBE", id)
        /\ e = CountId(snap.broker_buf, "SUBACK", id) /\ f = CountId(b2p, "SUBACK", id)
        /\ g = CountId(leftover, "SUBACK", id) /\ h = CountId(p2c, "SUBACK", id)
        /\ a \in Nat /\ b \in Nat /\ c \in Nat /\ d \in Nat /\ e \in Nat /\ f \in Nat
        /\ g \in Nat /\ h \in Nat
  BY <1>1, SubCounts
<1>3. CountId(<< >>, "SUBSCRIBE", id) = 0 /\ CountId(<< >>, "SUBACK", id) = 0
  BY ShortSeqs, CountingIds
<1>4. CASE ForwardClientPacket \/ service_outage_packet
  <2>0. PICK p, t, one : /\ p = Head(c2p) /\ t = LocalAnswer(p)
                         /\ one = IF p.type = "SUBSCRIBE" /\ p.id = id THEN 1 ELSE 0
    OBVIOUS
  <2>1. CountId(p2c \o t, "SUBACK", id) = h
    <3>1. IsSeq(t) /\ \A q \in Range(t) : q.type # "SUBACK"
      BY <2>0, LocalAnswerIs, OwnPackets
    <3>2. CountId(t, "SUBACK", id) = 0
      BY <3>1, CountingIds
    <3>3. CountId(p2c \o t, "SUBACK", id) = CountId(p2c, "SUBACK", id) + CountId(t, "SUBACK", id)
      BY <1>1, <3>1, CountingIds
    <3>4. QED
      BY <1>2, <3>2, <3>3
  <2>2. /\ c2p # << >> /\ c2p' = Tail(c2p) /\ p2c' = p2c \o t /\ UNCHANGED <<snap, leftover>>
        /\ \/ /\ phase = "connected" /\ UNCHANGED buffer
              /\ \/ phase' = "connected" /\ UNCHANGED b2p /\ (p2b' = Append(p2b, p) \/ p2b' = p2b)
                 \/ phase' = "outage"
           \/ /\ phase = "outage" /\ phase' \in {"outage", "ended"}
              /\ buffer' = Append(buffer, p) \/ buffer' = buffer
    BY <1>4, <2>0 DEF ForwardClientPacket, service_outage_packet, Push, End
  <2>3. CountId(c2p', "SUBSCRIBE", id) \in Nat /\ b = CountId(c2p', "SUBSCRIBE", id) + one
    <3>1. IsSeq(Tail(c2p))
      BY <1>1, <2>2, TailElements
    <3>2. CountId(Tail(c2p), "SUBSCRIBE", id) \in Nat
      BY <3>1, CountingIds
    <3>3. CountId(c2p, "SUBSCRIBE", id) = CountId(Tail(c2p), "SUBSCRIBE", id)
            + (IF Head(c2p).type = "SUBSCRIBE" /\ Head(c2p).id = id THEN 1 ELSE 0)
      BY <1>1, <2>2, CountingIds
    <3>4. QED
      BY <1>2, <2>0, <2>2, <3>2, <3>3
  <2>4. one \in {0, 1}
    BY <2>0
  <2>5. CountId(Append(p2b, p), "SUBSCRIBE", id) = d + one
    <3>1. CountId(Append(p2b, p), "SUBSCRIBE", id)
            = CountId(p2b, "SUBSCRIBE", id) + (IF p.type = "SUBSCRIBE" /\ p.id = id THEN 1 ELSE 0)
      BY <1>1, CountingIds
    <3>2. QED
      BY <1>2, <2>0, <3>1
  <2>6. CountId(Append(buffer, p), "SUBSCRIBE", id) = c + one
    <3>1. CountId(Append(buffer, p), "SUBSCRIBE", id)
            = CountId(buffer, "SUBSCRIBE", id) + (IF p.type = "SUBSCRIBE" /\ p.id = id THEN 1 ELSE 0)
      BY <1>1, CountingIds
    <3>2. QED
      BY <1>2, <2>0, <3>1
  <2>7. CountId(p2c', "SUBACK", id) = h
    BY <2>1, <2>2
  <2>8. CASE phase = "connected"
    <3>1. Subscribing(id) = a + b + c + (d + e + f) + g + h
      BY <1>2, <2>8 DEF Subscribing
    <3>2. CASE phase' = "connected"
      <4>1. CountId(p2b', "SUBSCRIBE", id) \in {d, d + one}
        BY <1>2, <2>2, <2>5, <2>8, <3>2
      <4>2. Subscribing(id)' = a + CountId(c2p', "SUBSCRIBE", id) + c
                               + (CountId(p2b', "SUBSCRIBE", id) + e + f) + g + h
        BY <1>2, <2>2, <2>7, <2>8, <3>2 DEF Subscribing
      <4>3. QED
        BY <1>2, <2>3, <2>4, <3>1, <4>1, <4>2
    <3>3. CASE phase' = "outage"
      <4>1. Subscribing(id)' = a + CountId(c2p', "SUBSCRIBE", id) + c + 0 + g + h
        BY <1>2, <2>2, <2>7, <2>8, <3>3 DEF Subscribing
      <4>2. QED
        BY <1>2, <2>3, <2>4, <3>1, <4>1
    <3>4. QED
      BY <2>2, <2>8, <3>2, <3>3
  <2>9. CASE phase = "outage"
    <3>1. Subscribing(id) = a + b + c + 0 + g + h
      BY <1>2, <2>9 DEF Subscribing
    <3>2. CountId(buffer', "SUBSCRIBE", id) \in {c, c + one}
      BY <1>2, <2>2, <2>6, <2>9
    <3>3. Subscribing(id)' = a + CountId(c2p', "SUBSCRIBE", id) + CountId(buffer', "SUBSCRIBE", id)
                             + 0 + g + h
      BY <1>2, <2>2, <2>7, <2>9 DEF Subscribing
    <3>4. QED
      BY <1>2, <2>3, <2>4, <3>1, <3>2, <3>3
  <2>10. QED
    BY <2>2, <2>8, <2>9
<1>5. CASE ForwardBrokerPacket \/ InterceptDisconnect
  <2>0. PICK p, t : p = Head(b2p) /\ t = Tail(b2p)
    OBVIOUS
  <2>1. /\ b2p # << >> /\ phase = "connected" /\ UNCHANGED <<snap, c2p, buffer>>
        /\ \/ phase' = "connected" /\ b2p' = t /\ UNCHANGED <<p2b, leftover>>
              /\ (p2c' = p2c \/ p2c' = Append(p2c, p))
           \/ phase' = "outage" /\ leftover' = t /\ p2c' = p2c
           \/ phase' = "ended" /\ leftover' = leftover /\ p2c' = Append(p2c, p) /\ p.type = "DISCONNECT"
    BY <1>5, <2>0 DEF ForwardBrokerPacket, InterceptDisconnect, HeadIs, End
  <2>2. PICK one : one = IF p.type = "SUBACK" /\ p.id = id THEN 1 ELSE 0
    OBVIOUS
  <2>3. CountId(t, "SUBACK", id) \in Nat /\ f = CountId(t, "SUBACK", id) + one /\ one \in {0, 1}
    <3>1. IsSeq(Tail(b2p))
      BY <1>1, <2>1, TailElements
    <3>2. CountId(Tail(b2p), "SUBACK", id) \in Nat
      BY <3>1, CountingIds
    <3>3. CountId(b2p, "SUBACK", id) = CountId(Tail(b2p), "SUBACK", id)
            + (IF Head(b2p).type = "SUBACK" /\ Head(b2p).id = id THEN 1 ELSE 0)
      BY <1>1, <2>1, CountingIds
    <3>4. QED
      BY <1>2, <2>0, <2>2, <3>2, <3>3
  <2>4. CountId(Append(p2c, p), "SUBACK", id) = h + one
    <3>1. CountId(Append(p2c, p), "SUBACK", id)
            = CountId(p2c, "SUBACK", id) + (IF p.type = "SUBACK" /\ p.id = id THEN 1 ELSE 0)
      BY <1>1, CountingIds
    <3>2. QED
      BY <1>2, <2>2, <3>1
  <2>5. Subscribing(id) = a + b + c + (d + e + f) + g + h
    BY <1>2, <2>1 DEF Subscribing
  <2>6. CASE phase' = "connected"
    <3>1. CountId(p2c', "SUBACK", id) \in {h, h + one}
      BY <1>2, <2>1, <2>4, <2>6
    <3>2. Subscribing(id)' = a + b + c + (d + e + CountId(t, "SUBACK", id)) + g
                             + CountId(p2c', "SUBACK", id)
      BY <1>2, <2>1, <2>6 DEF Subscribing
    <3>3. QED
      BY <1>2, <2>3, <2>5, <3>1, <3>2
  <2>7. CASE phase' = "outage"
    <3>1. Subscribing(id)' = a + b + c + 0 + CountId(t, "SUBACK", id) + h
      BY <1>2, <2>1, <2>7 DEF Subscribing
    <3>2. QED
      BY <1>2, <2>3, <2>5, <3>1
  <2>8. CASE phase' = "ended"
    <3>1. Subscribing(id)' = a + b + c + 0 + g + CountId(Append(p2c, p), "SUBACK", id) /\ one = 0
      BY <1>2, <2>1, <2>2, <2>8 DEF Subscribing
    <3>2. QED
      BY <1>2, <2>4, <2>5, <3>1
  <2>9. QED
    BY <2>1, <2>6, <2>7, <2>8
<1>6. QED
  BY <1>4, <1>5

\* A step that ends the session, or one of establish_broker before the replay, adds none.
LEMMA EstablishCounts ==
  ASSUME TypeOK, NEW id,
         \/ BrokerEof \/ ClientGone \/ KeepaliveTimeout \/ EstablishFails
         \/ ConnectBroker \/ RecvConnack \/ RecvSuback
  PROVE  Subscribing(id)' <= Subscribing(id)
<1>1. StreamsOK /\ IsSeq(p2c)
  BY DEF TypeOK, StreamsOK
<1>2. PICK a, b, c, d, e, f, g, h :
        /\ a = CountId(snap.client_buf, "SUBSCRIBE", id) /\ b = CountId(c2p, "SUBSCRIBE", id)
        /\ c = CountId(buffer, "SUBSCRIBE", id) /\ d = CountId(p2b, "SUBSCRIBE", id)
        /\ e = CountId(snap.broker_buf, "SUBACK", id) /\ f = CountId(b2p, "SUBACK", id)
        /\ g = CountId(leftover, "SUBACK", id) /\ h = CountId(p2c, "SUBACK", id)
        /\ a \in Nat /\ b \in Nat /\ c \in Nat /\ d \in Nat /\ e \in Nat /\ f \in Nat
        /\ g \in Nat /\ h \in Nat
  BY <1>1, SubCounts
<1>3. CountId(<< >>, "SUBACK", id) = 0
  BY ShortSeqs, CountingIds
<1>4. PICK p : p = PktWith("DISCONNECT", NoId, "keepalive")
  OBVIOUS
<1>5. CountId(Append(p2c, p), "SUBACK", id) = h
  <2>1. p.type = "DISCONNECT"
    BY <1>4, OwnPackets
  <2>2. CountId(Append(p2c, p), "SUBACK", id)
          = CountId(p2c, "SUBACK", id) + (IF p.type = "SUBACK" /\ p.id = id THEN 1 ELSE 0)
    BY <1>1, CountingIds
  <2>3. QED
    BY <1>2, <2>1, <2>2
<1>6. /\ UNCHANGED <<snap, c2p, buffer>> /\ phase' \notin {"connected", "frozen"}
      /\ leftover' = leftover \/ leftover' = << >>
      /\ p2c' = p2c \/ p2c' = Append(p2c, p)
  BY <1>4 DEF BrokerEof, ClientGone, KeepaliveTimeout, EstablishFails, ConnectBroker, RecvConnack,
     RecvSuback, End, streams
<1>7. CountId(leftover', "SUBACK", id) \in {0, g} /\ CountId(p2c', "SUBACK", id) = h
  BY <1>2, <1>3, <1>5, <1>6
<1>8. Subscribing(id)' = a + b + c + 0 + CountId(leftover', "SUBACK", id) + h
  BY <1>2, <1>6, <1>7 DEF Subscribing
<1>9. Subscribing(id) = a + b + c + (IF phase \in {"connected", "frozen"} THEN d + e + f ELSE 0) + g + h
  BY <1>2 DEF Subscribing
<1>10. QED
  BY <1>2, <1>7, <1>8, <1>9

\* A replay writes the SUBSCRIBEs of the buffer to the broker, once, and the SUBACKs that were
\* left over to the client; what the windows send again is neither.
LEMMA ReplayCounts ==
  ASSUME IInv, StageInv, B2CPublishes, Establishing, NEW id, Replay
  PROVE  Subscribing(id)' <= Subscribing(id)
<1>1. /\ StreamsOK /\ IsSeq(p2c) /\ IsSeq(b2p) /\ IsSeq(buffer) /\ IsSeq(leftover)
      /\ windows \in Windows(Raws(windows.c2b), Raws(windows.b2c))
  BY DEF IInv, TypeOK, StreamsOK
<1>2. PICK a, b, c, g, h :
        /\ a = CountId(snap.client_buf, "SUBSCRIBE", id) /\ b = CountId(c2p, "SUBSCRIBE", id)
        /\ c = CountId(buffer, "SUBSCRIBE", id)
        /\ g = CountId(leftover, "SUBACK", id) /\ h = CountId(p2c, "SUBACK", id)
        /\ a \in Nat /\ b \in Nat /\ c \in Nat /\ g \in Nat /\ h \in Nat
  BY <1>1, SubCounts
<1>3. CountId(<< >>, "SUBSCRIBE", id) = 0 /\ CountId(<< >>, "SUBACK", id) = 0
  BY ShortSeqs, CountingIds
<1>4. /\ phase = "replay" /\ phase' = "connected" /\ p2b = << >> /\ snap = NoSnap
      /\ \A p \in Range(b2p) : p.type # "SUBACK"
  BY <1>1 DEF Replay, Establishing, StreamsOK
<1>5. PICK r, s : r = broker_retransmits(windows) /\ s = client_retransmits(windows)
  OBVIOUS
<1>6. /\ UNCHANGED <<c2p, b2p, snap>> /\ buffer' = << >> /\ leftover' = << >>
      /\ p2c' = (p2c \o leftover) \o s
      /\ p2b' = << >> \/ p2b' = << >> \o (r \o buffer)
  BY <1>4, <1>5 DEF Replay, BrokerWrites
<1>7. IsSeq(r) /\ CountId(r, "SUBSCRIBE", id) = 0
  <2>1. IsSeq(r) /\ \A p \in Range(r) : \E q \in Raws(windows.c2b) : p = q \/ p = with_dup(q)
    BY <1>1, <1>5, BrokerRetransmits
  <2>2. \A q \in Raws(windows.c2b) : q.type # "SUBSCRIBE"
    <3>1. \A e \in Range(windows.c2b) : Fits(e)
      BY DEF StageInv, Fits
    <3>2. QED
      BY <3>1, RawTypes
  <2>3. \A p \in Range(r) : p.type # "SUBSCRIBE"
    BY <2>1, <2>2 DEF with_dup, Packet
  <2>4. QED
    BY <2>1, <2>3, CountingIds
<1>8. IsSeq(s) /\ CountId(s, "SUBACK", id) = 0
  <2>1. IsSeq(s) /\ \A p \in Range(s) : \E q \in Raws(windows.b2c) : p = with_dup(q)
    BY <1>1, <1>5, ClientRetransmits
  <2>2. \A p \in Range(s) : p.type # "SUBACK"
    BY <2>1 DEF B2CPublishes, with_dup, Packet
  <2>3. QED
    BY <2>1, <2>2, CountingIds
<1>9. CountId(p2b', "SUBSCRIBE", id) \in {0, c}
  <2>1. IsSeq(r \o buffer) /\ << >> \o (r \o buffer) = r \o buffer
    BY <1>1, <1>7, ConcatElements DEF IsSeq
  <2>2. CountId(r \o buffer, "SUBSCRIBE", id) = CountId(r, "SUBSCRIBE", id) + CountId(buffer, "SUBSCRIBE", id)
    BY <1>1, <1>7, CountingIds
  <2>3. CountId(r \o buffer, "SUBSCRIBE", id) = c
    BY <1>2, <1>7, <2>2
  <2>4. QED
    BY <1>3, <1>6, <2>1, <2>3
<1>10. CountId(p2c', "SUBACK", id) = h + g
  <2>1. IsSeq(p2c \o leftover)
    BY <1>1, ConcatElements
  <2>2. CountId(p2c \o leftover, "SUBACK", id) = CountId(p2c, "SUBACK", id) + CountId(leftover, "SUBACK", id)
    BY <1>1, CountingIds
  <2>3. CountId((p2c \o leftover) \o s, "SUBACK", id)
          = CountId(p2c \o leftover, "SUBACK", id) + CountId(s, "SUBACK", id)
    BY <1>8, <2>1, CountingIds
  <2>4. QED
    BY <1>2, <1>6, <1>8, <2>2, <2>3
<1>11. CountId(b2p, "SUBACK", id) = 0 /\ snap.broker_buf = << >>
  BY <1>1, <1>4, CountingIds DEF NoSnap
<1>12. Subscribing(id)' = a + b + 0 + (CountId(p2b', "SUBSCRIBE", id) + 0 + 0) + 0 + (h + g)
  BY <1>2, <1>3, <1>4, <1>6, <1>10, <1>11 DEF Subscribing
<1>13. Subscribing(id) = a + b + c + 0 + g + h
  BY <1>2, <1>4 DEF Subscribing
<1>14. QED
  BY <1>2, <1>9, <1>12, <1>13

\* A freeze cuts each stream in two, a thaw puts the parts together again.
LEMMA FreezeCounts ==
  ASSUME TypeOK, StageInv, NEW id, StreamsOK', Freeze \/ ResumeSession \/ adopt_session
  PROVE  Subscribing(id)' <= Subscribing(id)
<1>1. /\ StreamsOK /\ IsSeq(c2p) /\ IsSeq(b2p) /\ IsSeq(snap.client_buf) /\ IsSeq(snap.broker_buf)
      /\ IsSeq(c2p') /\ IsSeq(b2p') /\ IsSeq(snap'.client_buf) /\ IsSeq(snap'.broker_buf)
  BY DEF TypeOK, StreamsOK
<1>2. PICK a, b, c, d, e, f, g, h :
        /\ a = CountId(snap.client_buf, "SUBSCRIBE", id) /\ b = CountId(c2p, "SUBSCRIBE", id)
        /\ c = CountId(buffer, "SUBSCRIBE", id) /\ d = CountId(p2b, "SUBSCRIBE", id)
        /\ e = CountId(snap.broker_buf, "SUBACK", id) /\ f = CountId(b2p, "SUBACK", id)
        /\ g = CountId(leftover, "SUBACK", id) /\ h = CountId(p2c, "SUBACK", id)
        /\ a \in Nat /\ b \in Nat /\ c \in Nat /\ d \in Nat /\ e \in Nat /\ f \in Nat
        /\ g \in Nat /\ h \in Nat
  BY <1>1, SubCounts
<1>3. CountId(<< >>, "SUBSCRIBE", id) = 0 /\ CountId(<< >>, "SUBACK", id) = 0
  BY ShortSeqs, CountingIds
<1>4. CASE Freeze
  <2>1. PICK i \in 0..Len(c2p), j \in 0..Len(b2p) :
          /\ snap'.client_buf = SubSeq(c2p, 1, i) /\ c2p' = SubSeq(c2p, i + 1, Len(c2p))
          /\ snap'.broker_buf = SubSeq(b2p, 1, j) /\ b2p' = SubSeq(b2p, j + 1, Len(b2p))
    <3>1. PICK i \in 0..Len(c2p), j \in 0..Len(b2p) :
            /\ snap' = [client_buf    |-> SubSeq(c2p, 1, i),
                        broker_buf    |-> SubSeq(b2p, 1, j),
                        windows       |-> snapshot(windows),
                        subscriptions |-> subscriptions,
                        buffered      |-> buffer]
            /\ c2p' = SubSeq(c2p, i + 1, Len(c2p)) /\ b2p' = SubSeq(b2p, j + 1, Len(b2p))
      BY <1>4, Zenon DEF Freeze
    <3>2. snap'.client_buf = SubSeq(c2p, 1, i) /\ snap'.broker_buf = SubSeq(b2p, 1, j)
      BY <3>1
    <3>3. QED
      BY <3>1, <3>2
  <2>2. snap'.client_buf \o c2p' = c2p /\ snap'.broker_buf \o b2p' = b2p
    BY <1>1, <2>1, CutSeq
  <2>3. PICK s, t, u, v : s = snap'.client_buf /\ t = c2p' /\ u = snap'.broker_buf /\ v = b2p'
    OBVIOUS
  <2>4. /\ CountId(s, "SUBSCRIBE", id) \in Nat /\ CountId(t, "SUBSCRIBE", id) \in Nat
        /\ CountId(u, "SUBACK", id) \in Nat /\ CountId(v, "SUBACK", id) \in Nat
        /\ CountId(s \o t, "SUBSCRIBE", id) = CountId(s, "SUBSCRIBE", id) + CountId(t, "SUBSCRIBE", id)
        /\ CountId(u \o v, "SUBACK", id) = CountId(u, "SUBACK", id) + CountId(v, "SUBACK", id)
    <3>1. IsSeq(s) /\ IsSeq(t) /\ IsSeq(u) /\ IsSeq(v)
      BY <1>1, <2>3
    <3>2. /\ CountId(s, "SUBSCRIBE", id) \in Nat /\ CountId(t, "SUBSCRIBE", id) \in Nat
          /\ CountId(u, "SUBACK", id) \in Nat /\ CountId(v, "SUBACK", id) \in Nat
      BY <3>1, CountingIds
    <3>3. CountId(s \o t, "SUBSCRIBE", id) = CountId(s, "SUBSCRIBE", id) + CountId(t, "SUBSCRIBE", id)
      BY <3>1, CountingIds
    <3>4. CountId(u \o v, "SUBACK", id) = CountId(u, "SUBACK", id) + CountId(v, "SUBACK", id)
      BY <3>1, CountingIds
    <3>5. QED
      BY <3>2, <3>3, <3>4
  <2>5. PICK x, y, z, w : /\ x = CountId(s, "SUBSCRIBE", id) /\ y = CountId(t, "SUBSCRIBE", id)
                          /\ z = CountId(u, "SUBACK", id) /\ w = CountId(v, "SUBACK", id)
    OBVIOUS
  <2>6. x + y = b /\ z + w = f /\ x \in Nat /\ y \in Nat /\ z \in Nat /\ w \in Nat
    BY <1>2, <2>2, <2>3, <2>4, <2>5
  <2>7. /\ phase' = "frozen" /\ UNCHANGED <<p2b, p2c, buffer, leftover>> /\ phase \in {"connected", "outage"}
    BY <1>4 DEF Freeze
  <2>8. Subscribing(id)' = b + c + (d + f) + g + h
    <3>1. Subscribing(id)' = x + y + c + (d + z + w) + g + h
      BY <1>2, <2>3, <2>5, <2>7 DEF Subscribing
    <3>2. ASSUME NEW A \in Nat, NEW B \in Nat, NEW C \in Nat, NEW D \in Nat, NEW E \in Nat,
                 NEW F \in Nat, NEW G \in Nat, NEW H \in Nat, NEW K \in Nat, NEW L \in Nat,
                 A + B = K, E + F = L
          PROVE  A + B + C + (D + E + F) + G + H = K + C + (D + L) + G + H
      BY <3>2
    <3>3. x + y + c + (d + z + w) + g + h = b + c + (d + f) + g + h
      BY <1>2, <2>6, <3>2, SMTT(30)
    <3>4. QED
      BY <3>1, <3>3
  <2>9. a = 0 /\ e = 0
    <3>1. snap.client_buf = << >> /\ snap.broker_buf = << >>
      BY <1>1, <2>7 DEF StreamsOK, NoSnap
    <3>2. QED
      BY <1>2, <1>3, <3>1
  <2>10. CASE phase = "connected"
    <3>1. Subscribing(id) = 0 + b + c + (d + 0 + f) + g + h
      BY <1>2, <2>9, <2>10 DEF Subscribing
    <3>2. ASSUME NEW A \in Nat, NEW B \in Nat, NEW C \in Nat, NEW D \in Nat, NEW E \in Nat,
                 NEW F \in Nat
          PROVE  A + B + (C + D) + E + F <= 0 + A + B + (C + 0 + D) + E + F
      BY <3>2
    <3>3. b + c + (d + f) + g + h <= 0 + b + c + (d + 0 + f) + g + h
      BY <1>2, <3>2, ZenonT(60)
    <3>4. QED
      BY <2>8, <3>1, <3>3
  <2>11. CASE phase = "outage"
    <3>1. link = "none" /\ p2b = << >> /\ Range(b2p) = {}
      BY <2>11 DEF TypeOK, ControlOK, StageInv, Alive, FromBrokerSocket
    <3>2. d = 0 /\ f = 0
      <4>1. b2p = << >>
        BY <1>1, <3>1, NothingInside
      <4>2. QED
        BY <1>2, <1>3, <3>1, <4>1
    <3>3. Subscribing(id) = 0 + b + c + 0 + g + h
      BY <1>2, <2>9, <2>11 DEF Subscribing
    <3>4. Subscribing(id)' = b + c + (0 + 0) + g + h
      BY <2>8, <3>2
    <3>5. b \in Nat /\ c \in Nat /\ g \in Nat /\ h \in Nat
      BY <1>2
    <3>6. QED
      BY <3>3, <3>4, <3>5
  <2>12. QED
    BY <2>7, <2>10, <2>11
<1>5. CASE ResumeSession \/ adopt_session
  <2>1. /\ phase = "frozen" /\ UNCHANGED <<p2c, buffer>> /\ c2p' = snap.client_buf \o c2p /\ snap' = NoSnap
        /\ \/ phase' = "outage" /\ UNCHANGED leftover
           \/ phase' = "connected" /\ UNCHANGED <<leftover, p2b>> /\ b2p' = snap.broker_buf \o b2p
           \/ phase' = "outage" /\ leftover' = snap.broker_buf
    BY <1>5, ThawMoves DEF ResumeSession, adopt_session, Restored
  <2>2. /\ CountId(snap.client_buf \o c2p, "SUBSCRIBE", id)
             = CountId(snap.client_buf, "SUBSCRIBE", id) + CountId(c2p, "SUBSCRIBE", id)
        /\ CountId(snap.broker_buf \o b2p, "SUBACK", id)
             = CountId(snap.broker_buf, "SUBACK", id) + CountId(b2p, "SUBACK", id)
    BY <1>1, CountingIds
  <2>3. CountId(c2p', "SUBSCRIBE", id) = a + b /\ CountId(snap.broker_buf \o b2p, "SUBACK", id) = e + f
    BY <1>2, <2>1, <2>2
  <2>4. snap'.client_buf = << >> /\ snap'.broker_buf = << >>
    BY <2>1 DEF NoSnap
  <2>5. Subscribing(id) = a + b + c + (d + e + f) + g + h
    BY <1>2, <2>1 DEF Subscribing
  <2>6. CASE phase' = "connected"
    <3>1. Subscribing(id)' = 0 + (a + b) + c + (d + 0 + (e + f)) + g + h
      BY <1>2, <1>3, <2>1, <2>3, <2>4, <2>6 DEF Subscribing
    <3>2. QED
      BY <1>2, <2>5, <3>1
  <2>7. CASE phase' = "outage"
    <3>1. CountId(leftover', "SUBACK", id) \in {g, e}
      BY <1>2, <2>1, <2>7
    <3>2. Subscribing(id)' = 0 + (a + b) + c + 0 + CountId(leftover', "SUBACK", id) + h
      BY <1>2, <1>3, <2>1, <2>3, <2>4, <2>7 DEF Subscribing
    <3>3. QED
      BY <1>2, <2>5, <3>1, <3>2
  <2>8. QED
    BY <2>1, <2>6, <2>7
<1>6. QED
  BY <1>4, <1>5

\* The proxy changes no slot of the client.
LEMMA ProxySubscribesOnce ==
  ASSUME IInv, StageInv, B2CPublishes, Establishing, SubscribesOnce, StreamsOK', Proxy
  PROVE  SubscribesOnce'
<1>1. UNCHANGED <<cOut, cIds>>
  BY ProxyKeepsPeers DEF PeersKept, clientVars
<1>2. ASSUME NEW id PROVE Subscribing(id)' <= Subscribing(id)
  BY ForwardCounts, EstablishCounts, ReplayCounts, FreezeCounts, Zenon DEF Proxy, IInv
<1>3. ASSUME NEW id
      PROVE  Subscribing(id)' \in Nat /\ Subscribing(id) \in Nat
  <2>1. StreamsOK
    BY DEF IInv, TypeOK
  <2>2. \A s : IsSeq(s) => CountId(s, "SUBSCRIBE", id) \in Nat /\ CountId(s, "SUBACK", id) \in Nat
    BY CountingIds
  <2>3. QED
    <3>1. /\ CountId(snap.client_buf, "SUBSCRIBE", id) \in Nat /\ CountId(c2p, "SUBSCRIBE", id) \in Nat
          /\ CountId(buffer, "SUBSCRIBE", id) \in Nat /\ CountId(p2b, "SUBSCRIBE", id) \in Nat
          /\ CountId(snap.broker_buf, "SUBACK", id) \in Nat /\ CountId(b2p, "SUBACK", id) \in Nat
          /\ CountId(leftover, "SUBACK", id) \in Nat /\ CountId(p2c, "SUBACK", id) \in Nat
      BY <2>1, <2>2 DEF StreamsOK
    <3>2. /\ CountId(snap'.client_buf, "SUBSCRIBE", id) \in Nat /\ CountId(c2p', "SUBSCRIBE", id) \in Nat
          /\ CountId(buffer', "SUBSCRIBE", id) \in Nat /\ CountId(p2b', "SUBSCRIBE", id) \in Nat
          /\ CountId(snap'.broker_buf, "SUBACK", id) \in Nat /\ CountId(b2p', "SUBACK", id) \in Nat
          /\ CountId(leftover', "SUBACK", id) \in Nat /\ CountId(p2c', "SUBACK", id) \in Nat
      BY <2>2 DEF StreamsOK
    <3>3. QED
      BY <3>1, <3>2 DEF Subscribing
<1>4. ASSUME NEW id PROVE Subscribing(id)' <= Waits(id)'
  <2>1. Subscribing(id) <= Waits(id) /\ Waits(id) \in Nat /\ Waits(id)' = Waits(id)
    BY <1>1 DEF SubscribesOnce, Waits
  <2>2. QED
    BY <1>2, <1>3, <2>1
<1>5. QED
  BY <1>4 DEF SubscribesOnce

\* The answers of a connection that is being established come one at a time.
LEMMA ProxyEstablishing ==
  ASSUME TypeOK, StreamsOK', StageInv, Establishing, Proxy
  PROVE  Establishing'
<1>1. IsSeq(b2p) /\ IsSeq(p2b)
  BY DEF TypeOK, StreamsOK
<1>2. CASE ConnectBroker
  <2>1. link = "none" /\ Range(b2p) = {} /\ phase' = "connack" /\ b2p' = b2p
        /\ p2b' = <<force_session_resumption(connect_raw)>> /\ link' = "syn"
    BY <1>2 DEF ConnectBroker, TypeOK, ControlOK, StageInv, FromBrokerSocket
  <2>2. b2p = << >>
    BY <1>1, <2>1, TailElements
  <2>3. Range(p2b') = {force_session_resumption(connect_raw)} /\ Len(p2b') = 1
    BY <2>1, ShortSeqs
  <2>4. QED
    BY <2>1, <2>2, <2>3, OwnPackets DEF Establishing
<1>3. CASE RecvConnack
  <2>1. /\ phase = "connack" /\ b2p # << >> /\ b2p' = Tail(b2p) /\ link' = link
        /\ p2b' = IF Alive THEN p2b \o resubscribe_packet(subscriptions) ELSE p2b
        /\ phase' = IF resubscribe_packet(subscriptions) = << >> THEN "replay" ELSE "suback"
    BY <1>3 DEF RecvConnack, HeadIs
  <2>2. \A p \in Range(b2p') : p.type # "SUBACK"
    BY <1>1, <2>1, TailElements DEF Establishing
  <2>3. \A i \in DOMAIN b2p' : b2p'[i].type # "SUBACK"
    BY <2>2 DEF Range
  <2>4. CASE Alive
    <3>1. link = "up" /\ Len(b2p) <= 1 /\ p2b = << >>
      BY <2>1, <2>4 DEF Alive, Establishing
    <3>2. b2p' = << >>
      BY <1>1, <2>1, <3>1 DEF IsSeq
    <3>3. \/ resubscribe_packet(subscriptions) = << >>
          \/ /\ Len(resubscribe_packet(subscriptions)) = 1
             /\ resubscribe_packet(subscriptions)[1].type = "SUBSCRIBE"
      BY OwnPackets DEF resubscribe_packet
    <3>4. p2b' = resubscribe_packet(subscriptions)
      <4>1. \A s : IsSeq(s) => << >> \o s = s
        BY DEF IsSeq
      <4>2. QED
        BY <2>1, <2>4, <3>1, <4>1, OwnPackets
    <3>5. QED
      BY <2>1, <2>2, <2>3, <3>2, <3>3, <3>4 DEF Establishing
  <2>5. CASE ~ Alive
    <3>1. p2b' = << >>
      BY <2>1, <2>5 DEF StageInv
    <3>2. QED
      BY <2>1, <2>2, <2>3, <3>1 DEF Establishing
  <2>6. QED
    BY <2>4, <2>5
<1>4. CASE RecvSuback
  <2>1. phase = "suback" /\ b2p # << >> /\ b2p' = Tail(b2p) /\ p2b' = p2b /\ phase' = "replay"
    BY <1>4 DEF RecvSuback
  <2>2. p2b = << >> /\ \A i \in DOMAIN b2p : b2p[i].type = "SUBACK" => i = 1
    BY <2>1 DEF Establishing
  <2>3. \A i \in DOMAIN Tail(b2p) : i + 1 \in DOMAIN b2p /\ Tail(b2p)[i] = b2p[i + 1] /\ i \in Nat /\ i # 0
    BY <1>1, <2>1 DEF IsSeq
  <2>4. \A i \in DOMAIN Tail(b2p) : Tail(b2p)[i].type # "SUBACK"
    BY <2>2, <2>3
  <2>5. QED
    BY <2>1, <2>2, <2>4 DEF Establishing, Range
<1>5. ASSUME ~ ConnectBroker, ~ RecvConnack, ~ RecvSuback PROVE Establishing'
  <2>1. phase' \notin {"connack", "suback", "replay"}
    BY <1>5 DEF Proxy, ForwardClientPacket, ForwardBrokerPacket, InterceptDisconnect, BrokerEof, ClientGone,
       KeepaliveTimeout, service_outage_packet, EstablishFails, Replay, Freeze, ResumeSession,
       adopt_session, End, Push
  <2>2. QED
    BY <2>1 DEF Establishing
<1>6. QED
  BY <1>2, <1>3, <1>4, <1>5

\* What a step of a peer leaves alone of the count.
Kept(id) ==
  CountId(snap.client_buf, "SUBSCRIBE", id) + CountId(buffer, "SUBSCRIBE", id)
  + (IF phase \in {"connected", "frozen"} THEN CountId(snap.broker_buf, "SUBACK", id) ELSE 0)
  + CountId(leftover, "SUBACK", id)

\* What it may change.
Loose(id) ==
  CountId(c2p, "SUBSCRIBE", id)
  + (IF phase \in {"connected", "frozen"}
     THEN CountId(p2b, "SUBSCRIBE", id) + CountId(b2p, "SUBACK", id) ELSE 0)
  + CountId(p2c, "SUBACK", id)

\* The count in the two parts, before and after a step of a peer.
LEMMA PeerCounts ==
  ASSUME StreamsOK, StreamsOK', UNCHANGED proxyVars, NEW id
  PROVE  /\ Kept(id) \in Nat /\ Loose(id) \in Nat /\ Loose(id)' \in Nat
         /\ Subscribing(id) = Kept(id) + Loose(id) /\ Subscribing(id)' = Kept(id) + Loose(id)'
<1>1. \A s : IsSeq(s) => CountId(s, "SUBSCRIBE", id) \in Nat /\ CountId(s, "SUBACK", id) \in Nat
  BY CountingIds
<1>2. PICK a, b, c, d, e, f, g, h :
        /\ a = CountId(snap.client_buf, "SUBSCRIBE", id) /\ b = CountId(c2p, "SUBSCRIBE", id)
        /\ c = CountId(buffer, "SUBSCRIBE", id) /\ d = CountId(p2b, "SUBSCRIBE", id)
        /\ e = CountId(snap.broker_buf, "SUBACK", id) /\ f = CountId(b2p, "SUBACK", id)
        /\ g = CountId(leftover, "SUBACK", id) /\ h = CountId(p2c, "SUBACK", id)
        /\ a \in Nat /\ b \in Nat /\ c \in Nat /\ d \in Nat /\ e \in Nat /\ f \in Nat
        /\ g \in Nat /\ h \in Nat
  BY SubCounts
<1>3. PICK i, j, k, l :
        /\ i = CountId(c2p', "SUBSCRIBE", id) /\ j = CountId(p2b', "SUBSCRIBE", id)
        /\ k = CountId(b2p', "SUBACK", id) /\ l = CountId(p2c', "SUBACK", id)
        /\ i \in Nat /\ j \in Nat /\ k \in Nat /\ l \in Nat
  BY <1>1 DEF StreamsOK
<1>4. UNCHANGED <<phase, snap, buffer, leftover>>
  BY DEF proxyVars
<1>5. Kept(id) = a + c + (IF phase \in {"connected", "frozen"} THEN e ELSE 0) + g
  BY <1>2 DEF Kept
<1>6. Loose(id) = b + (IF phase \in {"connected", "frozen"} THEN d + f ELSE 0) + h
  BY <1>2 DEF Loose
<1>7. Loose(id)' = i + (IF phase \in {"connected", "frozen"} THEN j + k ELSE 0) + l
  BY <1>3, <1>4 DEF Loose
<1>8. Subscribing(id) = a + b + c + (IF phase \in {"connected", "frozen"} THEN d + e + f ELSE 0) + g + h
  BY <1>2 DEF Subscribing
<1>9. Subscribing(id)' = a + i + c + (IF phase \in {"connected", "frozen"} THEN j + e + k ELSE 0) + g + l
  BY <1>2, <1>3, <1>4 DEF Subscribing
<1>10. CASE phase \in {"connected", "frozen"}
  <2>1. /\ Kept(id) = a + c + e + g /\ Loose(id) = b + (d + f) + h /\ Loose(id)' = i + (j + k) + l
        /\ Subscribing(id) = a + b + c + (d + e + f) + g + h
        /\ Subscribing(id)' = a + i + c + (j + e + k) + g + l
    BY <1>5, <1>6, <1>7, <1>8, <1>9, <1>10
  <2>2. ASSUME NEW A \in Nat, NEW B \in Nat, NEW C \in Nat, NEW D \in Nat, NEW E \in Nat,
               NEW F \in Nat, NEW G \in Nat, NEW H \in Nat
        PROVE  /\ A + C + E + G \in Nat /\ B + (D + F) + H \in Nat
               /\ A + B + C + (D + E + F) + G + H = (A + C + E + G) + (B + (D + F) + H)
    OBVIOUS
  <2>3. /\ Kept(id) \in Nat /\ Loose(id) \in Nat /\ Subscribing(id) = Kept(id) + Loose(id)
    BY <1>2, <2>1, <2>2
  <2>4. /\ Loose(id)' \in Nat /\ Subscribing(id)' = Kept(id) + Loose(id)'
    BY <1>2, <1>3, <2>1, <2>2
  <2>5. QED
    BY <2>3, <2>4
<1>11. CASE phase \notin {"connected", "frozen"}
  BY <1>2, <1>3, <1>5, <1>6, <1>7, <1>8, <1>9, <1>11
<1>12. QED
  BY <1>10, <1>11

\* A SUBSCRIBE of the client has an id it waits for from then on, and that was not used before.
LEMMA ClientStepsCount ==
  ASSUME IInv, StreamsOK', ~ Reuse, SubscribesOnce, UNCHANGED proxyVars, ClientSteps
  PROVE  SubscribesOnce'
<1>1. StreamsOK /\ IsSeq(c2p) /\ cIds \in Nat /\ MaxId \in Nat /\ Ids = 1..MaxId /\ DOMAIN cOut = Ids
      /\ NoId = 0 /\ cIds \in 0..MaxId
  BY EndpointsAssumption DEF IInv, TypeOK, StreamsOK, AckInv, Ids, NoId
<1>2. PICK p, st :
        /\ UNCHANGED <<p2c, p2b, b2p>>
        /\ \/ (c2p' = c2p \/ c2p' = Append(c2p, p)) /\ UNCHANGED <<cOut, cIds>> /\ p.type # "SUBSCRIBE"
           \/ /\ c2p' = Append(c2p, p) /\ cOut' = [cOut EXCEPT ![cIds + 1] = st] /\ cIds' = cIds + 1
              /\ p.type = "SUBSCRIBE" => p.id = cIds + 1 /\ st.st = "sub"
              /\ cIds + 1 \in Ids
  <2>1. CASE ClientPublish
    <3>1. PICK q, m, id : /\ ClientSends(PublishPkt(id, q, m), "pub")
                          /\ id = NoId \/ id \in NextIds(cBusy, cIds)
      BY <2>1 DEF ClientPublish
    <3>2. PublishPkt(id, q, m).type = "PUBLISH" /\ PublishPkt(id, q, m).id = id
      BY DEF PublishPkt, Packet
    <3>3. id = NoId \/ (id = cIds + 1 /\ id # NoId /\ id \in Ids)
      BY <1>1, <3>1, FreshId
    <3>4. QED
      BY <3>1, <3>2, <3>3 DEF ClientSends
  <2>2. CASE ClientSubscribe
    <3>1. PICK id, body : /\ id \in NextIds(cBusy, cIds)
                         /\ ClientSends(PktWith("SUBSCRIBE", id, body), "sub")
      BY <2>2 DEF ClientSubscribe
    <3>2. PktWith("SUBSCRIBE", id, body).id = id
      BY DEF PktWith, Packet
    <3>3. id = cIds + 1 /\ id # NoId /\ id \in Ids
      BY <1>1, <3>1, FreshId
    <3>4. [st |-> "sub", body |-> PktWith("SUBSCRIBE", id, body).body].st = "sub"
      OBVIOUS
    <3>5. QED
      BY <3>1, <3>2, <3>3, <3>4, Zenon DEF ClientSends
  <2>3. CASE ClientUnsubscribe
    <3>1. PICK id, body : /\ id \in NextIds(cBusy, cIds)
                         /\ ClientSends(PktWith("UNSUBSCRIBE", id, body), "unsub")
      BY <2>3 DEF ClientUnsubscribe
    <3>2. PktWith("UNSUBSCRIBE", id, body).id = id /\ PktWith("UNSUBSCRIBE", id, body).type # "SUBSCRIBE"
      BY DEF PktWith, Packet
    <3>3. id = cIds + 1 /\ id # NoId /\ id \in Ids
      BY <1>1, <3>1, FreshId
    <3>4. QED
      BY <3>1, <3>2, <3>3, Zenon DEF ClientSends
  <2>4. CASE ClientPing
    <3>1. ClientSends(Pkt("PINGREQ", NoId), "free")
      BY <2>4 DEF ClientPing
    <3>2. Pkt("PINGREQ", NoId).id = NoId /\ Pkt("PINGREQ", NoId).type # "SUBSCRIBE"
      BY OwnPackets
    <3>3. QED
      BY <3>1, <3>2, Zenon DEF ClientSends
  <2>5. CASE ClientLeave
    BY <2>5, OwnPackets DEF ClientLeave
  <2>6. QED
    BY <2>1, <2>2, <2>3, <2>4, <2>5 DEF ClientSteps
<1>3. ASSUME NEW id PROVE Subscribing(id)' <= Waits(id)'
  <2>1. PICK one : one = IF p.type = "SUBSCRIBE" /\ p.id = id THEN 1 ELSE 0
    OBVIOUS
  <2>2. CountId(Append(c2p, p), "SUBSCRIBE", id)
          = CountId(c2p, "SUBSCRIBE", id) + (IF p.type = "SUBSCRIBE" /\ p.id = id THEN 1 ELSE 0)
    BY <1>1, CountingIds
  <2>3. CountId(c2p, "SUBSCRIBE", id) \in Nat
    BY <1>1, CountingIds
  <2>4. PICK K, L, M : /\ K = Kept(id) /\ L = Loose(id) /\ M = Loose(id)' /\ K \in Nat /\ L \in Nat /\ M \in Nat
                       /\ Subscribing(id) = K + L /\ Subscribing(id)' = K + M
    BY <1>1, PeerCounts
  <2>5. CountId(c2p', "SUBSCRIBE", id) - CountId(c2p, "SUBSCRIBE", id) \in {0, one}
    <3>1. c2p' = c2p \/ c2p' = Append(c2p, p)
      BY <1>2
    <3>2. CASE c2p' = c2p
      BY <2>3, <3>2
    <3>3. CASE c2p' = Append(c2p, p)
      <4>1. one \in {0, 1} /\ CountId(c2p', "SUBSCRIBE", id) = CountId(c2p, "SUBSCRIBE", id) + one
        BY <2>1, <2>2, <3>3
      <4>2. QED
        BY <2>3, <4>1
    <3>4. QED
      BY <3>1, <3>2, <3>3
  <2>6. M - L = CountId(c2p', "SUBSCRIBE", id) - CountId(c2p, "SUBSCRIBE", id)
    <3>1. PICK x, y, z, i : /\ x = CountId(c2p, "SUBSCRIBE", id) /\ y = CountId(p2c, "SUBACK", id)
                            /\ z = (IF phase \in {"connected", "frozen"}
                                  THEN CountId(p2b, "SUBSCRIBE", id) + CountId(b2p, "SUBACK", id) ELSE 0)
                            /\ i = CountId(c2p', "SUBSCRIBE", id)
                            /\ x \in Nat /\ y \in Nat /\ z \in Nat /\ i \in Nat
      <4>1. StreamsOK' /\ IsSeq(c2p')
        BY DEF StreamsOK
      <4>2. CountId(c2p', "SUBSCRIBE", id) \in Nat
        BY <4>1, CountingIds
      <4>3. QED
        BY <1>1, <4>2, SubCounts
    <3>2. L = x + z + y
      BY <2>4, <3>1 DEF Loose
    <3>3. M = i + z + y
      BY <1>2, <2>4, <3>1 DEF Loose, proxyVars
    <3>4. QED
      BY <3>1, <3>2, <3>3
  <2>7. K + L <= Waits(id) /\ Waits(id) \in {0, 1}
    BY <2>4 DEF SubscribesOnce, Waits
  <2>8. one \in {0, 1} /\ M - L \in {0, one}
    BY <2>1, <2>5, <2>6
  <2>9. CASE one = 1
    <3>1. p.id = id /\ id = cIds + 1 /\ id \in 1..(cIds + 1) /\ Waits(id)' = 1 /\ Waits(id) = 0
      <4>1. p.type = "SUBSCRIBE" /\ p.id = id
        BY <2>1, <2>9
      <4>2. cOut' = [cOut EXCEPT ![cIds + 1] = st] /\ cIds' = cIds + 1 /\ id = cIds + 1 /\ st.st = "sub" /\ id \in Ids
        BY <1>2, <4>1
      <4>3. cOut'[id] = st
        BY <1>1, <4>2
      <4>4. id \in 1..(cIds + 1) /\ id \notin 1..cIds
        BY <1>1, <4>2
      <4>5. QED
        BY <4>1, <4>2, <4>3, <4>4 DEF Waits
    <3>2. QED
      BY <2>4, <2>7, <2>8, <2>9, <3>1
  <2>10. CASE one = 0
    <3>1. Waits(id) <= Waits(id)'
      <4>1. ASSUME id \in 1..cIds PROVE id \in 1..cIds' /\ cOut'[id] = cOut[id]
        BY <1>1, <1>2, <4>1
      <4>2. QED
        BY <4>1 DEF Waits
    <3>2. Waits(id)' \in {0, 1}
      BY DEF Waits
    <3>3. QED
      BY <2>4, <2>7, <2>8, <2>10, <3>1, <3>2
  <2>11. QED
    BY <2>8, <2>9, <2>10
<1>4. QED
  BY <1>3 DEF SubscribesOnce

\* The client stops waiting with the SUBACK it reads, which is then on the way no more.
LEMMA ClientReadsCount ==
  ASSUME IInv, StreamsOK', SubscribesOnce, UNCHANGED proxyVars, ClientReads
  PROVE  SubscribesOnce'
<1>1. StreamsOK /\ IsSeq(c2p) /\ IsSeq(p2c)
  BY DEF IInv, TypeOK, StreamsOK
<1>2. PICK reply : /\ p2c # << >> /\ ClientTakes(reply)
                   /\ \/ reply = << >> \/ (ClientOnPublish /\ reply = Answer(Head(p2c)))
                      \/ \E id : reply = <<Pkt("PUBCOMP", id)>> \/ reply = <<Pkt("PUBREL", id)>>
  BY Zenon DEF ClientReads, ClientOnPublish, ClientOnPubrel, ClientOnPubrec, ClientOnAck, ClientOnSuback,
     ClientOnPingresp, ClientOnDisconnect, HeadIs
<1>3. IsSeq(reply) /\ \A q \in Range(reply) : q.type # "SUBSCRIBE"
  <2>1. ASSUME ClientOnPublish PROVE Head(p2c).qos \in 0..2
    <3>1. Head(p2c) \in ClientBound /\ Head(p2c).type = "PUBLISH"
      BY <1>1, <1>2, <2>1, TailElements DEF ClientBound, ToClient, ClientOnPublish, HeadIs
    <3>2. QED
      BY <3>1 DEF IInv, DeliverInv, BrokerFlow
  <2>2. \/ reply = << >>
        \/ \E id : reply = <<Pkt("PUBCOMP", id)>> \/ reply = <<Pkt("PUBREL", id)>>
        \/ Head(p2c).qos \in 0..2 /\ reply = Answer(Head(p2c))
    BY <1>2, <2>1
  <2>3. QED
    BY <2>2, ShortSeqs, OwnPackets, AnswerIs
<1>4. c2p' = c2p \o reply /\ p2c' = Tail(p2c) /\ UNCHANGED <<p2b, b2p, cIds>>
  BY <1>2 DEF ClientTakes
<1>5. \A id \in 1..cIds :
        cOut[id].st = "sub" =>
          cOut'[id] = cOut[id] \/ (Head(p2c).type = "SUBACK" /\ Head(p2c).id = id)
  <2>1. \/ cOut' = cOut
        \/ \E slot : /\ cOut' = [cOut EXCEPT ![Head(p2c).id] = slot]
                     /\ cOut[Head(p2c).id].st = "sub" => Head(p2c).type = "SUBACK"
    <3>1. CASE ClientOnPubrec
      BY <3>1, Zenon DEF ClientOnPubrec
    <3>2. CASE ClientOnAck
      BY <3>2 DEF ClientOnAck, Completes
    <3>3. CASE ClientOnSuback
      BY <3>3 DEF ClientOnSuback
    <3>4. CASE ClientOnPublish \/ ClientOnPubrel \/ ClientOnPingresp \/ ClientOnDisconnect
      BY <3>4 DEF ClientOnPublish, ClientOnPubrel, ClientOnPingresp, ClientOnDisconnect
    <3>5. QED
      BY <3>1, <3>2, <3>3, <3>4 DEF ClientReads
  <2>2. 1..cIds \subseteq DOMAIN cOut
    BY EndpointsAssumption DEF IInv, AckInv, Ids
  <2>3. QED
    BY <2>1, <2>2
<1>6. ASSUME NEW id PROVE Subscribing(id)' <= Waits(id)'
  <2>1. PICK one : one = IF Head(p2c).type = "SUBACK" /\ Head(p2c).id = id THEN 1 ELSE 0
    OBVIOUS
  <2>2. CountId(c2p', "SUBSCRIBE", id) = CountId(c2p, "SUBSCRIBE", id) /\ CountId(c2p, "SUBSCRIBE", id) \in Nat
    <3>1. CountId(c2p, "SUBSCRIBE", id) \in Nat /\ CountId(reply, "SUBSCRIBE", id) = 0
      BY <1>1, <1>3, CountingIds
    <3>2. CountId(c2p \o reply, "SUBSCRIBE", id)
            = CountId(c2p, "SUBSCRIBE", id) + CountId(reply, "SUBSCRIBE", id)
      BY <1>1, <1>3, CountingIds
    <3>3. QED
      BY <1>4, <3>1, <3>2
  <2>3. /\ CountId(p2c', "SUBACK", id) \in Nat
        /\ CountId(p2c, "SUBACK", id) = CountId(p2c', "SUBACK", id) + one
    <3>1. IsSeq(Tail(p2c))
      BY <1>1, <1>2, TailElements
    <3>2. CountId(Tail(p2c), "SUBACK", id) \in Nat
      BY <3>1, CountingIds
    <3>3. CountId(p2c, "SUBACK", id) = CountId(Tail(p2c), "SUBACK", id)
            + (IF Head(p2c).type = "SUBACK" /\ Head(p2c).id = id THEN 1 ELSE 0)
      BY <1>1, <1>2, CountingIds
    <3>4. QED
      BY <1>4, <2>1, <3>2, <3>3
  <2>4. PICK K, L, M : /\ K = Kept(id) /\ L = Loose(id) /\ M = Loose(id)' /\ K \in Nat /\ L \in Nat /\ M \in Nat
                       /\ Subscribing(id) = K + L /\ Subscribing(id)' = K + M
    BY <1>1, PeerCounts
  <2>5. L = M + one
    <3>1. PICK x, y, z : /\ x = CountId(c2p, "SUBSCRIBE", id) /\ y = CountId(p2c', "SUBACK", id)
                         /\ z = (IF phase \in {"connected", "frozen"}
                                 THEN CountId(p2b, "SUBSCRIBE", id) + CountId(b2p, "SUBACK", id) ELSE 0)
                         /\ x \in Nat /\ y \in Nat /\ z \in Nat
      BY <1>1, <2>2, <2>3, SubCounts
    <3>2. L = x + z + (y + one)
      BY <2>3, <2>4, <3>1 DEF Loose
    <3>3. M = x + z + y
      BY <1>4, <2>2, <2>4, <3>1 DEF Loose, proxyVars
    <3>4. one \in {0, 1}
      BY <2>1
    <3>5. QED
      BY <3>1, <3>2, <3>3, <3>4
  <2>6. K + L <= Waits(id) /\ Waits(id) \in {0, 1} /\ Waits(id)' \in {0, 1} /\ one \in {0, 1}
    BY <2>1, <2>4 DEF SubscribesOnce, Waits
  <2>7. one = 0 => Waits(id)' >= Waits(id)
    BY <1>4, <1>5, <2>1 DEF Waits
  <2>8. QED
    BY <2>4, <2>5, <2>6, <2>7
<1>7. QED
  BY <1>6 DEF SubscribesOnce

\* A broker answers a SUBSCRIBE with one SUBACK, and nothing else with a SUBACK.
LEMMA BrokerReplies ==
  ASSUME IInv,
         \/ BrokerOnPublish \/ BrokerOnPubrel \/ BrokerOnAck \/ BrokerOnPubrec
         \/ BrokerOnSubscribe \/ BrokerOnPing
  PROVE  \E r : /\ BrokerTakes(r) /\ IsSeq(r) /\ p2b # << >>
                /\ IF Head(p2b).type = "SUBSCRIBE" THEN r = <<Pkt("SUBACK", Head(p2b).id)>>
                   ELSE \A q \in Range(r) : q.type # "SUBACK"
<1>1. CASE BrokerOnPublish
  <2>1. PICK p : p = Head(p2b)
    OBVIOUS
  <2>2. p2b # << >> /\ p.type = "PUBLISH" /\ BrokerTakes(Answer(p))
    BY <1>1, <2>1 DEF BrokerOnPublish, HeadIs
  <2>3. ClientFlow(p)
    BY <2>1, <2>2, BrokerHead
  <2>4. p.qos \in 0..2
    BY <2>2, <2>3 DEF ClientFlow
  <2>5. IsSeq(Answer(p)) /\ \A q \in Range(Answer(p)) : q.type \in {"PUBACK", "PUBREC"}
    BY <2>4, AnswerIs
  <2>6. QED
    BY <2>1, <2>2, <2>5
<1>2. CASE BrokerOnAck
  BY <1>2, ShortSeqs DEF BrokerOnAck, HeadIs
<1>3. CASE HeadIs(p2b, {"SUBSCRIBE"})
  <2>1. BrokerTakes(<<Pkt("SUBACK", Head(p2b).id)>>)
    BY <1>3 DEF BrokerOnPublish, BrokerOnPubrel, BrokerOnAck, BrokerOnPubrec, BrokerOnSubscribe,
       BrokerOnPing, HeadIs
  <2>2. QED
    BY <1>3, <2>1, ShortSeqs DEF HeadIs
<1>4. CASE /\ ~ BrokerOnPublish /\ ~ BrokerOnAck /\ ~ HeadIs(p2b, {"SUBSCRIBE"})
  <2>1. PICK q : /\ q.type \in {"PUBCOMP", "PUBREL", "UNSUBACK", "PINGRESP"} /\ BrokerTakes(<<q>>)
                 /\ p2b # << >>
    <3>1. PICK t, id : /\ t \in {"PUBCOMP", "PUBREL", "UNSUBACK", "PINGRESP"} /\ BrokerTakes(<<Pkt(t, id)>>)
                       /\ p2b # << >>
      BY <1>4 DEF BrokerOnPubrel, BrokerOnPubrec, BrokerOnSubscribe, BrokerOnPing, HeadIs
    <3>2. Pkt(t, id).type = t
      BY OwnPackets
    <3>3. QED
      BY <3>1, <3>2
  <2>2. IsSeq(<<q>>) /\ Range(<<q>>) = {q}
    BY ShortSeqs
  <2>3. QED
    BY <1>4, <2>1, <2>2 DEF HeadIs
<1>5. QED
  BY <1>1, <1>2, <1>3, <1>4

\* What is left of the two streams when the broker closes.
LEMMA BrokerCloseLeaves ==
  ASSUME IInv, BrokerCloses \/ BrokerOnDisconnect
  PROVE  /\ p2b' = << >> /\ link' = "dead" /\ UNCHANGED <<c2p, p2c, cOut, cIds>>
         /\ \/ \E k \in 0..Len(b2p) : b2p' = SubSeq(b2p, 1, k)
            \/ link = "up" /\ \E q : q.type = "DISCONNECT" /\ b2p' = Append(b2p, q)
<1>1. IsSeq(b2p)
  BY DEF IInv, TypeOK, StreamsOK
<1>2. Len(b2p) \in 0..Len(b2p) /\ SubSeq(b2p, 1, Len(b2p)) = b2p
  BY <1>1, SMTT(30) DEF IsSeq
<1>3. CASE BrokerOnDisconnect
  BY <1>2, <1>3 DEF BrokerOnDisconnect, clientVars
<1>4. CASE BrokerCloses
  BY <1>4, OwnPackets DEF BrokerCloses, clientVars
<1>5. QED
  BY <1>3, <1>4

\* The broker turns a SUBSCRIBE into its SUBACK, or loses one of them.
LEMMA BrokerCounts ==
  ASSUME IInv, StreamsOK', StageInv, Len(BrokerQoS) = 0, phase # "ended", UNCHANGED proxyVars, NEW id,
         BrokerReads \/ BrokerPublish \/ BrokerCloses
  PROVE  Subscribing(id)' <= Subscribing(id)
<1>1. StreamsOK /\ IsSeq(p2b) /\ IsSeq(b2p) /\ IsSeq(p2b') /\ IsSeq(b2p')
  BY DEF IInv, TypeOK, StreamsOK
<1>2. ~ BrokerPublish
  BY DEF IInv, DeliverInv, BrokerPublish
<1>3. UNCHANGED <<c2p, p2c, phase>>
  BY <1>2 DEF BrokerReads, BrokerOnConnect, BrokerOnPublish, BrokerOnPubrel, BrokerOnAck, BrokerOnPubrec,
     BrokerOnSubscribe, BrokerOnPing, BrokerOnDisconnect, BrokerTakes, BrokerCloses, proxyVars
<1>4. PICK K, L, M : /\ K = Kept(id) /\ L = Loose(id) /\ M = Loose(id)' /\ K \in Nat /\ L \in Nat /\ M \in Nat
                     /\ Subscribing(id) = K + L /\ Subscribing(id)' = K + M
  BY <1>1, PeerCounts
<1>5. PICK a, d, f, h, j, k :
        /\ a = CountId(c2p, "SUBSCRIBE", id) /\ h = CountId(p2c, "SUBACK", id)
        /\ d = CountId(p2b, "SUBSCRIBE", id) /\ f = CountId(b2p, "SUBACK", id)
        /\ j = CountId(p2b', "SUBSCRIBE", id) /\ k = CountId(b2p', "SUBACK", id)
        /\ a \in Nat /\ d \in Nat /\ f \in Nat /\ h \in Nat /\ j \in Nat /\ k \in Nat
  <2>1. CountId(p2b', "SUBSCRIBE", id) \in Nat /\ CountId(b2p', "SUBACK", id) \in Nat
    BY <1>1, CountingIds
  <2>2. QED
    BY <1>1, <2>1, SubCounts
<1>6. CASE phase \notin {"connected", "frozen"}
  <2>1. M = L
    BY <1>3, <1>4, <1>6 DEF Loose
  <2>2. QED
    BY <1>4, <2>1
<1>7. CASE phase \in {"connected", "frozen"}
  <2>1. L = a + (d + f) + h /\ M = a + (j + k) + h
    BY <1>3, <1>4, <1>5, <1>7 DEF Loose
  <2>2. SUFFICES j + k <= d + f
    <3>1. ASSUME NEW A \in Nat, NEW B \in Nat, NEW C \in Nat, NEW D \in Nat, NEW E \in Nat, B <= C
          PROVE  D + (A + B + E) <= D + (A + C + E)
      BY <3>1
    <3>2. j + k \in Nat /\ d + f \in Nat
      BY <1>5
    <3>3. j + k <= d + f => K + (a + (j + k) + h) <= K + (a + (d + f) + h)
      BY <1>4, <1>5, <3>1, <3>2
    <3>4. QED
      BY <1>4, <2>1, <3>3
  <2>3. ~ BrokerOnConnect
    BY <1>7 DEF StageInv, BrokerOnConnect
  <2>4. CASE BrokerCloses \/ BrokerOnDisconnect
    <3>1. j = 0
      <4>1. p2b' = << >>
        BY <2>4, BrokerCloseLeaves
      <4>2. QED
        BY <1>5, <4>1, ShortSeqs, CountingIds
    <3>2. k <= f
      <4>1. ASSUME NEW n \in 0..Len(b2p), b2p' = SubSeq(b2p, 1, n) PROVE k <= f
        <5>1. PICK s, t : s = SubSeq(b2p, 1, n) /\ t = SubSeq(b2p, n + 1, Len(b2p))
          OBVIOUS
        <5>2. IsSeq(s) /\ IsSeq(t)
          <6>1. Len(b2p) \in Nat /\ n \in Nat /\ n <= Len(b2p) /\ n + 1 \in Nat /\ 1 <= n + 1
            BY <1>1, SeqPlaces DEF IsSeq
          <6>2. QED
            BY <1>1, <5>1, <6>1, SubSeqElements
        <5>3. CountId(s \o t, "SUBACK", id) = CountId(s, "SUBACK", id) + CountId(t, "SUBACK", id)
          BY <5>2, CountingIds
        <5>4. CountId(t, "SUBACK", id) \in Nat
          BY <5>2, CountingIds
        <5>5. s \o t = b2p
          BY <1>1, <5>1, CutSeq
        <5>6. QED
          <6>1. f = k + CountId(t, "SUBACK", id)
            BY <1>5, <4>1, <5>1, <5>3, <5>5
          <6>2. k \in Nat /\ f \in Nat
            BY <1>5
          <6>3. QED
            BY <5>4, <6>1, <6>2
      <4>2. ASSUME NEW q, q.type = "DISCONNECT", b2p' = Append(b2p, q) PROVE k <= f
        <5>1. CountId(Append(b2p, q), "SUBACK", id)
                = CountId(b2p, "SUBACK", id) + (IF q.type = "SUBACK" /\ q.id = id THEN 1 ELSE 0)
          BY <1>1, CountingIds
        <5>2. QED
          BY <1>5, <4>2, <5>1
      <4>3. QED
        BY <2>4, <4>1, <4>2, BrokerCloseLeaves
    <3>3. QED
      BY <1>5, <3>1, <3>2
  <2>5. CASE \/ BrokerOnPublish \/ BrokerOnPubrel \/ BrokerOnAck \/ BrokerOnPubrec
             \/ BrokerOnSubscribe \/ BrokerOnPing
    <3>1. PICK r : /\ BrokerTakes(r) /\ IsSeq(r) /\ p2b # << >>
                   /\ IF Head(p2b).type = "SUBSCRIBE" THEN r = <<Pkt("SUBACK", Head(p2b).id)>>
                      ELSE \A q \in Range(r) : q.type # "SUBACK"
      BY <2>5, BrokerReplies
    <3>2. PICK one : one = IF Head(p2b).type = "SUBSCRIBE" /\ Head(p2b).id = id THEN 1 ELSE 0
      OBVIOUS
    <3>3. p2b' = Tail(p2b) /\ b2p' = b2p \o r
      BY <3>1 DEF BrokerTakes
    <3>4. d = j + one /\ one \in {0, 1}
      <4>1. CountId(p2b, "SUBSCRIBE", id) = CountId(Tail(p2b), "SUBSCRIBE", id)
              + (IF Head(p2b).type = "SUBSCRIBE" /\ Head(p2b).id = id THEN 1 ELSE 0)
        BY <1>1, <3>1, CountingIds
      <4>2. QED
        BY <1>5, <3>2, <3>3, <4>1
    <3>5. CountId(r, "SUBACK", id) = one
      <4>1. CASE Head(p2b).type = "SUBSCRIBE"
        <5>1. PICK q : q = Pkt("SUBACK", Head(p2b).id)
          OBVIOUS
        <5>2. r = <<q>> /\ q.type = "SUBACK" /\ q.id = Head(p2b).id
          BY <3>1, <4>1, <5>1, OwnPackets
        <5>3. CountId(<<q>>, "SUBACK", id) = IF q.type = "SUBACK" /\ q.id = id THEN 1 ELSE 0
          BY CountOne
        <5>4. QED
          BY <3>2, <4>1, <5>2, <5>3
      <4>2. CASE Head(p2b).type # "SUBSCRIBE"
        <5>1. \A q \in Range(r) : q.type # "SUBACK"
          BY <3>1, <4>2
        <5>2. CountId(r, "SUBACK", id) = 0
          BY <3>1, <5>1, CountingIds
        <5>3. QED
          BY <3>2, <4>2, <5>2
      <4>3. QED
        BY <4>1, <4>2
    <3>6. k = f + one
      <4>1. CountId(b2p \o r, "SUBACK", id) = CountId(b2p, "SUBACK", id) + CountId(r, "SUBACK", id)
        BY <1>1, <3>1, CountingIds
      <4>2. QED
        BY <1>5, <3>3, <3>5, <4>1
    <3>7. QED
      BY <1>5, <3>4, <3>6, SMTT(30)
  <2>6. QED
    BY <1>2, <2>3, <2>4, <2>5 DEF BrokerReads
<1>8. QED
  BY <1>6, <1>7

\* The broker answers the CONNECT with a CONNACK, and the SUBSCRIBE with a SUBACK.
LEMMA BrokerEstablishing ==
  ASSUME IInv, StreamsOK', StageInv, Len(BrokerQoS) = 0, phase # "ended", UNCHANGED proxyVars, Establishing,
         BrokerReads \/ BrokerPublish \/ BrokerCloses
  PROVE  Establishing'
<1>1. IsSeq(p2b) /\ IsSeq(b2p) /\ phase' = phase
  BY DEF IInv, TypeOK, StreamsOK, proxyVars
<1>2. ~ BrokerPublish
  BY DEF IInv, DeliverInv, BrokerPublish
<1>3. CASE BrokerOnConnect
  <2>1. phase = "connack" /\ link = "syn" /\ Len(p2b) = 1 /\ link' = "up" /\ p2b' = Tail(p2b)
    BY <1>3 DEF BrokerOnConnect, StageInv, Establishing
  <2>2. p2b' = << >>
    BY <1>1, <2>1 DEF IsSeq
  <2>3. PICK q : q = Pkt("CONNACK", NoId)
    OBVIOUS
  <2>4. bOut = << >>
    <3>1. Range(bOut) = {} /\ IsSeq(bOut)
      BY DEF IInv, DeliverInv, StoreOK
    <3>2. QED
      BY <3>1, TailElements
  <2>5. Redelivery(bOut) = << >>
    BY <2>4 DEF Redelivery
  <2>6. <<q>> \o << >> = <<q>>
    OBVIOUS
  <2>7. b2p' = <<q>>
    <3>1. b2p' = <<Pkt("CONNACK", NoId)>> \/ b2p' = <<Pkt("CONNACK", NoId)>> \o Redelivery(bOut)
      BY <1>3 DEF BrokerOnConnect
    <3>2. QED
      BY <2>3, <2>5, <2>6, <3>1
  <2>8. q.type = "CONNACK" /\ Range(b2p') = {q} /\ Len(b2p') = 1 /\ Range(p2b') = {}
    BY <2>2, <2>3, <2>7, OwnPackets, ShortSeqs
  <2>9. QED
    BY <1>1, <2>1, <2>2, <2>8 DEF Establishing
<1>4. CASE BrokerCloses \/ BrokerOnDisconnect
  <2>1. p2b' = << >> /\ link' = "dead" /\ Range(p2b') = {}
    BY <1>4, BrokerCloseLeaves, ShortSeqs
  <2>2. \A i \in DOMAIN b2p' : (i \in DOMAIN b2p /\ b2p'[i] = b2p[i]) \/ b2p'[i].type = "DISCONNECT"
    <3>1. ASSUME NEW n \in 0..Len(b2p), b2p' = SubSeq(b2p, 1, n)
          PROVE  \A i \in DOMAIN b2p' : i \in DOMAIN b2p /\ b2p'[i] = b2p[i]
      BY <1>1, <3>1 DEF IsSeq
    <3>2. ASSUME NEW q, q.type = "DISCONNECT", b2p' = Append(b2p, q)
          PROVE  \A i \in DOMAIN b2p' : (i \in DOMAIN b2p /\ b2p'[i] = b2p[i]) \/ b2p'[i] = q
      BY <1>1, <3>2 DEF IsSeq
    <3>3. QED
      BY <1>4, <3>1, <3>2, BrokerCloseLeaves
  <2>3. \A p \in Range(b2p') : p \in Range(b2p) \/ p.type = "DISCONNECT"
    BY <2>2 DEF Range
  <2>4. \A i \in DOMAIN b2p' : b2p'[i].type = "SUBACK" => i \in DOMAIN b2p /\ b2p[i].type = "SUBACK"
    BY <2>2
  <2>5. QED
    BY <1>1, <2>1, <2>3, <2>4 DEF Establishing
<1>5. CASE \/ BrokerOnPublish \/ BrokerOnPubrel \/ BrokerOnAck \/ BrokerOnPubrec
           \/ BrokerOnSubscribe \/ BrokerOnPing
  <2>1. PICK r : /\ BrokerTakes(r) /\ IsSeq(r) /\ p2b # << >>
                 /\ IF Head(p2b).type = "SUBSCRIBE" THEN r = <<Pkt("SUBACK", Head(p2b).id)>>
                    ELSE \A q \in Range(r) : q.type # "SUBACK"
    BY <1>5, BrokerReplies
  <2>2. p2b' = Tail(p2b) /\ b2p' = b2p \o r /\ link = "up"
    BY <2>1 DEF BrokerTakes
  <2>3. CASE phase = "suback"
    <3>1. b2p = << >> /\ Len(p2b) = 1 /\ p2b[1].type = "SUBSCRIBE"
      BY <2>1, <2>3 DEF Establishing
    <3>2. p2b' = << >> /\ Head(p2b) = p2b[1]
      BY <1>1, <2>1, <2>2, <3>1 DEF IsSeq
    <3>3. b2p' = <<Pkt("SUBACK", Head(p2b).id)>>
      <4>1. \A s : IsSeq(s) => << >> \o s = s
        BY DEF IsSeq
      <4>2. QED
        BY <2>1, <2>2, <3>1, <3>2, <4>1
    <3>4. DOMAIN b2p' = {1}
      BY <3>3
    <3>5. QED
      BY <1>1, <2>3, <3>2, <3>4 DEF Establishing
  <2>4. CASE phase # "suback"
    <3>1. phase \notin {"connack", "replay"}
      BY <2>1, <2>2 DEF Establishing
    <3>2. QED
      BY <1>1, <2>4, <3>1 DEF Establishing
  <2>5. QED
    BY <2>3, <2>4
<1>6. QED
  BY <1>2, <1>3, <1>4, <1>5 DEF BrokerReads

\* The SUBACK that answers the re-SUBSCRIBE of establish_broker never reaches the client: every
\* SUBACK on the way to it answers a SUBSCRIBE that it sent and still waits for, through
\* outages, replays and handoffs, as long as the broker publishes nothing (a redelivered
\* PUBLISH would be taken for that SUBACK, recv_suback, and the SUBACK be passed on).
THEOREM NoForeignSubacks ==
  ASSUME ~ Reuse, Len(BrokerQoS) = 0
  PROVE  Spec => [](SubackInv /\ NoForeignSuback)
<1> DEFINE Inv == Establishing /\ SubscribesOnce
<1>1. Init => Inv
  <2>1. SUFFICES ASSUME Init PROVE Inv
    OBVIOUS
  <2>2. /\ c2p = << >> /\ p2c = << >> /\ p2b = << >> /\ b2p = << >> /\ buffer = << >> /\ leftover = << >>
        /\ snap.client_buf = << >> /\ snap.broker_buf = << >> /\ phase = "connected"
    BY <2>1 DEF Init, EndpointsInit, NoSnap
  <2>3. \A type, id : CountId(<< >>, type, id) = 0
    BY ShortSeqs, CountingIds
  <2>4. ASSUME NEW id PROVE Subscribing(id) <= Waits(id)
    <3>1. Subscribing(id) = 0
      BY <2>2, <2>3 DEF Subscribing
    <3>2. QED
      BY <3>1 DEF Waits
  <2>5. QED
    BY <2>2, <2>4 DEF Establishing, SubscribesOnce
<1>2. /\ IInv /\ IInv' /\ PassInv /\ B2CPublishes /\ Inv /\ [Next]_vars => Inv'
  <2>1. SUFFICES ASSUME IInv, IInv', PassInv, B2CPublishes, Inv, [Next]_vars PROVE Inv'
    OBVIOUS
  <2>2. TypeOK /\ StreamsOK' /\ StageInv
    BY <2>1 DEF IInv, TypeOK, PassInv
  <2>3. CASE Proxy
    BY <2>1, <2>2, <2>3, ProxySubscribesOnce, ProxyEstablishing
  <2>4. CASE Peers
    <3>1. phase # "ended" /\ UNCHANGED proxyVars
      BY <2>4 DEF Peers
    <3>2. CASE ClientSteps \/ ClientReads
      <4>1. SubscribesOnce'
        BY <2>1, <2>2, <3>1, <3>2, ClientStepsCount, ClientReadsCount, SMTT(30)
      <4>2. UNCHANGED <<phase, link, p2b, b2p>>
        BY <3>1, <3>2 DEF ClientSteps, ClientPublish, ClientSubscribe, ClientUnsubscribe, ClientPing,
           ClientLeave, ClientSends, ClientReads, ClientOnPublish, ClientOnPubrel, ClientOnPubrec,
           ClientOnAck, ClientOnSuback, ClientOnPingresp, ClientOnDisconnect, ClientTakes, proxyVars
      <4>3. QED
        BY <2>1, <4>1, <4>2 DEF Establishing
    <3>3. CASE BrokerReads \/ BrokerPublish \/ BrokerCloses
      <4>1. Establishing'
        BY <2>1, <2>2, <3>1, <3>3, BrokerEstablishing, SMTT(30)
      <4>2. UNCHANGED <<cOut, cIds>>
        BY <3>3 DEF BrokerReads, BrokerOnConnect, BrokerOnPublish, BrokerOnPubrel, BrokerOnAck,
           BrokerOnPubrec, BrokerOnSubscribe, BrokerOnPing, BrokerOnDisconnect, BrokerTakes,
           BrokerPublish, BrokerCloses, clientVars
      <4>3. ASSUME NEW id PROVE Subscribing(id)' <= Waits(id)'
        <5>1. Subscribing(id)' <= Subscribing(id)
          BY <2>1, <2>2, <3>1, <3>3, BrokerCounts
        <5>2. Subscribing(id) <= Waits(id) /\ Waits(id) \in Nat /\ Waits(id)' = Waits(id)
          BY <2>1, <4>2 DEF SubscribesOnce, Waits
        <5>3. Subscribing(id)' \in Nat /\ Subscribing(id) \in Nat
          <6>1. PICK K, L, M : /\ K \in Nat /\ L \in Nat /\ M \in Nat
                               /\ Subscribing(id) = K + L /\ Subscribing(id)' = K + M
            BY <2>2, <3>1, PeerCounts DEF TypeOK
          <6>2. QED
            BY <6>1
        <5>4. QED
          BY <5>1, <5>2, <5>3
      <4>4. QED
        BY <4>1, <4>3 DEF SubscribesOnce
    <3>4. QED
      BY <2>4, <3>2, <3>3 DEF Peers
  <2>5. CASE UNCHANGED vars
    <3>1. UNCHANGED <<phase, link, c2p, p2c, p2b, b2p, buffer, leftover, snap, cOut, cIds>>
      BY <2>5 DEF vars, streams, clientVars, proxyVars
    <3>2. Establishing'
      BY <2>1, <3>1 DEF Establishing
    <3>3. ASSUME NEW id PROVE Subscribing(id)' <= Waits(id)'
      <4>1. Subscribing(id) <= Waits(id)
        BY <2>1 DEF SubscribesOnce
      <4>2. Subscribing(id)' = Subscribing(id) /\ Waits(id)' = Waits(id)
        BY <3>1 DEF Subscribing, Waits
      <4>3. QED
        BY <4>1, <4>2
    <3>4. QED
      BY <3>2, <3>3 DEF SubscribesOnce
  <2>6. QED
    BY <2>1, <2>3, <2>4, <2>5 DEF Next
<1>3. IInv /\ Inv => SubackInv /\ NoForeignSuback
  <2>1. SUFFICES ASSUME IInv, Inv PROVE SubackInv /\ NoForeignSuback
    OBVIOUS
  <2>2. StreamsOK /\ IsSeq(p2c)
    BY <2>1 DEF IInv, TypeOK, StreamsOK
  <2>3. ASSUME NEW i \in DOMAIN p2c, p2c[i].type = "SUBACK" PROVE cOut[p2c[i].id].st = "sub"
    <3>1. PICK id : id = p2c[i].id
      OBVIOUS
    <3>2. p2c[i] \in Range(p2c)
      BY DEF Range
    <3>3. CountId(p2c, "SUBACK", id) # 0
      BY <2>2, <2>3, <3>1, <3>2, CountingIds
    <3>4. Subscribing(id) <= Waits(id) /\ Waits(id) \in Nat
      BY <2>1 DEF SubscribesOnce, Waits
    <3>5. Waits(id) # 0
      <4>1. PICK a, b, c, d, e, f, g, h :
              /\ a = CountId(snap.client_buf, "SUBSCRIBE", id) /\ b = CountId(c2p, "SUBSCRIBE", id)
              /\ c = CountId(buffer, "SUBSCRIBE", id) /\ d = CountId(p2b, "SUBSCRIBE", id)
              /\ e = CountId(snap.broker_buf, "SUBACK", id) /\ f = CountId(b2p, "SUBACK", id)
              /\ g = CountId(leftover, "SUBACK", id) /\ h = CountId(p2c, "SUBACK", id)
              /\ a \in Nat /\ b \in Nat /\ c \in Nat /\ d \in Nat /\ e \in Nat /\ f \in Nat
              /\ g \in Nat /\ h \in Nat
        BY <2>2, SubCounts
      <4>2. PICK z : z = (IF phase \in {"connected", "frozen"} THEN d + e + f ELSE 0)
        OBVIOUS
      <4>3. z \in Nat
        <5>1. d + e + f \in Nat /\ 0 \in Nat
          BY <4>1
        <5>2. z = d + e + f \/ z = 0
          BY <4>2, Zenon
        <5>3. QED
          BY <5>1, <5>2
      <4>4. Subscribing(id) = a + b + c + z + g + h
        BY <4>1, <4>2 DEF Subscribing
      <4>5. h # 0
        BY <3>3, <4>1
      <4>6. ASSUME NEW A \in Nat, NEW B \in Nat, NEW C \in Nat, NEW D \in Nat, NEW E \in Nat,
                   NEW F \in Nat, F # 0
            PROVE  ~ (A + B + C + D + E + F <= 0)
        BY <4>6
      <4>7. ~ (a + b + c + z + g + h <= 0)
        BY <4>1, <4>3, <4>5, <4>6
      <4>8. QED
        BY <3>4, <4>4, <4>7
    <3>6. QED
      BY <3>1, <3>5 DEF Waits
  <2>4. NoForeignSuback
    BY <2>3 DEF NoForeignSuback
  <2>5. SubackInv
    BY <2>1 DEF SubackInv, SubscribesOnce
  <2>6. QED
    BY <2>4, <2>5
<1>4. QED
  BY <1>1, <1>2, <1>3, SessionInvariant, PassInvariant, B2CPublishesAlways, PTL DEF Spec

----------------------------------------------------------------------------
(* At rest, the broker's side.                                             *)

Acks == {"PUBACK", "PUBREC", "PUBCOMP"}

\* What the broker's connection has delivered and the proxy has not forwarded, in order.
Line == snap.broker_buf \o b2p

\* No PUBLISH of a QoS 2 flow behind its PUBREL.
RelBehind(s) ==
  \A i, j \in DOMAIN s : i < j /\ s[i].type = "PUBREL" /\ Exact(s[j]) => s[i].id # s[j].id

\* The places of Line are the socket's.
LEMMA LineIs ==
  /\ StreamsOK => IsSeq(Line) /\ Range(Line) = FromBrokerSocket
  /\ StreamsOK' => IsSeq(Line') /\ Range(Line') = FromBrokerSocket'
<1>1. StreamsOK => IsSeq(Line) /\ Range(Line) = FromBrokerSocket
  <2>1. SUFFICES ASSUME StreamsOK PROVE IsSeq(Line) /\ Range(Line) = FromBrokerSocket
    OBVIOUS
  <2>2. IsSeq(snap.broker_buf) /\ IsSeq(b2p)
    BY <2>1 DEF StreamsOK
  <2>3. QED
    BY <2>2, ConcatElements DEF Line, FromBrokerSocket
<1>2. StreamsOK' => IsSeq(Line') /\ Range(Line') = FromBrokerSocket'
  <2>1. SUFFICES ASSUME StreamsOK' PROVE IsSeq(Line') /\ Range(Line') = FromBrokerSocket'
    OBVIOUS
  <2>2. IsSeq(snap'.broker_buf) /\ IsSeq(b2p')
    BY <2>1 DEF StreamsOK
  <2>3. QED
    BY <2>2, ConcatElements DEF Line, FromBrokerSocket
<1>3. QED
  BY <1>1, <1>2

\* Without a read buffer Line is the socket.
LEMMA LineUnbuffered ==
  /\ snap.broker_buf = << >> /\ IsSeq(b2p) => Line = b2p
  /\ snap'.broker_buf = << >> /\ IsSeq(b2p') => Line' = b2p'
BY DEF Line, IsSeq

\* A part of a stream, or a stream with a packet that is no PUBLISH at the end, keeps the order.
LEMMA RelBehindParts ==
  ASSUME NEW s, IsSeq(s), RelBehind(s)
  PROVE  /\ s # << >> => /\ RelBehind(Tail(s))
                         /\ Head(s).type = "PUBREL" =>
                              \A q \in Range(Tail(s)) : Exact(q) => q.id # Head(s).id
         /\ \A k \in 0..Len(s) : RelBehind(SubSeq(s, 1, k))
         /\ \A p : (Exact(p) => \A q \in Range(s) : q.type = "PUBREL" => q.id # p.id)
                     => RelBehind(Append(s, p))
<1>1. Len(s) \in Nat /\ DOMAIN s = 1..Len(s) /\ s \in Seq(Range(s)) /\ \A i \in 1..Len(s) : s[i] \in Range(s)
  BY SeqPlaces DEF IsSeq
<1>2. ASSUME s # << >>
      PROVE  /\ RelBehind(Tail(s))
             /\ Head(s).type = "PUBREL" => \A q \in Range(Tail(s)) : Exact(q) => q.id # Head(s).id
  <2>0. PICK t, n : t = Tail(s) /\ n = Len(s)
    OBVIOUS
  <2>1. /\ Head(s) = s[1] /\ DOMAIN t = 1..(n - 1) /\ n \in Nat /\ n >= 1 /\ DOMAIN s = 1..n
        /\ \A i \in 1..(n - 1) : t[i] = s[i + 1] /\ i + 1 \in 1..n /\ 1 < i + 1 /\ 1 \in 1..n
    BY <1>1, <1>2, <2>0
  <2>2. ASSUME NEW i \in DOMAIN t, NEW j \in DOMAIN t, i < j, t[i].type = "PUBREL", Exact(t[j])
        PROVE  t[i].id # t[j].id
    <3>1. i + 1 < j + 1 /\ i + 1 \in DOMAIN s /\ j + 1 \in DOMAIN s /\ t[i] = s[i + 1] /\ t[j] = s[j + 1]
      BY <2>1, <2>2
    <3>2. QED
      BY <2>2, <3>1 DEF RelBehind
  <2>3. ASSUME Head(s).type = "PUBREL", NEW q \in Range(t), Exact(q) PROVE q.id # Head(s).id
    <3>1. PICK i \in 1..(n - 1) : q = s[i + 1]
      BY <2>1 DEF Range
    <3>2. QED
      BY <2>1, <2>3, <3>1 DEF RelBehind
  <2>4. QED
    BY <2>0, <2>2, <2>3 DEF RelBehind
<1>3. ASSUME NEW k \in 0..Len(s) PROVE RelBehind(SubSeq(s, 1, k))
  <2>0. PICK t : t = SubSeq(s, 1, k)
    OBVIOUS
  <2>1. DOMAIN t = 1..k /\ \A i \in 1..k : t[i] = s[i] /\ i \in DOMAIN s
    BY <1>1, <2>0
  <2>2. RelBehind(t)
    BY <2>1 DEF RelBehind
  <2>3. QED
    BY <2>0, <2>2
<1>4. ASSUME NEW p, Exact(p) => \A q \in Range(s) : q.type = "PUBREL" => q.id # p.id
      PROVE  RelBehind(Append(s, p))
  <2>0. PICK t, n : t = Append(s, p) /\ n = Len(s)
    OBVIOUS
  <2>1. /\ n \in Nat /\ DOMAIN t = 1..(n + 1) /\ t[n + 1] = p /\ DOMAIN s = 1..n
        /\ \A i \in 1..n : t[i] = s[i] /\ s[i] \in Range(s)
    BY <1>1, <2>0
  <2>2. ASSUME NEW i \in DOMAIN t, NEW j \in DOMAIN t, i < j, t[i].type = "PUBREL", Exact(t[j])
        PROVE  t[i].id # t[j].id
    <3>1. i \in 1..n /\ (j \in 1..n \/ j = n + 1)
      BY <2>1, <2>2
    <3>2. CASE j \in 1..n
      BY <2>1, <2>2, <3>1, <3>2 DEF RelBehind
    <3>3. CASE j = n + 1
      BY <1>4, <2>1, <2>2, <3>1, <3>3
    <3>4. QED
      BY <3>1, <3>2, <3>3
  <2>3. QED
    BY <2>0, <2>2 DEF RelBehind
<1>5. QED
  BY <1>2, <1>3, <1>4

\* What a step of the proxy does to the broker's socket: it empties it with the connection, or
\* takes the first packet at most; and it takes a PUBREL only to forward it.
LEMMA SocketSteps ==
  ASSUME TypeOK, StreamsOK', StageInv, B2CPublishes, Proxy
  PROVE  \/ Line' = << >>
         \/ /\ Line' = Line \/ (Line # << >> /\ Line' = Tail(Line))
            /\ \A p \in Range(p2c') \cup Range(leftover') :
                 p.type = "PUBREL" =>
                   \/ p \in Range(p2c) \cup Range(leftover)
                   \/ Line # << >> /\ Line' = Tail(Line) /\ p = Head(Line)
<1>1. /\ StreamsOK /\ IsSeq(p2c) /\ IsSeq(b2p) /\ IsSeq(leftover) /\ IsSeq(snap.broker_buf)
      /\ windows \in Windows(Raws(windows.c2b), Raws(windows.b2c))
      /\ IsSeq(b2p') /\ IsSeq(snap'.broker_buf)
  BY DEF TypeOK, StreamsOK
<1>2. phase # "frozen" => Line = b2p /\ snap.broker_buf = << >>
  <2>1. phase # "frozen" => snap.broker_buf = << >>
    BY <1>1 DEF StreamsOK, NoSnap
  <2>2. QED
    BY <1>1, <2>1, LineUnbuffered
<1>3. CASE InterceptDisconnect \/ BrokerEof
  <2>1. b2p' = << >> /\ snap'.broker_buf = << >>
    BY <1>2, <1>3 DEF InterceptDisconnect, BrokerEof, DropBroker
  <2>2. QED
    BY <1>1, <2>1, LineUnbuffered
<1>4. CASE adopt_session
  <2>1. b2p' = << >> /\ snap'.broker_buf = << >>
    BY <1>4 DEF adopt_session, DropBroker, NoSnap
  <2>2. QED
    BY <1>1, <2>1, LineUnbuffered
<1>5. CASE ForwardClientPacket \/ service_outage_packet
  <2>1. PICK t : t = LocalAnswer(Head(c2p))
    OBVIOUS
  <2>2. /\ p2c' = p2c \o t /\ UNCHANGED <<leftover, snap>> /\ phase # "frozen"
        /\ b2p' = b2p \/ b2p' = << >>
    BY <1>5, <2>1 DEF ForwardClientPacket, service_outage_packet, DropBroker
  <2>3. IsSeq(t) /\ \A q \in Range(t) : q.type # "PUBREL"
    BY <2>1, LocalAnswerIs, OwnPackets
  <2>4. Range(p2c') = Range(p2c) \cup Range(t)
    BY <1>1, <2>2, <2>3, ConcatElements
  <2>5. Line' = b2p'
    BY <1>1, <1>2, <2>2, LineUnbuffered
  <2>6. QED
    BY <1>2, <2>2, <2>3, <2>4, <2>5
<1>6. CASE ForwardBrokerPacket
  <2>1. /\ b2p # << >> /\ b2p' = Tail(b2p) /\ (p2c' = p2c \/ p2c' = Append(p2c, Head(b2p)))
        /\ UNCHANGED <<leftover, snap>> /\ phase # "frozen"
    BY <1>6 DEF ForwardBrokerPacket
  <2>2. Range(p2c') \subseteq Range(p2c) \cup {Head(b2p)}
    BY <1>1, <2>1, AppendElements
  <2>3. Line' = b2p' /\ Line = b2p
    BY <1>1, <1>2, <2>1, LineUnbuffered
  <2>4. QED
    BY <2>1, <2>2, <2>3
<1>7. CASE ClientGone \/ KeepaliveTimeout \/ EstablishFails \/ ConnectBroker
  <2>1. /\ UNCHANGED <<leftover, snap, b2p>>
        /\ \/ p2c' = p2c \/ p2c' = Append(p2c, PktWith("DISCONNECT", NoId, "keepalive"))
    BY <1>7 DEF ClientGone, KeepaliveTimeout, EstablishFails, ConnectBroker, streams
  <2>2. PICK q : q = PktWith("DISCONNECT", NoId, "keepalive") /\ q.type # "PUBREL"
    BY OwnPackets
  <2>3. \A p \in Range(p2c') : p \in Range(p2c) \/ p.type # "PUBREL"
    <3>1. Range(Append(p2c, q)) = Range(p2c) \cup {q}
      BY <1>1, AppendElements
    <3>2. p2c' = p2c \/ p2c' = Append(p2c, q)
      BY <2>1, <2>2, Zenon
    <3>3. QED
      BY <2>2, <3>1, <3>2
  <2>4. QED
    BY <2>1, <2>3 DEF Line
<1>8. CASE RecvConnack \/ RecvSuback
  <2>1. b2p # << >> /\ b2p' = Tail(b2p) /\ UNCHANGED <<p2c, leftover, snap>> /\ phase # "frozen"
    BY <1>8 DEF RecvConnack, RecvSuback, HeadIs
  <2>2. Line' = b2p' /\ Line = b2p
    BY <1>1, <1>2, <2>1, LineUnbuffered
  <2>3. QED
    BY <2>1, <2>2
<1>9. CASE Replay
  <2>1. PICK r : r = client_retransmits(windows)
    OBVIOUS
  <2>2. UNCHANGED <<b2p, snap>> /\ p2c' = (p2c \o leftover) \o r /\ leftover' = << >>
    BY <1>9, <2>1 DEF Replay
  <2>3. IsSeq(r) /\ \A q \in Range(r) : q.type # "PUBREL"
    <3>1. IsSeq(r) /\ \A q \in Range(r) : \E o \in Raws(windows.b2c) : q = with_dup(o)
      BY <1>1, <2>1, ClientRetransmits
    <3>2. QED
      BY <3>1 DEF B2CPublishes, with_dup, Packet
  <2>4. IsSeq(p2c \o leftover) /\ Range(p2c \o leftover) = Range(p2c) \cup Range(leftover)
    BY <1>1, ConcatElements
  <2>5. Range(p2c') = (Range(p2c) \cup Range(leftover)) \cup Range(r)
    BY <2>2, <2>3, <2>4, ConcatElements
  <2>6. Range(leftover') = {} /\ Line' = Line
    BY <2>2, ShortSeqs DEF Line
  <2>7. QED
    BY <2>3, <2>5, <2>6
<1>10. CASE Freeze \/ ResumeSession
  <2>1. UNCHANGED <<p2c, leftover>>
    BY <1>10 DEF Freeze, ResumeSession
  <2>2. Line' = Line
    BY <1>1, <1>10, FreezeCuts DEF Line
  <2>3. QED
    BY <2>1, <2>2
<1>11. QED
  BY <1>3, <1>4, <1>5, <1>6, <1>7, <1>8, <1>9, <1>10, Zenon DEF Proxy

\* What keeps the flows going when the broker's store stays: their packets stay on the way.
LEMMA FlowsFrame ==
  ASSUME FlowsContinue, bOut' = bOut,
         link' = "up" /\ phase' # "ended" =>
           /\ link = "up" /\ phase # "ended"
           /\ \A p \in ToClient : p \in ToClient' \/ p.type \notin {"PUBLISH", "PUBREL"}
           /\ \A p \in FromClient \cup Range(p2b) :
                p \in FromClient' \cup Range(p2b') \/ p.type \notin Acks
  PROVE  FlowsContinue'
<1>1. SUFFICES ASSUME link' = "up", phase' # "ended", NEW e \in Range(bOut)
               PROVE  IF e.st = "pub"
                      THEN \/ Asks(ToClient', e.id)
                           \/ Has(FromClient' \cup Range(p2b'), {AnswerType(e.msg)}, e.id)
                      ELSE \/ Has(ToClient', {"PUBREL"}, e.id)
                           \/ Has(FromClient' \cup Range(p2b'), {"PUBCOMP"}, e.id)
  BY DEF FlowsContinue
<1>2. AnswerType(e.msg) \in Acks /\ "PUBCOMP" \in Acks
  BY DEF AnswerType, Acks
<1>3. /\ Asks(ToClient, e.id) => Asks(ToClient', e.id)
      /\ Has(ToClient, {"PUBREL"}, e.id) => Has(ToClient', {"PUBREL"}, e.id)
      /\ \A t \in Acks : Has(FromClient \cup Range(p2b), {t}, e.id)
                           => Has(FromClient' \cup Range(p2b'), {t}, e.id)
  BY <1>1 DEF Asks, Has
<1>4. QED
  BY <1>1, <1>2, <1>3 DEF FlowsContinue

\* A PUBREL stays behind the PUBLISHes of its flow when no PUBREL goes to the client, no
\* PUBCOMP to the broker and no PUBLISH comes from the broker that was not on the way.
LEMMA ReleasedFrame ==
  ASSUME ReleasedLast, bOut' = bOut, RelBehind(Line'),
         \A p \in ClientBound' : p.type = "PUBREL" => \E q \in ClientBound : Same(p, q),
         \A p \in BrokerBound' : p.type = "PUBCOMP" => \E q \in BrokerBound : Same(p, q),
         \A p \in FromBrokerSocket' : Exact(p) =>
           /\ p \in FromBrokerSocket
           /\ \A q \in Range(p2c') \cup Range(leftover') :
                q.type = "PUBREL" => q \in Range(p2c) \cup Range(leftover) \/ q.id # p.id
  PROVE  ReleasedLast'
<1>1. ASSUME NEW e \in Range(bOut)
      PROVE  /\ e.st \in {"pub", "rel"}
             /\ e.st = "pub" /\ BrokerQoS[e.msg] = 2 =>
                  ~ Has(ClientBound', {"PUBREL"}, e.id) /\ ~ Has(BrokerBound', {"PUBCOMP"}, e.id)
  BY DEF ReleasedLast, Has, Same
<1>2. ASSUME NEW p \in FromBrokerSocket', Exact(p)
      PROVE  /\ ~ Has(Range(p2c') \cup Range(leftover'), {"PUBREL"}, p.id)
             /\ ~ Has(BrokerBound', {"PUBCOMP"}, p.id)
  <2>1. /\ p \in FromBrokerSocket
        /\ ~ Has(Range(p2c) \cup Range(leftover), {"PUBREL"}, p.id)
        /\ ~ Has(BrokerBound, {"PUBCOMP"}, p.id)
    BY <1>2 DEF ReleasedLast
  <2>2. ~ Has(Range(p2c') \cup Range(leftover'), {"PUBREL"}, p.id)
    BY <1>2, <2>1 DEF Has
  <2>3. ~ Has(BrokerBound', {"PUBCOMP"}, p.id)
    BY <2>1 DEF Has, Same
  <2>4. QED
    BY <2>2, <2>3
<1>3. QED
  BY <1>1, <1>2 DEF ReleasedLast, RelBehind, Line

\* The b2c window is let go of when no QoS 2 PUBLISH from the broker and no entry is new, no
\* PUBCOMP is about an entry and the PUBACK of an entry is on the way.
LEMMA WindowFrame ==
  ASSUME WindowReleased, bOut' = bOut,
         \A p \in FromBrokerSocket' : Exact(p) => p \in FromBrokerSocket,
         \A p \in Raws(windows'.b2c) :
           /\ p \in Raws(windows.b2c) \/ p \in FromBrokerSocket
           /\ Exact(p) => ~ Has(Range(p2b'), {"PUBCOMP"}, p.id)
           /\ p.qos = 1 /\ phase' # "ended" =>
                Asks(Range(p2c'), p.id) \/ Has(FromClient', {"PUBACK"}, p.id),
         \A p \in Range(buffer') : p.type \notin {"PUBACK", "PUBREC", "PUBCOMP"}
  PROVE  WindowReleased'
BY DEF WindowReleased

\* A step of the proxy on a working connection leaves on the way what continues a flow.
LEMMA ProxyFlows ==
  ASSUME TypeOK, StreamsOK', StageInv, phase # "suback", Proxy, link' = "up", phase' # "ended"
  PROVE  /\ link = "up" /\ phase # "ended"
         /\ \A p \in ToClient : p \in ToClient' \/ p.type \notin {"PUBLISH", "PUBREL"}
         /\ FromClient \cup Range(p2b) \subseteq FromClient' \cup Range(p2b')
<1>1. /\ StreamsOK /\ IsSeq(p2c) /\ IsSeq(b2p) /\ IsSeq(c2p) /\ IsSeq(p2b) /\ IsSeq(leftover)
      /\ IsSeq(snap.broker_buf) /\ IsSeq(snap.client_buf) /\ IsSeq(buffer)
      /\ windows \in Windows(Raws(windows.c2b), Raws(windows.b2c))
  BY DEF TypeOK, StreamsOK
<1>2. link = "up"
  BY NoNewLink
<1>3. phase # "outage"
  BY <1>2 DEF TypeOK, ControlOK
<1>4. Alive
  BY <1>2 DEF Alive
<1>5. phase # "ended"
  BY Zenon DEF Proxy, ForwardClientPacket, ForwardBrokerPacket, InterceptDisconnect, BrokerEof, ClientGone,
     KeepaliveTimeout, service_outage_packet, ConnectBroker, RecvConnack, RecvSuback,
     EstablishFails, Replay, Freeze, ResumeSession, adopt_session
<1>6. CASE ForwardClientPacket
  <2>1. PICK t, h : t = LocalAnswer(Head(c2p)) /\ h = Head(c2p)
    OBVIOUS
  <2>2. /\ c2p # << >> /\ c2p' = Tail(c2p) /\ p2c' = p2c \o t /\ p2b' = Append(p2b, h)
        /\ UNCHANGED <<leftover, snap, b2p>>
    BY <1>4, <1>6, <2>1 DEF ForwardClientPacket, DropBroker
  <2>3. IsSeq(t)
    BY <2>1, LocalAnswerIs
  <2>4. Range(p2c') = Range(p2c) \cup Range(t)
    BY <1>1, <2>2, <2>3, ConcatElements
  <2>5. Range(c2p) = {h} \cup Range(c2p') /\ Range(p2b') = Range(p2b) \cup {h}
    BY <1>1, <2>1, <2>2, TailElements, AppendElements
  <2>6. QED
    BY <1>2, <1>5, <2>2, <2>4, <2>5 DEF ToClient, FromClient
<1>7. CASE ForwardBrokerPacket
  <2>1. PICK h : h = Head(b2p)
    OBVIOUS
  <2>2. /\ b2p # << >> /\ b2p' = Tail(b2p) /\ UNCHANGED <<leftover, snap, c2p, p2b>>
        /\ (p2c' = p2c /\ h.type = "PINGRESP") \/ p2c' = Append(p2c, h)
    BY <1>7, <2>1 DEF ForwardBrokerPacket, Swallowed
  <2>3. Range(b2p) = {h} \cup Range(b2p') /\ Range(Append(p2c, h)) = Range(p2c) \cup {h}
    BY <1>1, <2>1, <2>2, TailElements, AppendElements
  <2>4. FromClient' = FromClient /\ Range(p2b') = Range(p2b)
    BY <2>2 DEF FromClient
  <2>5. ASSUME NEW p \in ToClient, p.type \in {"PUBLISH", "PUBREL"} PROVE p \in ToClient'
    <3>1. \/ p \in Range(p2c) \/ p \in Range(leftover) \/ p \in Range(snap.broker_buf) \/ p = h
          \/ p \in Range(b2p')
      BY <2>3, <2>5 DEF ToClient
    <3>2. p = h => p \in Range(p2c')
      BY <2>2, <2>3, <2>5
    <3>3. Range(p2c) \subseteq Range(p2c')
      BY <2>2, <2>3
    <3>4. QED
      BY <2>2, <3>1, <3>2, <3>3 DEF ToClient
  <2>6. QED
    BY <1>2, <1>5, <2>4, <2>5
<1>8. CASE RecvConnack
  <2>1. PICK r, h : r = resubscribe_packet(subscriptions) /\ h = Head(b2p)
    OBVIOUS
  <2>2. /\ b2p # << >> /\ b2p' = Tail(b2p) /\ UNCHANGED <<leftover, snap, c2p, p2c>>
        /\ h.type = "CONNACK" /\ p2b' = p2b \o r
    BY <1>4, <1>8, <2>1 DEF RecvConnack, HeadIs
  <2>3. Range(b2p) = {h} \cup Range(b2p')
    BY <1>1, <2>1, <2>2, TailElements
  <2>4. Range(p2b') = Range(p2b) \cup Range(r)
    BY <1>1, <2>1, <2>2, OwnPackets, ConcatElements
  <2>5. QED
    BY <1>2, <1>5, <2>2, <2>3, <2>4 DEF ToClient, FromClient
<1>9. CASE Replay
  <2>1. PICK r, w, s : r = client_retransmits(windows) /\ w = BrokerWrites /\ s = p2c \o leftover
    OBVIOUS
  <2>2. UNCHANGED <<b2p, snap, c2p>> /\ p2c' = s \o r /\ p2b' = p2b \o w
    BY <1>4, <1>9, <2>1 DEF Replay
  <2>3. IsSeq(r) /\ IsSeq(w)
    <3>1. IsSeq(broker_retransmits(windows))
      BY <1>1, BrokerRetransmits
    <3>2. QED
      BY <1>1, <2>1, <3>1, ClientRetransmits, ConcatElements DEF BrokerWrites
  <2>4. IsSeq(s) /\ Range(s) = Range(p2c) \cup Range(leftover)
    BY <1>1, <2>1, ConcatElements
  <2>5. Range(p2c') = Range(s) \cup Range(r) /\ Range(p2b') = Range(p2b) \cup Range(w)
    BY <1>1, <2>2, <2>3, <2>4, ConcatElements
  <2>6. QED
    BY <1>2, <1>5, <2>2, <2>4, <2>5 DEF ToClient, FromClient
<1>10. CASE Freeze \/ ResumeSession
  <2>1. UNCHANGED <<p2c, leftover, p2b>>
    BY <1>10 DEF Freeze, ResumeSession
  <2>2. FromClient' = FromClient /\ FromBrokerSocket' = FromBrokerSocket
    BY <1>1, <1>10, FreezeCuts
  <2>3. QED
    BY <1>2, <1>5, <2>1, <2>2 DEF ToClient, FromBrokerSocket
<1>12. /\ ~ InterceptDisconnect /\ ~ BrokerEof /\ ~ adopt_session
  BY DEF InterceptDisconnect, BrokerEof, adopt_session, DropBroker
<1>13. /\ ~ ClientGone /\ ~ KeepaliveTimeout /\ ~ EstablishFails
  BY DEF ClientGone, KeepaliveTimeout, EstablishFails, End
<1>14. ~ service_outage_packet /\ ~ ConnectBroker /\ ~ RecvSuback
  BY <1>3 DEF service_outage_packet, ConnectBroker, RecvSuback
<1>15. QED
  BY <1>6, <1>7, <1>8, <1>9, <1>10, <1>12, <1>13, <1>14, Zenon DEF Proxy

\* The proxy leaves the broker's store alone when the broker keeps it.
LEMMA ProxyKeepsStore ==
  ASSUME ~ bClean, Proxy
  PROVE  bOut' = bOut
<1>1. CASE adopt_session
  BY <1>1 DEF adopt_session, Keep
<1>2. CASE ~ adopt_session
  <2>1. brokerVars' = brokerVars
    BY <1>2, Zenon DEF Proxy, ForwardClientPacket, ForwardBrokerPacket, InterceptDisconnect, BrokerEof,
       ClientGone, KeepaliveTimeout, service_outage_packet, ConnectBroker, RecvConnack, RecvSuback,
       EstablishFails, Replay, Freeze, ResumeSession
  <2>2. QED
    BY <2>1 DEF brokerVars
<1>3. QED
  BY <1>1, <1>2

\* The proxy lets no PUBREL overtake a PUBLISH.
LEMMA ProxyReleases ==
  ASSUME TypeOK, StageInv, B2CPublishes, ~ bClean, ReleasedLast, Proxy
  PROVE  ReleasedLast'
<1>1. StreamsOK /\ StreamsOK' /\ MovesOnly /\ bOut' = bOut
  BY ProxyStep, ProxyKeepsStore DEF TypeOK
<1>2. /\ IsSeq(Line) /\ Range(Line) = FromBrokerSocket
      /\ IsSeq(Line') /\ Range(Line') = FromBrokerSocket'
  BY <1>1, LineIs
<1>3. RelBehind(Line)
  BY DEF ReleasedLast, RelBehind, Line
<1>4. /\ \A p \in ClientBound' : p.type = "PUBREL" => \E q \in ClientBound : Same(p, q)
      /\ \A p \in BrokerBound' : p.type = "PUBCOMP" => \E q \in BrokerBound : Same(p, q)
  BY <1>1 DEF MovesOnly, OnlyFrom, QosTypes
<1>5. CASE Line' = << >>
  <2>1. FromBrokerSocket' = {} /\ RelBehind(Line')
    BY <1>2, <1>5, ShortSeqs DEF RelBehind
  <2>2. QED
    BY <1>1, <1>4, <2>1, ReleasedFrame
<1>6. CASE /\ Line' = Line \/ (Line # << >> /\ Line' = Tail(Line))
           /\ \A p \in Range(p2c') \cup Range(leftover') :
                p.type = "PUBREL" =>
                  \/ p \in Range(p2c) \cup Range(leftover)
                  \/ Line # << >> /\ Line' = Tail(Line) /\ p = Head(Line)
  <2>1. RelBehind(Line')
    BY <1>2, <1>3, <1>6, RelBehindParts
  <2>2. FromBrokerSocket' \subseteq FromBrokerSocket
    BY <1>2, <1>6, TailElements
  <2>3. ASSUME NEW p \in FromBrokerSocket', Exact(p),
               NEW q \in Range(p2c') \cup Range(leftover'), q.type = "PUBREL"
        PROVE  q \in Range(p2c) \cup Range(leftover) \/ q.id # p.id
    <3>1. SUFFICES ASSUME Line # << >>, Line' = Tail(Line), q = Head(Line) PROVE q.id # p.id
      BY <1>6, <2>3
    <3>2. p \in Range(Tail(Line))
      BY <1>2, <2>3, <3>1
    <3>3. QED
      BY <1>2, <1>3, <2>3, <3>1, <3>2, RelBehindParts
  <2>4. QED
    BY <1>1, <1>4, <2>1, <2>2, <2>3, ReleasedFrame
<1>7. QED
  BY <1>1, <1>5, <1>6, SocketSteps

\* The acknowledgement that completes a flow takes its entry from the b2c window (track_c2b).
LEMMA AckedGone ==
  ASSUME NEW w, w \in Windows(Raws(w.c2b), Raws(w.b2c)), NEW p, p.type \in {"PUBACK", "PUBCOMP"}
  PROVE  \A r \in Raws(track_c2b(w, p).b2c) : r \in Raws(w.b2c) /\ r.id # p.id
<1>1. track_c2b(w, p) = b2c_remove(w, p.id)
  BY Zenon DEF track_c2b
<1>2. w = [c2b |-> w.c2b, b2c |-> w.b2c] /\ w.b2c \in Vectors(B2CStates, Raws(w.b2c))
  BY DEF Windows
<1>3. b2c_remove(w, p.id).b2c = vec_remove(w.b2c, p.id)
  BY <1>2, Zenon DEF b2c_remove
<1>4. Raws(vec_remove(w.b2c, p.id)) = {r \in Raws(w.b2c) : r.id # p.id}
  BY <1>2, RemoveRaws
<1>5. QED
  BY <1>1, <1>3, <1>4

\* The proxy keeps an entry of the b2c window no longer than it should: it goes with the
\* acknowledgement that it forwards.
LEMMA ProxyReleasesWindow ==
  ASSUME TypeOK, StageInv, B2CPublishes, ~ bClean, ReleasedLast, WindowReleased, Proxy
  PROVE  WindowReleased'
<1>1. /\ StreamsOK /\ StreamsOK' /\ bOut' = bOut /\ IsSeq(p2c) /\ IsSeq(b2p) /\ IsSeq(c2p)
      /\ IsSeq(p2b) /\ IsSeq(leftover) /\ IsSeq(buffer)
      /\ windows \in Windows(Raws(windows.c2b), Raws(windows.b2c))
  BY ProxyStep, ProxyKeepsStore DEF TypeOK, StreamsOK
<1>2. FromBrokerSocket' \subseteq FromBrokerSocket
  <2>1. /\ IsSeq(Line) /\ Range(Line) = FromBrokerSocket /\ Range(Line') = FromBrokerSocket'
    BY <1>1, LineIs
  <2>2. Line' = << >> \/ Line' = Line \/ (Line # << >> /\ Line' = Tail(Line))
    BY <1>1, SocketSteps
  <2>3. QED
    BY <2>1, <2>2, TailElements, ShortSeqs
<1>3. phase # "ended"
  BY Zenon DEF Proxy, ForwardClientPacket, ForwardBrokerPacket, InterceptDisconnect, BrokerEof, ClientGone,
     KeepaliveTimeout, service_outage_packet, ConnectBroker, RecvConnack, RecvSuback,
     EstablishFails, Replay, Freeze, ResumeSession, adopt_session
<1>4. ASSUME NEW p \in Raws(windows.b2c)
      PROVE  /\ Exact(p) => ~ Has(Range(p2b), {"PUBCOMP"}, p.id)
             /\ p.qos = 1 => Asks(Range(p2c), p.id) \/ Has(FromClient, {"PUBACK"}, p.id)
  BY <1>3 DEF WindowReleased
<1>5. \A p \in Range(buffer) : p.type \notin {"PUBACK", "PUBREC", "PUBCOMP"}
  BY DEF WindowReleased
<1>6. CASE ForwardClientPacket \/ service_outage_packet
  <2>1. PICK t, h : t = LocalAnswer(Head(c2p)) /\ h = Head(c2p)
    OBVIOUS
  <2>2. /\ c2p # << >> /\ c2p' = Tail(c2p) /\ p2c' = p2c \o t /\ UNCHANGED snap
        /\ p2b' = p2b \/ p2b' = << >> \/ (p2b' = Append(p2b, h) /\ ForwardClientPacket)
        /\ windows' = track_c2b(windows, h) \/ (windows' = windows /\ h.type \notin Acks /\ service_outage_packet)
    BY <1>6, <2>1 DEF ForwardClientPacket, service_outage_packet, DropBroker, Acks
  <2>3. Range(p2c') = Range(p2c) \cup Range(t)
    BY <1>1, <2>1, <2>2, LocalAnswerIs, ConcatElements
  <2>4. Range(c2p) = {h} \cup Range(c2p')
    BY <1>1, <2>1, <2>2, TailElements
  <2>5. Range(p2b') \subseteq Range(p2b) \/ (Range(p2b') = Range(p2b) \cup {h} /\ windows' = track_c2b(windows, h))
    BY <1>1, <2>1, <2>2, AppendElements, ShortSeqs DEF ForwardClientPacket
  <2>6. Raws(windows'.b2c) \subseteq Raws(windows.b2c)
    BY <1>6, ForwardClientMoves, OutageMoves
  <2>7. ASSUME NEW p \in Raws(windows'.b2c)
        PROVE  /\ Exact(p) => ~ Has(Range(p2b'), {"PUBCOMP"}, p.id)
               /\ p.qos = 1 /\ phase' # "ended" =>
                    Asks(Range(p2c'), p.id) \/ Has(FromClient', {"PUBACK"}, p.id)
    <3>1. h.type \in {"PUBACK", "PUBCOMP"} => p.id # h.id
      BY <1>1, <2>2, <2>7, AckedGone DEF Acks
    <3>2. p \in Raws(windows.b2c)
      BY <2>6
    <3>3. Exact(p) => ~ Has(Range(p2b'), {"PUBCOMP"}, p.id)
      BY <1>4, <2>5, <3>1, <3>2 DEF Has
    <3>4. Asks(Range(p2c), p.id) => Asks(Range(p2c'), p.id)
      BY <2>3 DEF Asks
    <3>5. Has(FromClient, {"PUBACK"}, p.id) => Has(FromClient', {"PUBACK"}, p.id)
      BY <2>2, <2>4, <3>1 DEF Has, FromClient
    <3>6. QED
      BY <1>4, <3>2, <3>3, <3>4, <3>5
  <2>8. \A p \in Range(buffer') : p.type \notin {"PUBACK", "PUBREC", "PUBCOMP"}
    <3>1. buffer' = buffer \/ (buffer' = Append(buffer, h) /\ h.type \notin {"PUBACK", "PUBREC", "PUBCOMP"})
      BY <1>6, <2>1 DEF ForwardClientPacket, service_outage_packet, Push
    <3>2. Range(Append(buffer, h)) = Range(buffer) \cup {h}
      BY <1>1, AppendElements
    <3>3. QED
      BY <1>5, <3>1, <3>2
  <2>9. QED
    BY <1>1, <1>2, <2>6, <2>7, <2>8, WindowFrame
<1>7. CASE ForwardBrokerPacket
  <2>1. PICK h : h = Head(b2p)
    OBVIOUS
  <2>2. /\ b2p # << >> /\ UNCHANGED <<snap, c2p, p2b, buffer>> /\ (p2c' = p2c \/ p2c' = Append(p2c, h))
        /\ (windows' = windows \/ p2c' = Append(p2c, h))
    BY <1>7, <2>1 DEF ForwardBrokerPacket
  <2>3. Range(Append(p2c, h)) = Range(p2c) \cup {h} /\ h \in FromBrokerSocket
    BY <1>1, <2>1, <2>2, TailElements, AppendElements DEF FromBrokerSocket
  <2>4. Raws(windows'.b2c) \subseteq Raws(windows.b2c) \cup {h}
    BY <1>7, <2>1, ForwardBrokerMoves
  <2>5. ASSUME NEW p \in Raws(windows'.b2c)
        PROVE  /\ p \in Raws(windows.b2c) \/ p \in FromBrokerSocket
               /\ Exact(p) => ~ Has(Range(p2b'), {"PUBCOMP"}, p.id)
               /\ p.qos = 1 /\ phase' # "ended" =>
                    Asks(Range(p2c'), p.id) \/ Has(FromClient', {"PUBACK"}, p.id)
    <3>1. CASE p \in Raws(windows.b2c)
      <4>1. Asks(Range(p2c), p.id) => Asks(Range(p2c'), p.id)
        BY <2>2, <2>3 DEF Asks
      <4>2. FromClient' = FromClient
        BY <2>2 DEF FromClient
      <4>3. QED
        BY <1>4, <2>2, <3>1, <4>1, <4>2
    <3>2. CASE p \notin Raws(windows.b2c)
      <4>1. p = h /\ p2c' = Append(p2c, h)
        BY <2>2, <2>4, <2>5, <3>2
      <4>2. p.type = "PUBLISH"
        BY <2>5, ProxyKeepsB2C DEF B2CPublishes
      <4>3. p.qos = 1 => Asks(Range(p2c'), p.id)
        BY <2>3, <4>1, <4>2 DEF Asks
      <4>4. Exact(p) => ~ Has(Range(p2b'), {"PUBCOMP"}, p.id)
        BY <2>2, <2>3, <4>1 DEF ReleasedLast, Has, BrokerBound
      <4>5. QED
        BY <2>3, <4>1, <4>3, <4>4
    <3>3. QED
      BY <3>1, <3>2
  <2>6. QED
    BY <1>1, <1>2, <1>5, <2>2, <2>5, WindowFrame
<1>8. CASE Replay
  <2>1. PICK r, w, s : r = client_retransmits(windows) /\ w = BrokerWrites /\ s = p2c \o leftover
    OBVIOUS
  <2>2. /\ UNCHANGED <<snap, c2p>> /\ p2c' = s \o r /\ (p2b' = p2b \o w \/ p2b' = p2b)
        /\ buffer' = << >>
    BY <1>8, <2>1 DEF Replay
  <2>3. IsSeq(r) /\ IsSeq(w) /\ \A q \in Range(w) : q.type # "PUBCOMP"
    <3>1. PICK x : x = broker_retransmits(windows)
      OBVIOUS
    <3>2. /\ IsSeq(x)
          /\ \A q \in Range(x) : \E o \in Raws(windows.c2b) : q = o \/ q = with_dup(o)
      BY <1>1, <3>1, BrokerRetransmits
    <3>3. \A o \in Raws(windows.c2b) : o.type \in {"PUBLISH", "PUBREL"}
      BY RawTypes DEF StageInv, Fits
    <3>4. \A q \in Range(x) : q.type # "PUBCOMP"
      BY <3>2, <3>3 DEF with_dup, Packet
    <3>5. IsSeq(w) /\ Range(w) = Range(x) \cup Range(buffer)
      BY <1>1, <2>1, <3>1, <3>2, ConcatElements DEF BrokerWrites
    <3>6. QED
      BY <1>1, <1>5, <2>1, <3>4, <3>5, ClientRetransmits
  <2>4. IsSeq(s) /\ Range(s) = Range(p2c) \cup Range(leftover)
    BY <1>1, <2>1, ConcatElements
  <2>5. Range(p2c') = Range(s) \cup Range(r) /\ Range(p2b \o w) = Range(p2b) \cup Range(w)
    BY <1>1, <2>2, <2>3, <2>4, ConcatElements
  <2>6. Raws(windows'.b2c) \subseteq Raws(windows.b2c)
    BY <1>8, ReplayMoves
  <2>7. ASSUME NEW p \in Raws(windows'.b2c)
        PROVE  /\ Exact(p) => ~ Has(Range(p2b'), {"PUBCOMP"}, p.id)
               /\ p.qos = 1 /\ phase' # "ended" =>
                    Asks(Range(p2c'), p.id) \/ Has(FromClient', {"PUBACK"}, p.id)
    <3>1. p \in Raws(windows.b2c)
      BY <2>6
    <3>2. Exact(p) => ~ Has(Range(p2b'), {"PUBCOMP"}, p.id)
      BY <1>4, <2>2, <2>3, <2>5, <3>1 DEF Has
    <3>3. Asks(Range(p2c), p.id) => Asks(Range(p2c'), p.id)
      BY <2>4, <2>5 DEF Asks
    <3>4. FromClient' = FromClient
      BY <2>2 DEF FromClient
    <3>5. QED
      BY <1>4, <3>1, <3>2, <3>3, <3>4
  <2>8. Range(buffer') = {}
    BY <2>2, ShortSeqs
  <2>9. QED
    BY <1>1, <1>2, <2>6, <2>7, <2>8, WindowFrame
<1>9. CASE \/ InterceptDisconnect \/ BrokerEof \/ ClientGone \/ KeepaliveTimeout \/ ConnectBroker
           \/ RecvConnack \/ RecvSuback \/ EstablishFails \/ Freeze \/ ResumeSession \/ adopt_session
  <2>1. windows' = windows /\ buffer' = buffer
    BY <1>9, ThawMoves DEF InterceptDisconnect, BrokerEof, ClientGone, KeepaliveTimeout,
       ConnectBroker, RecvConnack, RecvSuback, EstablishFails, Freeze
  <2>2. Range(p2c) \subseteq Range(p2c')
    <3>1. p2c' = p2c \/ \E q : p2c' = Append(p2c, q)
      BY <1>9, ThawMoves, Zenon DEF InterceptDisconnect, BrokerEof, ClientGone, KeepaliveTimeout,
         ConnectBroker, RecvConnack, RecvSuback, EstablishFails, Freeze, streams
    <3>2. \A q : Range(Append(p2c, q)) = Range(p2c) \cup {q}
      BY <1>1, AppendElements
    <3>3. QED
      BY <3>1, <3>2
  <2>3. \A q \in Range(p2b') : q \in Range(p2b) \/ q.type # "PUBCOMP"
    <3>1. PICK c, r : c = force_session_resumption(connect_raw) /\ r = resubscribe_packet(subscriptions)
      OBVIOUS
    <3>2. /\ IsSeq(r) /\ c.type = "CONNECT" /\ \A q \in Range(r) : q.type = "SUBSCRIBE"
      BY <3>1, OwnPackets
    <3>3. p2b' \in {p2b, << >>, <<c>>, p2b \o r}
      BY <1>9, <3>1 DEF InterceptDisconnect, BrokerEof, ClientGone, KeepaliveTimeout, DropBroker,
         ConnectBroker, RecvConnack, RecvSuback, EstablishFails, Freeze, ResumeSession, adopt_session, streams
    <3>4. Range(<< >>) = {} /\ Range(<<c>>) = {c} /\ Range(p2b \o r) = Range(p2b) \cup Range(r)
      BY <1>1, <3>2, ShortSeqs, ConcatElements
    <3>5. QED
      BY <3>2, <3>3, <3>4
  <2>4. FromClient' = FromClient
    <3>1. CASE Freeze \/ ResumeSession \/ adopt_session
      BY <1>1, <3>1, FreezeCuts
    <3>3. CASE ~ (Freeze \/ ResumeSession \/ adopt_session)
      <4>1. UNCHANGED <<c2p, snap>>
        BY <1>9, <3>3 DEF InterceptDisconnect, BrokerEof, ClientGone, KeepaliveTimeout,
           ConnectBroker, RecvConnack, RecvSuback, EstablishFails, streams
      <4>2. QED
        BY <4>1 DEF FromClient
    <3>4. QED
      BY <3>1, <3>3
  <2>5. ASSUME NEW p \in Raws(windows.b2c)
        PROVE  /\ Exact(p) => ~ Has(Range(p2b'), {"PUBCOMP"}, p.id)
               /\ p.qos = 1 =>
                    Asks(Range(p2c'), p.id) \/ Has(FromClient', {"PUBACK"}, p.id)
    BY <1>4, <2>2, <2>3, <2>4 DEF Has, Asks
  <2>6. QED
    BY <1>1, <1>2, <1>5, <2>1, <2>5, WindowFrame
<1>10. QED
  BY <1>6, <1>7, <1>8, <1>9, Zenon DEF Proxy

\* All steps of the proxy.
LEMMA ProxyAnswers ==
  ASSUME IInv, StageInv, ArriveStages, B2CPublishes, ~ bClean, MaxSubOps = 0,
         FlowsContinue, ReleasedLast, WindowReleased, Proxy
  PROVE  FlowsContinue' /\ ReleasedLast' /\ WindowReleased'
<1>1. TypeOK /\ StreamsOK' /\ bOut' = bOut /\ phase # "suback"
  BY ProxyStep, ProxyKeepsStore DEF IInv, ArriveStages
<1>2. FlowsContinue'
  BY <1>1, ProxyFlows, FlowsFrame
<1>3. QED
  BY <1>1, <1>2, ProxyReleases, ProxyReleasesWindow

\* A step of a peer that takes no PUBLISH or PUBREL from the client's socket and no
\* acknowledgement from the broker's, unless the connection ends, and adds none.
LEMMA PlainAnswers ==
  ASSUME StreamsOK, UNCHANGED proxyVars, phase # "ended", bOut' = bOut,
         FlowsContinue, ReleasedLast, WindowReleased, RelBehind(Line'),
         \A p \in Range(b2p') : p \in Range(b2p) \/ p.type \notin {"PUBLISH", "PUBREL"},
         \A p \in Range(c2p') : p \in Range(c2p) \/ p.type # "PUBCOMP",
         Range(c2p) \subseteq Range(c2p'), Range(p2c') \subseteq Range(p2c),
         \A p \in Range(p2c) : p \in Range(p2c') \/ p.type \notin {"PUBLISH", "PUBREL"},
         Range(p2b') \subseteq Range(p2b),
         link' = "up" => /\ link = "up" /\ Range(b2p) \subseteq Range(b2p')
                         /\ \A p \in Range(p2b) : p \in Range(p2b') \/ p.type \notin Acks
  PROVE  FlowsContinue' /\ ReleasedLast' /\ WindowReleased'
<1>1. UNCHANGED <<phase, windows, buffer, snap, leftover>>
  BY DEF proxyVars
<1>2. FlowsContinue'
  <2>1. ASSUME link' = "up"
        PROVE  /\ \A p \in ToClient : p \in ToClient' \/ p.type \notin {"PUBLISH", "PUBREL"}
               /\ \A p \in FromClient \cup Range(p2b) :
                    p \in FromClient' \cup Range(p2b') \/ p.type \notin Acks
    BY <1>1, <2>1 DEF ToClient, FromClient
  <2>2. QED
    BY <1>1, <2>1, FlowsFrame
<1>3. \A p \in FromBrokerSocket' : Exact(p) => p \in FromBrokerSocket
  BY <1>1 DEF FromBrokerSocket, Exact
<1>4. ReleasedLast'
  <2>1. \A p \in ClientBound' : p.type = "PUBREL" => \E q \in ClientBound : Same(p, q)
    BY <1>1 DEF ClientBound, ToClient, Same
  <2>2. \A p \in BrokerBound' : p.type = "PUBCOMP" => \E q \in BrokerBound : Same(p, q)
    BY <1>1 DEF BrokerBound, FromClient, Same
  <2>3. QED
    BY <1>1, <1>3, <2>1, <2>2, ReleasedFrame
<1>5. WindowReleased'
  <2>1. ASSUME NEW p \in Raws(windows.b2c)
        PROVE  /\ Exact(p) => ~ Has(Range(p2b'), {"PUBCOMP"}, p.id)
               /\ p.qos = 1 => Asks(Range(p2c'), p.id) \/ Has(FromClient', {"PUBACK"}, p.id)
    <3>1. Exact(p) => ~ Has(Range(p2b), {"PUBCOMP"}, p.id)
      BY DEF WindowReleased
    <3>2. p.qos = 1 => Asks(Range(p2c), p.id) \/ Has(FromClient, {"PUBACK"}, p.id)
      BY DEF WindowReleased
    <3>3. Asks(Range(p2c), p.id) => Asks(Range(p2c'), p.id)
      BY DEF Asks
    <3>4. Has(FromClient, {"PUBACK"}, p.id) => Has(FromClient', {"PUBACK"}, p.id)
      BY <1>1 DEF Has, FromClient
    <3>5. QED
      BY <3>1, <3>2, <3>3, <3>4 DEF Has
  <2>2. QED
    BY <1>1, <1>3, <2>1, WindowFrame DEF WindowReleased
<1>6. QED
  BY <1>2, <1>4, <1>5

\* The broker sends more on the connection.
LEMMA LineMore ==
  ASSUME StreamsOK, snap' = snap, RelBehind(Line), NEW r, IsSeq(r), b2p' = b2p \o r, RelBehind(r),
         \A p \in Range(r), q \in FromBrokerSocket : Exact(p) /\ q.type = "PUBREL" => q.id # p.id
  PROVE  RelBehind(Line')
<1>1. IsSeq(snap.broker_buf) /\ IsSeq(b2p) /\ IsSeq(Line) /\ Range(Line) = FromBrokerSocket
  BY LineIs DEF StreamsOK
<1>2. Line' = Line \o r
  <2>1. PICK S : S = Range(snap.broker_buf) \cup Range(b2p) \cup Range(r)
    OBVIOUS
  <2>2. snap.broker_buf \in Seq(S) /\ b2p \in Seq(S) /\ r \in Seq(S)
    BY <1>1, <2>1 DEF IsSeq
  <2>3. PICK x, y : x = snap.broker_buf /\ y = b2p
    OBVIOUS
  <2>4. x \in Seq(S) /\ y \in Seq(S)
    BY <2>2, <2>3
  <2>5. (x \o y) \o r = x \o (y \o r)
    BY <2>2, <2>4, ConcatAssociative, SMTT(30)
  <2>6. QED
    BY <2>3, <2>5, Zenon DEF Line
<1>3. PICK s, m, n : s = Line /\ m = Len(Line) /\ n = Len(r)
  OBVIOUS
<1>4. PICK t : t = s \o r
  OBVIOUS
<1>5. /\ m \in Nat /\ n \in Nat /\ DOMAIN s = 1..m /\ DOMAIN r = 1..n /\ DOMAIN t = 1..(m + n)
      /\ \A i \in 1..m : t[i] = s[i] /\ s[i] \in FromBrokerSocket
      /\ \A i \in 1..n : t[m + i] = r[i] /\ r[i] \in Range(r)
  BY <1>1, <1>3, <1>4, ConcatPlaces, SeqPlaces
<1>6. \A i \in 1..(m + n) : i \in 1..m \/ \E k \in 1..n : i = m + k
  <2>1. SUFFICES ASSUME NEW i \in 1..(m + n), i \notin 1..m PROVE \E k \in 1..n : i = m + k
    OBVIOUS
  <2>2. i - m \in 1..n /\ i = m + (i - m)
    BY <1>5, <2>1
  <2>3. QED
    BY <2>2
<1>7. ASSUME NEW i \in DOMAIN t, NEW j \in DOMAIN t, i < j, t[i].type = "PUBREL", Exact(t[j])
      PROVE  t[i].id # t[j].id
  <2>1. CASE j \in 1..m
    <3>1. i \in 1..m
      BY <1>5, <1>7, <2>1
    <3>2. QED
      BY <1>3, <1>5, <1>7, <2>1, <3>1 DEF RelBehind
  <2>2. CASE \E k \in 1..n : j = m + k
    <3>1. PICK k \in 1..n : j = m + k
      BY <2>2
    <3>2. t[j] = r[k] /\ r[k] \in Range(r)
      BY <1>5, <3>1
    <3>3. CASE i \in 1..m
      BY <1>5, <1>7, <3>2, <3>3
    <3>4. CASE \E l \in 1..n : i = m + l
      <4>1. PICK l \in 1..n : i = m + l
        BY <3>4
      <4>2. l < k /\ t[i] = r[l]
        BY <1>5, <1>7, <3>1, <4>1
      <4>3. l \in DOMAIN r /\ k \in DOMAIN r /\ r[l].type = "PUBREL" /\ Exact(r[k])
        BY <1>5, <1>7, <3>2, <4>2
      <4>4. r[l].id # r[k].id
        BY <4>2, <4>3 DEF RelBehind
      <4>5. QED
        BY <3>2, <4>2, <4>4
    <3>5. QED
      BY <1>5, <1>6, <1>7, <3>3, <3>4
  <2>3. QED
    BY <1>5, <1>6, <1>7, <2>1, <2>2
<1>8. QED
  BY <1>2, <1>3, <1>4, <1>7 DEF RelBehind

\* The connection ends, and with it some of what the broker sent.
LEMMA LineCut ==
  ASSUME StreamsOK, snap' = snap, RelBehind(Line), NEW k \in 0..Len(b2p), b2p' = SubSeq(b2p, 1, k)
  PROVE  RelBehind(Line')
<1>1. IsSeq(snap.broker_buf) /\ IsSeq(b2p)
  BY DEF StreamsOK
<1>2. PICK s, u, t, m : /\ s = snap.broker_buf \o b2p /\ u = SubSeq(b2p, 1, k)
                        /\ t = snap.broker_buf \o u /\ m = Len(snap.broker_buf)
  OBVIOUS
<1>3. IsSeq(u) /\ Len(u) = k /\ \A i \in 1..k : u[i] = b2p[i]
  <2>1. b2p \in Seq(Range(b2p)) /\ Len(b2p) \in Nat
    BY <1>1, SeqPlaces DEF IsSeq
  <2>2. u \in Seq(Range(b2p)) /\ Len(u) = k /\ \A i \in 1..k : u[i] = b2p[i]
    BY <1>2, <2>1
  <2>3. QED
    BY <2>2, SeqOver
<1>4. /\ m \in Nat /\ Len(b2p) \in Nat /\ k \in Nat
      /\ DOMAIN s = 1..(m + Len(b2p)) /\ DOMAIN t = 1..(m + k)
      /\ \A i \in 1..m : s[i] = t[i]
      /\ \A i \in 1..k : s[m + i] = t[m + i]
  <2>1. /\ m \in Nat /\ Len(b2p) \in Nat /\ k \in Nat /\ Len(u) = k
    BY <1>1, <1>2, <1>3, SeqPlaces
  <2>2. /\ DOMAIN s = 1..(m + Len(b2p)) /\ \A i \in 1..m : s[i] = snap.broker_buf[i]
        /\ \A i \in 1..Len(b2p) : s[m + i] = b2p[i]
    BY <1>1, <1>2, ConcatPlaces
  <2>3. /\ DOMAIN t = 1..(m + k) /\ \A i \in 1..m : t[i] = snap.broker_buf[i]
        /\ \A i \in 1..k : t[m + i] = u[i]
    <3>1. PICK a : a = snap.broker_buf /\ IsSeq(a) /\ t = a \o u /\ m = Len(a)
      BY <1>1, <1>2
    <3>2. /\ DOMAIN (a \o u) = 1..(Len(a) + Len(u)) /\ \A i \in 1..Len(a) : (a \o u)[i] = a[i]
          /\ \A i \in 1..Len(u) : (a \o u)[Len(a) + i] = u[i]
      <4>1. IsSeq(a) /\ IsSeq(u)
        BY <1>3, <3>1
      <4>2. QED
        BY <4>1, ConcatPlaces
    <3>3. QED
      BY <1>3, <3>1, <3>2
  <2>4. \A i \in 1..k : i \in 1..Len(b2p)
    BY <2>1
  <2>5. QED
    BY <1>3, <2>1, <2>2, <2>3, <2>4
<1>5. \A i \in DOMAIN t : i \in DOMAIN s /\ s[i] = t[i]
  <2>1. SUFFICES ASSUME NEW i \in DOMAIN t PROVE i \in DOMAIN s /\ s[i] = t[i]
    OBVIOUS
  <2>2. i \in DOMAIN s /\ (i \in 1..m \/ i - m \in 1..k) /\ m + (i - m) = i
    BY <1>4, <2>1
  <2>3. QED
    BY <1>4, <2>2
<1>6. s = Line /\ t = Line'
  BY <1>2 DEF Line
<1>7. QED
  BY <1>5, <1>6 DEF RelBehind

\* The steps of the client that answer nothing of the broker.
LEMMA ClientPlainAnswers ==
  ASSUME IInv, UNCHANGED proxyVars, phase # "ended", FlowsContinue, ReleasedLast, WindowReleased,
         \/ ClientSteps \/ ClientOnPubrec \/ ClientOnAck \/ ClientOnSuback \/ ClientOnPingresp
         \/ ClientOnDisconnect
  PROVE  FlowsContinue' /\ ReleasedLast' /\ WindowReleased'
<1>1. StreamsOK /\ IsSeq(c2p) /\ IsSeq(p2c)
  BY DEF IInv, TypeOK, StreamsOK
<1>2. /\ UNCHANGED <<b2p, p2b, link, bOut, snap>>
      /\ \E r : /\ IsSeq(r) /\ (\A q \in Range(r) : q.type # "PUBCOMP") /\ c2p' = c2p \o r
      /\ p2c' = p2c \/ (p2c # << >> /\ p2c' = Tail(p2c) /\ Head(p2c).type \notin {"PUBLISH", "PUBREL"})
  <2>1. ASSUME NEW p, c2p' = Append(c2p, p), p.type # "PUBCOMP"
        PROVE  \E r : /\ IsSeq(r) /\ (\A q \in Range(r) : q.type # "PUBCOMP") /\ c2p' = c2p \o r
    <3>1. IsSeq(<<p>>) /\ Range(<<p>>) = {p} /\ c2p \in Seq(Range(c2p))
      BY <1>1, ShortSeqs DEF IsSeq
    <3>2. Append(c2p, p) = c2p \o <<p>>
      BY <3>1
    <3>3. QED
      BY <2>1, <3>1, <3>2
  <2>2. ASSUME c2p' = c2p
        PROVE  \E r : /\ IsSeq(r) /\ (\A q \in Range(r) : q.type # "PUBCOMP") /\ c2p' = c2p \o r
    <3>1. c2p \o << >> = c2p
      BY <1>1 DEF IsSeq
    <3>2. QED
      BY <2>2, <3>1, ShortSeqs
  <2>3. CASE ClientSteps
    <3>1. UNCHANGED <<b2p, p2b, link, bOut, snap, p2c>>
      BY <2>3 DEF ClientSteps, ClientPublish, ClientSubscribe, ClientUnsubscribe, ClientPing, ClientLeave,
         ClientSends, brokerVars, proxyVars
    <3>2. CASE ClientLeave
      <4>1. Pkt("DISCONNECT", NoId).type = "DISCONNECT"
        BY OwnPackets
      <4>2. c2p' = c2p \/ c2p' = Append(c2p, Pkt("DISCONNECT", NoId))
        BY <3>2 DEF ClientLeave
      <4>3. QED
        BY <2>1, <2>2, <3>1, <4>1, <4>2
    <3>3. CASE ~ ClientLeave
      <4>1. \A id, q, m : PublishPkt(id, q, m).type = "PUBLISH"
        BY DEF PublishPkt, Packet
      <4>2. PICK p, st : ClientSends(p, st) /\ p.type # "PUBCOMP"
        <5>1. CASE ClientPublish
          <6>1. PICK id, q, m : ClientSends(PublishPkt(id, q, m), "pub")
            BY <5>1, Zenon DEF ClientPublish
          <6>2. QED
            BY <4>1, <6>1
        <5>2. CASE ClientSubscribe \/ ClientUnsubscribe
          <6>1. PICK t, id, body, st : /\ ClientSends(PktWith(t, id, body), st)
                                       /\ t \in {"SUBSCRIBE", "UNSUBSCRIBE"}
            BY <5>2 DEF ClientSubscribe, ClientUnsubscribe
          <6>2. PktWith(t, id, body).type = t
            BY OwnPackets
          <6>3. QED
            BY <6>1, <6>2
        <5>3. CASE ClientPing
          BY <5>3, OwnPackets DEF ClientPing
        <5>4. QED
          BY <2>3, <3>3, <5>1, <5>2, <5>3 DEF ClientSteps
      <4>3. c2p' = Append(c2p, p)
        BY <4>2 DEF ClientSends
      <4>4. QED
        BY <2>1, <3>1, <4>2, <4>3
    <3>4. QED
      BY <3>2, <3>3
  <2>4. CASE ~ ClientSteps
    <3>1. PICK rel : rel = Pkt("PUBREL", Head(p2c).id) /\ rel.type = "PUBREL"
      BY OwnPackets
    <3>2. ClientTakes(<<rel>>) \/ ClientTakes(<< >>)
      BY <2>4, <3>1, Zenon DEF ClientOnPubrec, ClientOnAck, ClientOnSuback, ClientOnPingresp,
         ClientOnDisconnect
    <3>3. p2c # << >> /\ Head(p2c).type \notin {"PUBLISH", "PUBREL"}
      BY <2>4 DEF ClientOnPubrec, ClientOnAck, ClientOnSuback, ClientOnPingresp, ClientOnDisconnect, HeadIs
    <3>4. PICK r : IsSeq(r) /\ (\A q \in Range(r) : q.type # "PUBCOMP") /\ ClientTakes(r)
      BY <3>1, <3>2, ShortSeqs
    <3>5. UNCHANGED <<b2p, p2b, link, bOut, snap>> /\ p2c' = Tail(p2c) /\ c2p' = c2p \o r
      BY <3>4 DEF ClientTakes, brokerVars, proxyVars
    <3>6. QED
      BY <3>3, <3>4, <3>5
  <2>5. QED
    BY <2>3, <2>4
<1>3. /\ Range(c2p) \subseteq Range(c2p')
      /\ \A p \in Range(c2p') : p \in Range(c2p) \/ p.type # "PUBCOMP"
  <2>1. PICK r : IsSeq(r) /\ (\A q \in Range(r) : q.type # "PUBCOMP") /\ c2p' = c2p \o r
    BY <1>2
  <2>2. Range(c2p \o r) = Range(c2p) \cup Range(r)
    BY <1>1, <2>1, ConcatElements
  <2>3. QED
    BY <2>1, <2>2
<1>4. /\ Range(p2c') \subseteq Range(p2c)
      /\ \A p \in Range(p2c) : p \in Range(p2c') \/ p.type \notin {"PUBLISH", "PUBREL"}
  BY <1>1, <1>2, TailElements
<1>5. RelBehind(Line')
  BY <1>2, ZenonT(60) DEF ReleasedLast, RelBehind, Line
<1>6. QED
  BY <1>1, <1>2, <1>3, <1>4, <1>5, PlainAnswers

\* The client answers a PUBLISH as its QoS asks: PUBACK for 1, PUBREC for 2.
LEMMA AnswerFits ==
  ASSUME NEW p, p.qos \in 1..2
  PROVE  \E q : /\ Answer(p) = <<q>> /\ q.id = p.id
                /\ q.type = IF p.qos = 1 THEN "PUBACK" ELSE "PUBREC"
<1>1. Pkt("PUBACK", p.id).type = "PUBACK" /\ Pkt("PUBACK", p.id).id = p.id
  BY OwnPackets
<1>2. Pkt("PUBREC", p.id).type = "PUBREC" /\ Pkt("PUBREC", p.id).id = p.id
  BY OwnPackets
<1>3. CASE p.qos = 1
  <2>1. p.qos # 0
    BY <1>3
  <2>2. Answer(p) = << Pkt("PUBACK", p.id) >>
    BY <1>3, <2>1 DEF Answer
  <2>3. QED
    BY <1>1, <1>3, <2>2
<1>4. CASE p.qos = 2
  <2>1. p.qos # 0 /\ p.qos # 1
    BY <1>4
  <2>2. Answer(p) = << Pkt("PUBREC", p.id) >>
    BY <1>4, <2>1 DEF Answer
  <2>3. QED
    BY <1>2, <2>1, <2>2
<1>5. QED
  BY <1>3, <1>4

\* A PUBLISH leaves the client's socket, and its answer continues the flow.
LEMMA ClientOnPublishAnswers ==
  ASSUME IInv, IInv', ArriveMessages, B2CPublishes, UNCHANGED proxyVars, phase # "ended",
         FlowsContinue, ReleasedLast, WindowReleased, ClientOnPublish
  PROVE  FlowsContinue' /\ ReleasedLast' /\ WindowReleased'
<1>0. PICK p : p = Head(p2c)
  OBVIOUS
<1>1. p2c # << >> /\ p.type = "PUBLISH" /\ ClientTakes(Answer(p))
  BY <1>0 DEF ClientOnPublish, HeadIs
<1>2. /\ StreamsOK /\ IsSeq(c2p) /\ IsSeq(p2c) /\ DeliverInv
      /\ UNCHANGED <<phase, windows, buffer, snap, leftover>>
  BY DEF IInv, TypeOK, StreamsOK, proxyVars
<1>3. Range(p2c) = {p} \cup Range(p2c') /\ p \in ClientBound
  <2>1. p2c' = Tail(p2c)
    BY <1>1 DEF ClientTakes
  <2>2. QED
    BY <1>0, <1>1, <1>2, <2>1, TailElements DEF ClientBound, ToClient
<1>4. BrokerFlow(p) /\ p.qos \in 0..2
  BY <1>1, <1>2, <1>3 DEF DeliverInv, BrokerFlow
<1>5. /\ IsSeq(Answer(p)) /\ \A q \in Range(Answer(p)) : q.type \in {"PUBACK", "PUBREC"}
  BY <1>4, AnswerIs
<1>6. /\ Range(c2p') = Range(c2p) \cup Range(Answer(p)) /\ UNCHANGED <<b2p, p2b, link, bOut>>
  BY <1>1, <1>2, <1>5, ConcatElements DEF ClientTakes, brokerVars
<1>7. ASSUME p.qos > 0
      PROVE  Has(FromClient', {IF BrokerQoS[p.body] = 1 THEN "PUBACK" ELSE "PUBREC"}, p.id)
  <2>1. p.qos = BrokerQoS[p.body]
    BY <1>1, <1>3 DEF ArriveMessages
  <2>2. PICK q : /\ Answer(p) = <<q>> /\ q.id = p.id
                 /\ q.type = IF p.qos = 1 THEN "PUBACK" ELSE "PUBREC"
    BY <1>4, <1>7, AnswerFits
  <2>3. q \in FromClient'
    BY <1>6, <2>2, ShortSeqs DEF FromClient
  <2>4. QED
    BY <2>1, <2>2, <2>3 DEF Has
<1>8. FromClient \subseteq FromClient'
  BY <1>2, <1>6 DEF FromClient
<1>9. FlowsContinue'
  <2>1. SUFFICES ASSUME link = "up", NEW e \in Range(bOut)
                 PROVE  IF e.st = "pub"
                        THEN \/ Asks(ToClient', e.id)
                             \/ Has(FromClient' \cup Range(p2b'), {AnswerType(e.msg)}, e.id)
                        ELSE \/ Has(ToClient', {"PUBREL"}, e.id)
                             \/ Has(FromClient' \cup Range(p2b'), {"PUBCOMP"}, e.id)
    BY <1>2, <1>6 DEF FlowsContinue
  <2>2. ToClient = {p} \cup ToClient'
    BY <1>2, <1>3, <1>6 DEF ToClient
  <2>3. \A t : Has(FromClient \cup Range(p2b), {t}, e.id) => Has(FromClient' \cup Range(p2b'), {t}, e.id)
    BY <1>6, <1>8 DEF Has
  <2>4. CASE e.st # "pub"
    <3>1. Has(ToClient, {"PUBREL"}, e.id) => Has(ToClient', {"PUBREL"}, e.id)
      BY <1>1, <2>2 DEF Has
    <3>2. Has(ToClient, {"PUBREL"}, e.id) \/ Has(FromClient \cup Range(p2b), {"PUBCOMP"}, e.id)
      BY <2>1, <2>4 DEF FlowsContinue
    <3>3. QED
      BY <2>3, <2>4, <3>1, <3>2
  <2>5. CASE e.st = "pub"
    <3>1. Asks(ToClient, e.id) \/ Has(FromClient \cup Range(p2b), {AnswerType(e.msg)}, e.id)
      BY <2>1, <2>5 DEF FlowsContinue
    <3>2. CASE Asks(ToClient, e.id) /\ ~ Asks(ToClient', e.id)
      <4>1. p.qos > 0 /\ p.id = e.id
        BY <2>2, <3>2 DEF Asks
      <4>2. e.msg = p.body
        BY <1>1, <1>4, <4>1 DEF BrokerFlow
      <4>3. Has(FromClient', {AnswerType(e.msg)}, e.id)
        BY <1>7, <4>1, <4>2 DEF AnswerType
      <4>4. QED
        BY <2>5, <4>3 DEF Has
    <3>3. QED
      BY <2>3, <2>5, <3>1, <3>2
  <2>6. QED
    BY <2>4, <2>5
<1>10. FromBrokerSocket' = FromBrokerSocket /\ Line' = Line
  BY <1>2, <1>6 DEF FromBrokerSocket, Line
<1>11. ReleasedLast'
  <2>1. \A q \in ClientBound' : q.type = "PUBREL" => \E o \in ClientBound : Same(q, o)
    BY <1>2, <1>3, <1>6 DEF ClientBound, ToClient, Same
  <2>2. \A q \in BrokerBound' : q.type = "PUBCOMP" => \E o \in BrokerBound : Same(q, o)
    BY <1>2, <1>5, <1>6 DEF BrokerBound, FromClient, Same
  <2>3. RelBehind(Line')
    BY <1>10 DEF ReleasedLast, RelBehind, Line
  <2>4. QED
    BY <1>2, <1>3, <1>6, <1>10, <2>1, <2>2, <2>3, ReleasedFrame
<1>12. ASSUME NEW r \in Raws(windows.b2c)
       PROVE  /\ Exact(r) => ~ Has(Range(p2b'), {"PUBCOMP"}, r.id)
              /\ r.qos = 1 => Asks(Range(p2c'), r.id) \/ Has(FromClient', {"PUBACK"}, r.id)
  <2>1. Exact(r) => ~ Has(Range(p2b'), {"PUBCOMP"}, r.id)
    BY <1>6 DEF WindowReleased
  <2>2. r.qos = 1 => Asks(Range(p2c), r.id) \/ Has(FromClient, {"PUBACK"}, r.id)
    BY DEF WindowReleased
  <2>3. Has(FromClient, {"PUBACK"}, r.id) => Has(FromClient', {"PUBACK"}, r.id)
    BY <1>8 DEF Has
  <2>4. ASSUME r.qos = 1, Asks(Range(p2c), r.id), ~ Asks(Range(p2c'), r.id)
        PROVE  Has(FromClient', {"PUBACK"}, r.id)
    <3>1. p.qos > 0 /\ p.id = r.id
      BY <1>3, <2>4 DEF Asks
    <3>2. r.type = "PUBLISH" /\ r \in ClientBound
      BY DEF B2CPublishes, ClientBound
    <3>3. p.body = r.body /\ r.qos = BrokerQoS[r.body]
      BY <1>1, <1>3, <2>4, <3>1, <3>2 DEF ArriveMessages
    <3>4. QED
      BY <1>7, <2>4, <3>1, <3>3
  <2>5. QED
    BY <2>1, <2>2, <2>3, <2>4
<1>13. WindowReleased'
  BY <1>2, <1>6, <1>10, <1>12, WindowFrame DEF WindowReleased
<1>14. QED
  BY <1>9, <1>11, <1>13

\* A PUBREL leaves the client's socket, and PUBCOMP continues the flow.
LEMMA ClientOnPubrelAnswers ==
  ASSUME IInv, UNCHANGED proxyVars, phase # "ended",
         FlowsContinue, ReleasedLast, WindowReleased, ClientOnPubrel
  PROVE  FlowsContinue' /\ ReleasedLast' /\ WindowReleased'
<1>0. PICK p, c : p = Head(p2c) /\ c = Pkt("PUBCOMP", p.id)
  OBVIOUS
<1>1. /\ p2c # << >> /\ p.type = "PUBREL" /\ ClientTakes(<<c>>) /\ c.type = "PUBCOMP" /\ c.id = p.id
  BY <1>0, OwnPackets DEF ClientOnPubrel, HeadIs
<1>2. /\ StreamsOK /\ IsSeq(c2p) /\ IsSeq(p2c) /\ UNCHANGED <<phase, windows, buffer, snap, leftover>>
  BY DEF IInv, TypeOK, StreamsOK, proxyVars
<1>3. Range(p2c) = {p} \cup Range(p2c')
  <2>1. p2c' = Tail(p2c)
    BY <1>1 DEF ClientTakes
  <2>2. QED
    BY <1>0, <1>1, <1>2, <2>1, TailElements
<1>4. /\ Range(c2p') = Range(c2p) \cup {c} /\ UNCHANGED <<b2p, p2b, link, bOut>>
  <2>1. IsSeq(<<c>>) /\ Range(<<c>>) = {c}
    BY ShortSeqs
  <2>2. QED
    BY <1>1, <1>2, <2>1, ConcatElements DEF ClientTakes, brokerVars
<1>5. /\ FromClient' = FromClient \cup {c} /\ ToClient = {p} \cup ToClient'
      /\ FromBrokerSocket' = FromBrokerSocket /\ Line' = Line
      /\ BrokerBound' = BrokerBound \cup {c} /\ ClientBound = {p} \cup ClientBound'
  BY <1>2, <1>3, <1>4 DEF FromClient, ToClient, FromBrokerSocket, Line, BrokerBound, ClientBound
<1>6. FlowsContinue'
  <2>1. SUFFICES ASSUME link = "up", NEW e \in Range(bOut)
                 PROVE  IF e.st = "pub"
                        THEN \/ Asks(ToClient', e.id)
                             \/ Has(FromClient' \cup Range(p2b'), {AnswerType(e.msg)}, e.id)
                        ELSE \/ Has(ToClient', {"PUBREL"}, e.id)
                             \/ Has(FromClient' \cup Range(p2b'), {"PUBCOMP"}, e.id)
    BY <1>2, <1>4 DEF FlowsContinue
  <2>2. \A t : Has(FromClient \cup Range(p2b), {t}, e.id) => Has(FromClient' \cup Range(p2b'), {t}, e.id)
    BY <1>4, <1>5 DEF Has
  <2>3. Asks(ToClient, e.id) => Asks(ToClient', e.id)
    BY <1>1, <1>5 DEF Asks
  <2>4. Has(ToClient, {"PUBREL"}, e.id) => \/ Has(ToClient', {"PUBREL"}, e.id)
                                           \/ Has(FromClient' \cup Range(p2b'), {"PUBCOMP"}, e.id)
    BY <1>1, <1>5 DEF Has
  <2>5. QED
    BY <2>1, <2>2, <2>3, <2>4 DEF FlowsContinue
<1>7. ReleasedLast'
  <2>1. ASSUME NEW e \in Range(bOut)
        PROVE  /\ e.st \in {"pub", "rel"}
               /\ e.st = "pub" /\ BrokerQoS[e.msg] = 2 =>
                    ~ Has(ClientBound', {"PUBREL"}, e.id) /\ ~ Has(BrokerBound', {"PUBCOMP"}, e.id)
    <3>1. /\ e.st \in {"pub", "rel"}
          /\ e.st = "pub" /\ BrokerQoS[e.msg] = 2 =>
               ~ Has(ClientBound, {"PUBREL"}, e.id) /\ ~ Has(BrokerBound, {"PUBCOMP"}, e.id)
      BY DEF ReleasedLast
    <3>2. QED
      BY <1>1, <1>5, <3>1 DEF Has
  <2>2. ASSUME NEW q \in FromBrokerSocket, Exact(q)
        PROVE  /\ ~ Has(Range(p2c') \cup Range(leftover), {"PUBREL"}, q.id)
               /\ ~ Has(BrokerBound', {"PUBCOMP"}, q.id)
    <3>1. /\ ~ Has(Range(p2c) \cup Range(leftover), {"PUBREL"}, q.id)
          /\ ~ Has(BrokerBound, {"PUBCOMP"}, q.id)
      BY <2>2 DEF ReleasedLast
    <3>2. QED
      BY <1>1, <1>3, <1>5, <3>1 DEF Has
  <2>3. RelBehind(Line')
    BY <1>5 DEF ReleasedLast, RelBehind, Line
  <2>4. QED
    BY <1>2, <1>4, <1>5, <2>1, <2>2, <2>3 DEF ReleasedLast, RelBehind, Line
<1>8. WindowReleased'
  <2>1. ASSUME NEW r \in Raws(windows.b2c)
        PROVE  /\ Exact(r) => ~ Has(Range(p2b'), {"PUBCOMP"}, r.id)
               /\ r.qos = 1 => Asks(Range(p2c'), r.id) \/ Has(FromClient', {"PUBACK"}, r.id)
    <3>1. r.qos = 1 => Asks(Range(p2c), r.id) \/ Has(FromClient, {"PUBACK"}, r.id)
      BY DEF WindowReleased
    <3>2. Asks(Range(p2c), r.id) => Asks(Range(p2c'), r.id)
      BY <1>1, <1>3 DEF Asks
    <3>3. Has(FromClient, {"PUBACK"}, r.id) => Has(FromClient', {"PUBACK"}, r.id)
      BY <1>5 DEF Has
    <3>4. Exact(r) => ~ Has(Range(p2b'), {"PUBCOMP"}, r.id)
      BY <1>4 DEF WindowReleased
    <3>5. QED
      BY <3>1, <3>2, <3>3, <3>4
  <2>2. QED
    BY <1>2, <1>4, <1>5, <2>1, WindowFrame DEF WindowReleased
<1>9. QED
  BY <1>6, <1>7, <1>8

\* The broker reads what is no answer of the client, or closes the connection.
LEMMA BrokerPlainAnswers ==
  ASSUME IInv, UNCHANGED proxyVars, phase # "ended", ~ bClean,
         FlowsContinue, ReleasedLast, WindowReleased,
         \/ BrokerOnPublish \/ BrokerOnPubrel \/ BrokerOnSubscribe \/ BrokerOnPing
         \/ BrokerOnDisconnect \/ BrokerCloses
  PROVE  FlowsContinue' /\ ReleasedLast' /\ WindowReleased'
<1>1. /\ StreamsOK /\ IsSeq(p2b) /\ IsSeq(b2p) /\ snap' = snap /\ RelBehind(Line)
  BY DEF IInv, TypeOK, StreamsOK, proxyVars, ReleasedLast, RelBehind, Line
<1>2. bOut' = bOut
  BY DEF BrokerOnPublish, BrokerOnPubrel, BrokerOnSubscribe, BrokerOnPing, BrokerOnDisconnect,
     BrokerCloses, Keep
<1>3. CASE BrokerOnPublish \/ BrokerOnPubrel \/ BrokerOnSubscribe \/ BrokerOnPing
  <2>1. PICK r : /\ IsSeq(r) /\ BrokerTakes(r)
                 /\ \A p \in Range(r) : p.type \notin {"PUBLISH", "PUBREL"}
    <3>1. CASE BrokerOnPublish
      <4>1. PICK p : p = Head(p2b)
        OBVIOUS
      <4>2. p2b # << >> /\ p.type = "PUBLISH" /\ BrokerTakes(Answer(p))
        BY <3>1, <4>1 DEF BrokerOnPublish, HeadIs
      <4>3. ClientFlow(p)
        BY <4>1, <4>2, BrokerHead
      <4>4. p.qos \in 0..2
        BY <4>2, <4>3 DEF ClientFlow
      <4>5. IsSeq(Answer(p)) /\ \A q \in Range(Answer(p)) : q.type \in {"PUBACK", "PUBREC"}
        BY <4>4, AnswerIs
      <4>6. QED
        BY <4>2, <4>5
    <3>2. CASE BrokerOnPubrel \/ BrokerOnSubscribe \/ BrokerOnPing
      <4>0. PICK t, id : /\ t \in {"PUBCOMP", "SUBACK", "UNSUBACK", "PINGRESP"}
                         /\ BrokerTakes(<<Pkt(t, id)>>)
        BY <3>2 DEF BrokerOnPubrel, BrokerOnSubscribe, BrokerOnPing
      <4>1. PICK q : q.type \in {"PUBCOMP", "SUBACK", "UNSUBACK", "PINGRESP"} /\ BrokerTakes(<<q>>)
        BY <4>0, OwnPackets
      <4>2. IsSeq(<<q>>) /\ Range(<<q>>) = {q}
        BY ShortSeqs
      <4>3. QED
        BY <4>1, <4>2
    <3>3. QED
      BY <1>3, <3>1, <3>2
  <2>2. /\ UNCHANGED <<c2p, p2c, link>> /\ b2p' = b2p \o r /\ p2b' = Tail(p2b)
    BY <2>1 DEF BrokerTakes
  <2>3. p2b # << >> /\ Head(p2b).type \notin Acks
    BY <1>3 DEF BrokerOnPublish, BrokerOnPubrel, BrokerOnSubscribe, BrokerOnPing, HeadIs, Acks
  <2>4. /\ Range(p2b) = {Head(p2b)} \cup Range(p2b')
        /\ Range(b2p') = Range(b2p) \cup Range(r)
    BY <1>1, <2>1, <2>2, <2>3, TailElements, ConcatElements
  <2>5. RelBehind(Line')
    <3>1. \A p \in Range(r) : ~ Exact(p) /\ p.type # "PUBREL"
      BY <2>1 DEF Exact
    <3>2. RelBehind(r)
      BY <2>1, <3>1, SeqPlaces DEF RelBehind
    <3>3. QED
      BY <1>1, <2>1, <2>2, <3>1, <3>2, LineMore
  <2>6. QED
    BY <1>1, <1>2, <2>1, <2>2, <2>3, <2>4, <2>5, PlainAnswers
<1>4. CASE BrokerOnDisconnect \/ BrokerCloses
  <2>1. /\ p2b' = << >> /\ link' = "dead" /\ UNCHANGED <<c2p, p2c>>
        /\ \/ \E k \in 0..Len(b2p) : b2p' = SubSeq(b2p, 1, k)
           \/ link = "up" /\ \E q : q.type = "DISCONNECT" /\ b2p' = Append(b2p, q)
    BY <1>4, BrokerCloseLeaves
  <2>2. Range(p2b') = {}
    BY <2>1, ShortSeqs
  <2>3. CASE \E k \in 0..Len(b2p) : b2p' = SubSeq(b2p, 1, k)
    <3>1. PICK k \in 0..Len(b2p) : b2p' = SubSeq(b2p, 1, k)
      BY <2>3
    <3>2. RelBehind(Line')
      BY <1>1, <3>1, LineCut
    <3>3. Range(b2p') \subseteq Range(b2p)
      <4>1. Len(b2p) \in Nat /\ k \in Nat /\ k <= Len(b2p)
        BY <1>1, SeqPlaces
      <4>2. QED
        BY <1>1, <3>1, <4>1, SubSeqElements
    <3>4. QED
      BY <1>1, <1>2, <2>1, <2>2, <3>2, <3>3, PlainAnswers
  <2>4. CASE \E q : q.type = "DISCONNECT" /\ b2p' = Append(b2p, q)
    <3>1. PICK q : q.type = "DISCONNECT" /\ b2p' = Append(b2p, q)
      BY <2>4
    <3>2. PICK r : r = <<q>> /\ IsSeq(r) /\ Range(r) = {q} /\ DOMAIN r = 1..1
      <4>1. DOMAIN <<q>> = 1..1
        OBVIOUS
      <4>2. QED
        BY <4>1, ShortSeqs
    <3>3. b2p' = b2p \o r
      BY <1>1, <3>1, <3>2, AppendIsConcat DEF IsSeq
    <3>4. RelBehind(Line')
      <4>1. RelBehind(r)
        BY <3>2 DEF RelBehind
      <4>2. \A p \in Range(r) : ~ Exact(p)
        BY <3>1, <3>2 DEF Exact
      <4>3. QED
        BY <1>1, <3>2, <3>3, <4>1, <4>2, LineMore
    <3>5. Range(b2p') = Range(b2p) \cup {q}
      BY <1>1, <3>1, AppendElements
    <3>6. QED
      BY <1>1, <1>2, <2>1, <2>2, <3>1, <3>4, <3>5, PlainAnswers
  <2>5. QED
    BY <2>1, <2>3, <2>4
<1>5. QED
  BY <1>3, <1>4

\* No two entries of the broker's store have the same id.
LEMMA StoreUnique ==
  ASSUME DeliverInv, ArriveOrder
  PROVE  \A i, j \in DOMAIN bOut : bOut[i].id = bOut[j].id => i = j
<1>1. /\ IsSeq(bOut) /\ StoreOK /\ \A i, j \in DOMAIN bOut : i < j => bOut[i].msg < bOut[j].msg
  BY DEF DeliverInv, ArriveOrder
<1>2. /\ Len(bOut) \in Nat /\ DOMAIN bOut = 1..Len(bOut)
      /\ \A i \in 1..Len(bOut) : bOut[i] \in Range(bOut)
  BY <1>1, SeqPlaces
<1>3. SUFFICES ASSUME NEW i \in DOMAIN bOut, NEW j \in DOMAIN bOut, bOut[i].id = bOut[j].id
               PROVE  i = j
  OBVIOUS
<1>4. bOut[i].msg = bOut[j].msg /\ bOut[i].msg \in 1..Len(BrokerQoS)
  BY <1>1, <1>2, <1>3 DEF StoreOK
<1>5. PICK m : m = bOut[i].msg /\ m = bOut[j].msg /\ m \in Int
  BY <1>4
<1>6. /\ i < j => bOut[i].msg < bOut[j].msg
      /\ j < i => bOut[j].msg < bOut[i].msg
  BY <1>1, <1>3
<1>7. (i < j => m < m) /\ (j < i => m < m)
  BY <1>5, <1>6
<1>8. QED
  BY <1>2, <1>5, <1>7

\* An acknowledgement takes out of the broker's store the one entry it is about.
LEMMA AckTakesOut ==
  ASSUME DeliverInv, ArriveOrder, BrokerOnAck, NEW p, p = Head(p2b)
  PROVE  /\ Range(bOut') \subseteq Range(bOut)
         /\ \A e \in Range(bOut) :
              LET about == /\ e.id = p.id
                           /\ IF p.type = "PUBACK" THEN e.st = "pub" /\ BrokerQoS[e.msg] = 1
                                                   ELSE e.st = "rel"
              IN  about <=> e \notin Range(bOut')
<1> DEFINE Meant(e) == /\ e.id = p.id
                      /\ IF p.type = "PUBACK" THEN e.st = "pub" /\ BrokerQoS[e.msg] = 1
                                              ELSE e.st = "rel"
           done == {i \in DOMAIN bOut : Meant(bOut[i])}
<1>1. bOut' = IF done = {} THEN bOut ELSE RemoveAt(bOut, Min(done))
  <2>1. done = {i \in Flow(p.id) : IF p.type = "PUBACK"
                                   THEN bOut[i].st = "pub" /\ BrokerQoS[bOut[i].msg] = 1
                                   ELSE bOut[i].st = "rel"}
    BY DEF Flow
  <2> HIDE DEF done, Meant
  <2>2. QED
    BY <2>1 DEF BrokerOnAck
<1>2. /\ IsSeq(bOut) /\ StoreOK /\ \A i, j \in DOMAIN bOut : i < j => bOut[i].msg < bOut[j].msg
  BY DEF DeliverInv, ArriveOrder
<1>3. /\ Len(bOut) \in Nat /\ DOMAIN bOut = 1..Len(bOut) /\ bOut \in Seq(Range(bOut))
      /\ \A i \in 1..Len(bOut) : bOut[i] \in Range(bOut)
      /\ \A e \in Range(bOut) : \E i \in 1..Len(bOut) : e = bOut[i]
  BY <1>2, SeqPlaces DEF IsSeq
<1>4. \A i, j \in 1..Len(bOut) : bOut[i].id = bOut[j].id => i = j
  BY <1>3, StoreUnique
<1>5. done \subseteq 1..Len(bOut) /\ \A i \in 1..Len(bOut) : i \in done <=> Meant(bOut[i])
  BY <1>3
<1>6. \A i, j \in done : i = j
  BY <1>4, <1>5
<1> HIDE DEF done
<1>7. CASE done = {}
  <2>1. bOut' = bOut
    BY <1>1, <1>7
  <2>2. \A e \in Range(bOut) : ~ Meant(e)
    BY <1>3, <1>5, <1>7
  <2>3. QED
    BY <2>1, <2>2
<1>8. CASE done # {}
  <2>1. Min(done) \in done
    <3>1. done \in SUBSET Nat
      BY <1>3, <1>5
    <3>2. \E m \in done : \A k \in done : m <= k
      BY <1>8, <3>1, LeastElement
    <3>3. QED
      BY <3>2, Zenon DEF Min
  <2>2. PICK k \in 1..Len(bOut) : bOut' = RemoveAt(bOut, k) /\ k \in done
    BY <1>1, <1>5, <1>8, <2>1
  <2>3. /\ bOut' \in Seq(Range(bOut)) /\ Len(bOut') = Len(bOut) - 1
        /\ \A i \in 1..(Len(bOut) - 1) : bOut'[i] = IF i < k THEN bOut[i] ELSE bOut[i + 1]
    BY <1>3, <2>2, RemoveAtPlaces
  <2>4. PICK o, n : o = bOut' /\ n = Len(bOut)
    BY SMTT(30)
  <2>5. /\ o \in Seq(Range(bOut)) /\ Len(o) = n - 1 /\ n \in Nat /\ k \in 1..n /\ IsSeq(o)
        /\ \A i \in 1..(n - 1) : o[i] = IF i < k THEN bOut[i] ELSE bOut[i + 1]
    BY <1>3, <2>2, <2>3, <2>4, SeqOver
  <2>6. Range(o) \subseteq Range(bOut) /\ DOMAIN o = 1..(n - 1)
    BY <2>5, SeqOver
  <2>7. ASSUME NEW e \in Range(bOut) PROVE Meant(e) <=> e \notin Range(o)
    <3>1. PICK i \in 1..n : e = bOut[i]
      BY <1>3, <2>4
    <3>2. i # k => e \in Range(o)
      <4>1. SUFFICES ASSUME i # k PROVE \E j \in DOMAIN o : o[j] = e
        BY <2>5, <2>6, SeqPlaces, ZenonT(60)
      <4>2. CASE i < k
        BY <2>5, <2>6, <3>1, <4>2
      <4>3. CASE i > k
        <5>1. i - 1 \in 1..(n - 1) /\ ~ (i - 1 < k) /\ (i - 1) + 1 = i
          BY <2>5, <3>1, <4>3
        <5>2. o[i - 1] = bOut[(i - 1) + 1]
          BY <2>5, <5>1
        <5>3. QED
          BY <2>6, <3>1, <5>1, <5>2
      <4>4. QED
        BY <2>5, <3>1, <4>1, <4>2, <4>3
    <3>3. i = k => Meant(e) /\ e \notin Range(o)
      <4>1. SUFFICES ASSUME i = k, NEW j \in 1..(n - 1), o[j] = e PROVE FALSE
        BY <1>5, <2>2, <2>4, <2>6, <3>1 DEF Range
      <4>2. PICK a \in 1..n : a # k /\ o[j] = bOut[a]
        <5>1. j \in 1..n /\ j + 1 \in 1..n /\ (j < k => j # k) /\ (~ (j < k) => j + 1 # k)
          BY <2>5, <4>1
        <5>2. o[j] = IF j < k THEN bOut[j] ELSE bOut[j + 1]
          BY <2>5, <4>1
        <5>3. QED
          BY <5>1, <5>2
      <4>3. QED
        BY <1>4, <2>4, <3>1, <4>1, <4>2
    <3>4. i # k => ~ Meant(e)
      BY <1>5, <1>6, <2>2, <2>4, <3>1
    <3>5. QED
      BY <3>2, <3>3, <3>4
  <2>8. QED
    BY <2>4, <2>6, <2>7
<1>9. QED
  BY <1>7, <1>8

\* An acknowledgement ends the flow it is about and no other.
LEMMA BrokerOnAckAnswers ==
  ASSUME IInv, ArriveInv, UNCHANGED proxyVars, phase # "ended",
         FlowsContinue, ReleasedLast, WindowReleased, BrokerOnAck
  PROVE  FlowsContinue' /\ ReleasedLast' /\ WindowReleased'
<1>0. PICK p : p = Head(p2b)
  OBVIOUS
<1>1. /\ p2b # << >> /\ p.type \in {"PUBACK", "PUBCOMP"} /\ BrokerTakes(<< >>)
  BY <1>0 DEF BrokerOnAck, HeadIs
<1>2. /\ StreamsOK /\ IsSeq(p2b) /\ IsSeq(b2p) /\ DeliverInv /\ ArriveOrder /\ ArriveMessages
      /\ UNCHANGED <<phase, windows, buffer, snap, leftover>>
  BY DEF IInv, TypeOK, StreamsOK, proxyVars, ArriveInv
<1>3. /\ Range(bOut') \subseteq Range(bOut)
      /\ \A e \in Range(bOut) :
           e \notin Range(bOut') <=>
             /\ e.id = p.id
             /\ IF p.type = "PUBACK" THEN e.st = "pub" /\ BrokerQoS[e.msg] = 1 ELSE e.st = "rel"
  BY <1>0, <1>2, AckTakesOut
<1>4. /\ UNCHANGED <<c2p, p2c, link, b2p>> /\ Range(p2b) = {p} \cup Range(p2b')
  <2>1. p2b' = Tail(p2b) /\ UNCHANGED <<c2p, p2c, link>> /\ b2p' = b2p \o << >>
    BY <1>1 DEF BrokerTakes
  <2>2. b2p \o << >> = b2p
    BY <1>2 DEF IsSeq
  <2>3. QED
    BY <1>0, <1>1, <1>2, <2>1, <2>2, TailElements
<1>5. /\ UNCHANGED <<FromClient, ToClient, ClientBound, FromBrokerSocket, Line>>
      /\ BrokerBound = {p} \cup BrokerBound'
  BY <1>2, <1>4 DEF FromClient, ToClient, ClientBound, BrokerBound, FromBrokerSocket, Line
<1>6. FlowsContinue'
  <2>1. SUFFICES ASSUME link = "up", NEW e \in Range(bOut')
                 PROVE  IF e.st = "pub"
                        THEN \/ Asks(ToClient, e.id)
                             \/ Has(FromClient \cup Range(p2b'), {AnswerType(e.msg)}, e.id)
                        ELSE \/ Has(ToClient, {"PUBREL"}, e.id)
                             \/ Has(FromClient \cup Range(p2b'), {"PUBCOMP"}, e.id)
    BY <1>2, <1>4, <1>5 DEF FlowsContinue
  <2>2. e \in Range(bOut) /\ e.st \in {"pub", "rel"}
    BY <1>3, <2>1 DEF ReleasedLast
  <2>3. ~ ( /\ e.id = p.id
            /\ IF p.type = "PUBACK" THEN e.st = "pub" /\ BrokerQoS[e.msg] = 1 ELSE e.st = "rel")
    BY <1>3, <2>1, <2>2
  <2>4. CASE e.st = "pub"
    <3>1. Asks(ToClient, e.id) \/ Has(FromClient \cup Range(p2b), {AnswerType(e.msg)}, e.id)
      BY <1>2, <2>1, <2>2, <2>4 DEF FlowsContinue
    <3>2. ~ (p.type = AnswerType(e.msg) /\ p.id = e.id)
      BY <1>1, <2>3, <2>4 DEF AnswerType
    <3>3. QED
      BY <1>4, <2>4, <3>1, <3>2 DEF Has
  <2>5. CASE e.st = "rel"
    <3>1. Has(ToClient, {"PUBREL"}, e.id) \/ Has(FromClient \cup Range(p2b), {"PUBCOMP"}, e.id)
      BY <1>2, <2>1, <2>2, <2>5 DEF FlowsContinue
    <3>2. ~ (p.type = "PUBCOMP" /\ p.id = e.id)
      BY <2>3, <2>5
    <3>3. QED
      BY <1>4, <2>5, <3>1, <3>2 DEF Has
  <2>6. QED
    BY <2>2, <2>4, <2>5
<1>7. ReleasedLast'
  <2>1. ASSUME NEW e \in Range(bOut')
        PROVE  /\ e.st \in {"pub", "rel"}
               /\ e.st = "pub" /\ BrokerQoS[e.msg] = 2 =>
                    ~ Has(ClientBound, {"PUBREL"}, e.id) /\ ~ Has(BrokerBound', {"PUBCOMP"}, e.id)
    <3>1. /\ e.st \in {"pub", "rel"}
          /\ e.st = "pub" /\ BrokerQoS[e.msg] = 2 =>
               ~ Has(ClientBound, {"PUBREL"}, e.id) /\ ~ Has(BrokerBound, {"PUBCOMP"}, e.id)
      BY <1>3, <2>1 DEF ReleasedLast
    <3>2. QED
      BY <1>5, <3>1 DEF Has
  <2>2. ASSUME NEW q \in FromBrokerSocket, Exact(q)
        PROVE  /\ ~ Has(Range(p2c) \cup Range(leftover), {"PUBREL"}, q.id)
               /\ ~ Has(BrokerBound', {"PUBCOMP"}, q.id)
    <3>1. /\ ~ Has(Range(p2c) \cup Range(leftover), {"PUBREL"}, q.id)
          /\ ~ Has(BrokerBound, {"PUBCOMP"}, q.id)
      BY <2>2 DEF ReleasedLast
    <3>2. QED
      BY <1>5, <3>1 DEF Has
  <2>3. RelBehind(Line')
    BY <1>5 DEF ReleasedLast, RelBehind, Line
  <2>4. QED
    BY <1>2, <1>4, <1>5, <2>1, <2>2, <2>3 DEF ReleasedLast, RelBehind, Line
<1>8. WindowReleased'
  <2>1. ASSUME NEW q \in FromBrokerSocket \cup Raws(windows.b2c), Exact(q)
        PROVE  \E e \in Range(bOut') : e.id = q.id
    <3>1. PICK e \in Range(bOut) : e.id = q.id
      BY <2>1 DEF WindowReleased
    <3>2. SUFFICES ASSUME e \notin Range(bOut') PROVE FALSE
      BY <3>1
    <3>3. e.id = p.id /\ (p.type = "PUBACK" => BrokerQoS[e.msg] = 1)
      BY <1>3, <3>1, <3>2
    <3>4. q \in ClientBound /\ q.type = "PUBLISH" /\ q.qos = 2
      BY <2>1 DEF ClientBound, ToClient, FromBrokerSocket, Exact
    <3>5. e.msg = q.body /\ q.qos = BrokerQoS[q.body]
      BY <1>2, <3>1, <3>4 DEF DeliverInv, BrokerFlow, ArriveMessages
    <3>6. p.type = "PUBCOMP" /\ p.id = q.id
      BY <1>1, <3>1, <3>3, <3>4, <3>5
    <3>7. p \in Range(p2b) /\ p \in BrokerBound
      BY <1>4, <1>5
    <3>8. CASE q \in FromBrokerSocket
      BY <2>1, <3>6, <3>7, <3>8 DEF ReleasedLast, Has
    <3>9. CASE q \in Raws(windows.b2c)
      BY <2>1, <3>6, <3>7, <3>9 DEF WindowReleased, Has
    <3>10. QED
      BY <2>1, <3>8, <3>9
  <2>2. ASSUME NEW q \in Raws(windows.b2c)
        PROVE  /\ Exact(q) => ~ Has(Range(p2b'), {"PUBCOMP"}, q.id)
               /\ q.qos = 1 => Asks(Range(p2c), q.id) \/ Has(FromClient, {"PUBACK"}, q.id)
    <3>1. Exact(q) => ~ Has(Range(p2b), {"PUBCOMP"}, q.id)
      BY <2>2 DEF WindowReleased
    <3>2. q.qos = 1 => Asks(Range(p2c), q.id) \/ Has(FromClient, {"PUBACK"}, q.id)
      BY <2>2 DEF WindowReleased
    <3>3. QED
      BY <1>4, <3>1, <3>2 DEF Has
  <2>3. \A q \in Range(buffer) : q.type \notin {"PUBACK", "PUBREC", "PUBCOMP"}
    BY DEF WindowReleased
  <2>4. QED
    BY <1>2, <1>4, <1>5, <2>1, <2>2, <2>3 DEF WindowReleased
<1>9. QED
  BY <1>6, <1>7, <1>8

\* PUBREC moves its flow on to PUBREL, which the broker sends.
LEMMA BrokerOnPubrecAnswers ==
  ASSUME IInv, ArriveInv, UNCHANGED proxyVars, phase # "ended",
         FlowsContinue, ReleasedLast, WindowReleased, BrokerOnPubrec
  PROVE  FlowsContinue' /\ ReleasedLast' /\ WindowReleased'
<1>0. PICK p, r : p = Head(p2b) /\ r = Pkt("PUBREL", p.id)
  OBVIOUS
<1>1. /\ p2b # << >> /\ p.type = "PUBREC" /\ BrokerTakes(<<r>>) /\ r.type = "PUBREL" /\ r.id = p.id
  BY <1>0, OwnPackets DEF BrokerOnPubrec, HeadIs
<1>2. /\ StreamsOK /\ IsSeq(p2b) /\ IsSeq(b2p) /\ IsSeq(bOut) /\ DeliverInv /\ ArriveMessages
      /\ UNCHANGED <<phase, windows, buffer, snap, leftover>> /\ BrokerQoS \in Seq(0..2)
  BY EndpointsAssumption DEF IInv, TypeOK, StreamsOK, DeliverInv, proxyVars, ArriveInv
<1> DEFINE About2(e) == e.id = p.id /\ BrokerQoS[e.msg] = 2
<1>3. /\ \A f \in Range(bOut') :
           \/ f \in Range(bOut) /\ ~ About2(f)
           \/ f.id = p.id /\ f.st = "rel"
      /\ \A e \in Range(bOut) : \E f \in Range(bOut') : f.id = e.id
  <2>1. /\ DOMAIN bOut' = DOMAIN bOut
        /\ \A i \in DOMAIN bOut :
             bOut'[i] = IF About2(bOut[i])
                        THEN [id |-> bOut[i].id, msg |-> bOut[i].msg, st |-> "rel"] ELSE bOut[i]
    BY <1>0 DEF BrokerOnPubrec, Flow
  <2>2. \A i \in DOMAIN bOut : /\ bOut'[i].id = bOut[i].id
                               /\ IF About2(bOut[i]) THEN bOut'[i].st = "rel" ELSE bOut'[i] = bOut[i]
    BY <2>1
  <2>3. QED
    BY <2>1, <2>2 DEF Range
<1>4. /\ UNCHANGED <<c2p, p2c, link>> /\ Range(p2b) = {p} \cup Range(p2b')
      /\ Range(b2p') = Range(b2p) \cup {r} /\ b2p' = b2p \o <<r>>
  <2>1. p2b' = Tail(p2b) /\ UNCHANGED <<c2p, p2c, link>> /\ b2p' = b2p \o <<r>>
    BY <1>1 DEF BrokerTakes
  <2>2. IsSeq(<<r>>) /\ Range(<<r>>) = {r}
    BY ShortSeqs
  <2>3. QED
    BY <1>0, <1>1, <1>2, <2>1, <2>2, TailElements, ConcatElements
<1>5. /\ FromClient' = FromClient /\ ToClient' = ToClient \cup {r}
      /\ ClientBound' = ClientBound \cup {r} /\ FromBrokerSocket' = FromBrokerSocket \cup {r}
      /\ BrokerBound = {p} \cup BrokerBound'
  BY <1>2, <1>4 DEF FromClient, ToClient, ClientBound, BrokerBound, FromBrokerSocket
<1> HIDE DEF About2
<1>6. FlowsContinue'
  <2>1. SUFFICES ASSUME link = "up", NEW e \in Range(bOut')
                 PROVE  IF e.st = "pub"
                        THEN \/ Asks(ToClient', e.id)
                             \/ Has(FromClient \cup Range(p2b'), {AnswerType(e.msg)}, e.id)
                        ELSE \/ Has(ToClient', {"PUBREL"}, e.id)
                             \/ Has(FromClient \cup Range(p2b'), {"PUBCOMP"}, e.id)
    BY <1>2, <1>4, <1>5 DEF FlowsContinue
  <2>2. CASE e.id = p.id /\ e.st = "rel"
    <3>1. Has(ToClient', {"PUBREL"}, e.id)
      BY <1>1, <1>5, <2>2 DEF Has
    <3>2. QED
      BY <2>2, <3>1
  <2>3. CASE e \in Range(bOut) /\ ~ About2(e) /\ e.st = "pub"
    <3>1. Asks(ToClient, e.id) \/ Has(FromClient \cup Range(p2b), {AnswerType(e.msg)}, e.id)
      BY <1>2, <2>1, <2>3 DEF FlowsContinue
    <3>2. BrokerQoS[e.msg] \in 1..2
      <4>1. e.msg \in 1..Len(BrokerQoS) /\ BrokerQoS[e.msg] > 0
        BY <1>2, <2>3 DEF DeliverInv, StoreOK, ArriveMessages
      <4>2. QED
        BY <1>2, <4>1
    <3>3. ~ (p.type = AnswerType(e.msg) /\ p.id = e.id)
      BY <1>1, <2>3, <3>2 DEF AnswerType, About2
    <3>4. Asks(ToClient, e.id) => Asks(ToClient', e.id)
      BY <1>5 DEF Asks
    <3>5. QED
      BY <1>4, <2>3, <3>1, <3>3, <3>4 DEF Has
  <2>4. CASE e \in Range(bOut) /\ e.st # "pub"
    <3>1. Has(ToClient, {"PUBREL"}, e.id) \/ Has(FromClient \cup Range(p2b), {"PUBCOMP"}, e.id)
      BY <1>2, <2>1, <2>4 DEF FlowsContinue
    <3>2. QED
      BY <1>1, <1>4, <1>5, <2>4, <3>1 DEF Has
  <2>5. QED
    BY <1>3, <2>1, <2>2, <2>3, <2>4
<1>7. ReleasedLast'
  <2>1. ASSUME NEW e \in Range(bOut')
        PROVE  /\ e.st \in {"pub", "rel"}
               /\ e.st = "pub" /\ BrokerQoS[e.msg] = 2 =>
                    ~ Has(ClientBound', {"PUBREL"}, e.id) /\ ~ Has(BrokerBound', {"PUBCOMP"}, e.id)
    <3>1. CASE e.st = "rel"
      BY <3>1
    <3>2. CASE e \in Range(bOut) /\ ~ About2(e)
      <4>1. /\ e.st \in {"pub", "rel"}
            /\ e.st = "pub" /\ BrokerQoS[e.msg] = 2 =>
                 ~ Has(ClientBound, {"PUBREL"}, e.id) /\ ~ Has(BrokerBound, {"PUBCOMP"}, e.id)
        BY <3>2 DEF ReleasedLast
      <4>2. QED
        BY <1>1, <1>5, <3>2, <4>1 DEF Has, About2
    <3>3. QED
      BY <1>3, <2>1, <3>1, <3>2
  <2>2. ASSUME NEW q \in FromBrokerSocket', Exact(q)
        PROVE  /\ ~ Has(Range(p2c) \cup Range(leftover), {"PUBREL"}, q.id)
               /\ ~ Has(BrokerBound', {"PUBCOMP"}, q.id)
    <3>1. q \in FromBrokerSocket
      BY <1>1, <1>5, <2>2 DEF Exact
    <3>2. /\ ~ Has(Range(p2c) \cup Range(leftover), {"PUBREL"}, q.id)
          /\ ~ Has(BrokerBound, {"PUBCOMP"}, q.id)
      BY <2>2, <3>1 DEF ReleasedLast
    <3>3. QED
      BY <1>5, <3>2 DEF Has
  <2>3. RelBehind(Line')
    <3>1. PICK s : s = <<r>> /\ IsSeq(s) /\ Range(s) = {r} /\ DOMAIN s = 1..1
      <4>1. DOMAIN <<r>> = 1..1
        OBVIOUS
      <4>2. QED
        BY <4>1, ShortSeqs
    <3>2. RelBehind(Line) /\ RelBehind(s)
      BY <3>1 DEF ReleasedLast, RelBehind, Line
    <3>3. \A q \in Range(s) : ~ Exact(q)
      BY <1>1, <3>1 DEF Exact
    <3>4. b2p' = b2p \o s
      BY <1>4, <3>1
    <3>5. QED
      BY <1>2, <3>1, <3>2, <3>3, <3>4, LineMore
  <2>4. QED
    BY <1>2, <1>4, <2>1, <2>2, <2>3 DEF ReleasedLast, RelBehind, Line
<1>8. WindowReleased'
  <2>1. ASSUME NEW q \in FromBrokerSocket' \cup Raws(windows.b2c), Exact(q)
        PROVE  \E e \in Range(bOut') : e.id = q.id
    <3>1. q \in FromBrokerSocket \cup Raws(windows.b2c)
      BY <1>1, <1>5, <2>1 DEF Exact
    <3>2. PICK e \in Range(bOut) : e.id = q.id
      BY <2>1, <3>1 DEF WindowReleased
    <3>3. QED
      BY <1>3, <3>2
  <2>2. ASSUME NEW q \in Raws(windows.b2c)
        PROVE  /\ Exact(q) => ~ Has(Range(p2b'), {"PUBCOMP"}, q.id)
               /\ q.qos = 1 => Asks(Range(p2c), q.id) \/ Has(FromClient, {"PUBACK"}, q.id)
    <3>1. Exact(q) => ~ Has(Range(p2b), {"PUBCOMP"}, q.id)
      BY <2>2 DEF WindowReleased
    <3>2. q.qos = 1 => Asks(Range(p2c), q.id) \/ Has(FromClient, {"PUBACK"}, q.id)
      BY <2>2 DEF WindowReleased
    <3>3. QED
      BY <1>4, <3>1, <3>2 DEF Has
  <2>3. \A q \in Range(buffer) : q.type \notin {"PUBACK", "PUBREC", "PUBCOMP"}
    BY DEF WindowReleased
  <2>4. QED
    BY <1>2, <1>4, <1>5, <2>1, <2>2, <2>3 DEF WindowReleased
<1>9. QED
  BY <1>6, <1>7, <1>8

\* The broker publishes a message under an id that no PUBREL and no answer on the way has.
LEMMA BrokerPublishAnswers ==
  ASSUME IInv, ~ Reuse, UNCHANGED proxyVars, phase # "ended",
         FlowsContinue, ReleasedLast, WindowReleased, BrokerPublish
  PROVE  FlowsContinue' /\ ReleasedLast' /\ WindowReleased'
<1>0. PICK m, q : m = bSent + 1 /\ q = BrokerQoS[m]
  OBVIOUS
<1>1. PICK id \in (IF q = 0 THEN {NoId} ELSE NextIds({bOut[i].id : i \in DOMAIN bOut}, bIds)) :
        /\ b2p' = Append(b2p, PublishPkt(id, q, m))
        /\ bOut' = IF q = 0 THEN bOut ELSE Append(bOut, [id |-> id, msg |-> m, st |-> "pub"])
  BY <1>0 DEF BrokerPublish
<1>2. /\ bSent < Len(BrokerQoS) /\ UNCHANGED <<c2p, p2c, p2b, link>>
  BY DEF BrokerPublish
<1>3. PICK p, e : p = PublishPkt(id, q, m) /\ e = [id |-> id, msg |-> m, st |-> "pub"]
  OBVIOUS
<1>4. /\ p.type = "PUBLISH" /\ p.id = id /\ p.qos = q /\ e.id = id /\ e.msg = m /\ e.st = "pub"
  BY <1>3 DEF PublishPkt, Packet
<1>5. /\ DeliverInv /\ StreamsOK /\ IsSeq(b2p) /\ IsSeq(bOut) /\ bIds \in Nat
      /\ bSent \in 0..Len(BrokerQoS) /\ Len(BrokerQoS) \in Nat /\ BrokerQoS \in Seq(0..2)
      /\ UNCHANGED <<phase, windows, buffer, snap, leftover>>
  BY EndpointsAssumption DEF IInv, TypeOK, StreamsOK, DeliverInv, proxyVars
<1>6. q \in 0..2
  <2>1. m \in 1..Len(BrokerQoS)
    BY <1>0, <1>2, <1>5
  <2>2. QED
    BY <1>0, <1>5, <2>1
<1>7. q # 0 => id = bIds + 1
  BY <1>1, FreshId
<1>8. Range(b2p') = Range(b2p) \cup {p} /\ b2p' = Append(b2p, p)
  BY <1>1, <1>3, <1>5, AppendElements
<1>9. /\ \A f \in Range(bOut') : f \in Range(bOut) \/ (q # 0 /\ f = e)
      /\ Range(bOut) \subseteq Range(bOut') /\ (q # 0 => e \in Range(bOut'))
  <2>1. Range(Append(bOut, e)) = Range(bOut) \cup {e}
    BY <1>5, AppendElements
  <2>2. bOut' = IF q = 0 THEN bOut ELSE Append(bOut, e)
    BY <1>1, <1>3
  <2>3. QED
    BY <2>1, <2>2
<1>10. /\ UNCHANGED <<FromClient, BrokerBound>> /\ ToClient' = ToClient \cup {p}
       /\ ClientBound' = ClientBound \cup {p} /\ FromBrokerSocket' = FromBrokerSocket \cup {p}
  BY <1>2, <1>5, <1>8 DEF FromClient, ToClient, ClientBound, BrokerBound, FromBrokerSocket
<1>11. q # 0 => ~ Has(ClientBound, {"PUBREL"}, id) /\ ~ Has(BrokerBound, {"PUBCOMP"}, id)
  <2>1. /\ \A x \in ClientBound : x.type = "PUBREL" => x.id \in 1..bIds
        /\ \A x \in BrokerBound : x.type = "PUBCOMP" => x.id \in 1..bIds
    BY <1>5 DEF DeliverInv, BrokerFlow, BrokerAnswer
  <2>2. q # 0 => id \notin 1..bIds
    BY <1>5, <1>7
  <2>3. QED
    BY <2>1, <2>2 DEF Has
<1>12. FlowsContinue'
  <2>1. SUFFICES ASSUME link = "up", NEW f \in Range(bOut')
                 PROVE  IF f.st = "pub"
                        THEN \/ Asks(ToClient', f.id)
                             \/ Has(FromClient \cup Range(p2b), {AnswerType(f.msg)}, f.id)
                        ELSE \/ Has(ToClient', {"PUBREL"}, f.id)
                             \/ Has(FromClient \cup Range(p2b), {"PUBCOMP"}, f.id)
    BY <1>2, <1>5, <1>10 DEF FlowsContinue
  <2>2. CASE q # 0 /\ f = e
    <3>1. Asks(ToClient', f.id)
      BY <1>4, <1>6, <1>10, <2>2 DEF Asks
    <3>2. QED
      BY <1>4, <2>2, <3>1
  <2>3. CASE f \in Range(bOut)
    <3>1. Asks(ToClient, f.id) => Asks(ToClient', f.id)
      BY <1>10 DEF Asks
    <3>2. Has(ToClient, {"PUBREL"}, f.id) => Has(ToClient', {"PUBREL"}, f.id)
      BY <1>10 DEF Has
    <3>3. QED
      BY <1>5, <2>1, <2>3, <3>1, <3>2 DEF FlowsContinue
  <2>4. QED
    BY <1>9, <2>1, <2>2, <2>3
<1>13. ReleasedLast'
  <2>1. ASSUME NEW f \in Range(bOut')
        PROVE  /\ f.st \in {"pub", "rel"}
               /\ f.st = "pub" /\ BrokerQoS[f.msg] = 2 =>
                    ~ Has(ClientBound', {"PUBREL"}, f.id) /\ ~ Has(BrokerBound, {"PUBCOMP"}, f.id)
    <3>1. \A i : Has(ClientBound', {"PUBREL"}, i) <=> Has(ClientBound, {"PUBREL"}, i)
      BY <1>4, <1>10 DEF Has
    <3>2. CASE f \in Range(bOut)
      BY <3>1, <3>2 DEF ReleasedLast
    <3>3. CASE q # 0 /\ f = e
      BY <1>4, <1>11, <3>1, <3>3
    <3>4. QED
      BY <1>9, <2>1, <3>2, <3>3
  <2>2. ASSUME NEW x \in FromBrokerSocket', Exact(x)
        PROVE  /\ ~ Has(Range(p2c) \cup Range(leftover), {"PUBREL"}, x.id)
               /\ ~ Has(BrokerBound, {"PUBCOMP"}, x.id)
    <3>1. CASE x \in FromBrokerSocket
      BY <2>2, <3>1 DEF ReleasedLast
    <3>2. CASE x = p
      <4>1. q # 0 /\ x.id = id
        BY <1>4, <2>2, <3>2 DEF Exact
      <4>2. QED
        BY <1>11, <4>1 DEF Has, ClientBound, ToClient
    <3>3. QED
      BY <1>10, <2>2, <3>1, <3>2
  <2>3. RelBehind(Line')
    <3>1. PICK s : s = <<p>> /\ IsSeq(s) /\ Range(s) = {p} /\ DOMAIN s = 1..1
      <4>1. DOMAIN <<p>> = 1..1
        OBVIOUS
      <4>2. QED
        BY <4>1, ShortSeqs
    <3>2. RelBehind(Line) /\ RelBehind(s)
      BY <3>1 DEF ReleasedLast, RelBehind, Line
    <3>3. \A x \in Range(s), y \in FromBrokerSocket : Exact(x) /\ y.type = "PUBREL" => y.id # x.id
      <4>1. Exact(p) => q # 0
        BY <1>4 DEF Exact
      <4>2. FromBrokerSocket \subseteq ClientBound
        BY DEF FromBrokerSocket, ClientBound, ToClient
      <4>3. QED
        BY <1>4, <1>11, <3>1, <4>1, <4>2 DEF Has
    <3>4. b2p' = b2p \o s
      BY <1>5, <1>8, <3>1, AppendIsConcat DEF IsSeq
    <3>5. QED
      BY <1>5, <3>1, <3>2, <3>3, <3>4, LineMore
  <2>4. QED
    BY <1>2, <1>5, <1>10, <2>1, <2>2, <2>3 DEF ReleasedLast, RelBehind, Line
<1>14. WindowReleased'
  <2>1. ASSUME NEW x \in FromBrokerSocket' \cup Raws(windows.b2c), Exact(x)
        PROVE  \E f \in Range(bOut') : f.id = x.id
    <3>1. CASE x = p
      <4>1. q # 0
        BY <1>4, <2>1, <3>1 DEF Exact
      <4>2. QED
        BY <1>4, <1>9, <3>1, <4>1
    <3>2. CASE x \in FromBrokerSocket \cup Raws(windows.b2c)
      <4>1. PICK f \in Range(bOut) : f.id = x.id
        BY <2>1, <3>2 DEF WindowReleased
      <4>2. QED
        BY <1>9, <4>1
    <3>3. QED
      BY <1>10, <2>1, <3>1, <3>2
  <2>2. ASSUME NEW x \in Raws(windows.b2c)
        PROVE  /\ Exact(x) => ~ Has(Range(p2b), {"PUBCOMP"}, x.id)
               /\ x.qos = 1 => Asks(Range(p2c), x.id) \/ Has(FromClient, {"PUBACK"}, x.id)
    BY <2>2 DEF WindowReleased
  <2>3. \A x \in Range(buffer) : x.type \notin {"PUBACK", "PUBREC", "PUBCOMP"}
    BY DEF WindowReleased
  <2>4. QED
    BY <1>2, <1>5, <1>10, <2>1, <2>2, <2>3 DEF WindowReleased
<1>15. QED
  BY <1>12, <1>13, <1>14

\* The places of a sequence behind a first packet.
LEMMA AfterFirst ==
  ASSUME NEW c, NEW r, IsSeq(r)
  PROVE  LET s == <<c>> \o r
         IN  /\ DOMAIN s = 1..(Len(r) + 1) /\ s[1] = c
             /\ \A i \in 1..Len(r) : s[i + 1] = r[i]
<1>1. PICK h : h = <<c>>
  OBVIOUS
<1>2. IsSeq(h) /\ IsSeq(r)
  BY <1>1, ShortSeqs
<1>3. Len(h) = 1 /\ h[1] = c
  BY <1>1
<1>4. /\ Len(r) \in Nat /\ DOMAIN (h \o r) = 1..(Len(h) + Len(r))
      /\ \A i \in 1..Len(h) : (h \o r)[i] = h[i]
      /\ \A i \in 1..Len(r) : (h \o r)[Len(h) + i] = r[i]
  BY <1>2, ConcatPlaces
<1>5. DOMAIN (h \o r) = 1..(Len(r) + 1) /\ (h \o r)[1] = c
  BY <1>3, <1>4
<1>6. ASSUME NEW i \in 1..Len(r) PROVE (h \o r)[i + 1] = r[i]
  BY <1>3, <1>4
<1>7. QED
  BY <1>1, <1>5, <1>6

\* The broker resumes the session: each flow of its store continues with what it sends again.
LEMMA BrokerOnConnectAnswers ==
  ASSUME IInv, StageInv, OnceInv, ArriveInv, UNCHANGED proxyVars, phase # "ended",
         FlowsContinue, ReleasedLast, WindowReleased, BrokerOnConnect
  PROVE  FlowsContinue' /\ ReleasedLast' /\ WindowReleased'
<1>0. PICK c, r : c = Pkt("CONNACK", NoId) /\ r = Redelivery(bOut)
  OBVIOUS
<1>1. /\ link = "syn" /\ link' = "up" /\ p2b # << >> /\ p2b' = Tail(p2b) /\ UNCHANGED <<c2p, p2c, bOut>>
      /\ b2p' = <<c>> \o r
  <2>1. link = "syn" /\ p2b # << >> /\ Head(p2b).body = "resume"
    BY DEF BrokerOnConnect, OnceInv
  <2>2. Head(p2b).body # "clean"
    BY <2>1
  <2>3. QED
    BY <1>0, <2>1, <2>2 DEF BrokerOnConnect, Keep
<1>2. /\ DeliverInv /\ StreamsOK /\ StoreOK /\ IsSeq(p2b) /\ IsSeq(b2p) /\ IsSeq(snap.broker_buf)
      /\ IsSeq(bOut) /\ ArriveOrder /\ ArriveMessages
      /\ UNCHANGED <<phase, windows, buffer, snap, leftover>>
  BY DEF IInv, TypeOK, StreamsOK, DeliverInv, proxyVars, ArriveInv
<1>3. FromBrokerSocket = {} /\ snap.broker_buf = << >> /\ Range(b2p) = {} /\ Range(snap.broker_buf) = {}
  <2>1. Range(b2p) = {} /\ Range(snap.broker_buf) = {}
    BY <1>1 DEF StageInv, FromBrokerSocket
  <2>2. QED
    BY <1>2, <2>1, NothingInside DEF FromBrokerSocket
<1>4. PICK n : n = Len(bOut)
  OBVIOUS
<1>5. /\ n \in Nat /\ DOMAIN bOut = 1..n /\ \A i \in 1..n : bOut[i] \in Range(bOut)
      /\ \A e \in Range(bOut) : \E i \in 1..n : e = bOut[i]
  BY <1>2, <1>4, SeqPlaces
<1>6. /\ IsSeq(r) /\ Len(r) = n
      /\ \A i \in 1..n :
           /\ bOut[i].st = "pub" => /\ r[i].type = "PUBLISH" /\ r[i].id = bOut[i].id
                                    /\ r[i].qos = BrokerQoS[bOut[i].msg]
           /\ bOut[i].st # "pub" => r[i].type = "PUBREL" /\ r[i].id = bOut[i].id
  <2>1. IsSeq(r)
    BY <1>0, <1>2, RedeliveryIs
  <2>2. QED
    BY <1>0, <1>2, <1>4, <2>1, RedeliveryPackets
<1>7. /\ DOMAIN r = 1..n /\ \A i \in 1..n : r[i] \in Range(r)
      /\ \A p \in Range(r) : \E i \in 1..n : p = r[i]
  BY <1>6, SeqPlaces
<1>8. /\ IsSeq(<<c>>) /\ Range(<<c>>) = {c} /\ c.type = "CONNACK"
  BY <1>0, ShortSeqs, OwnPackets
<1>9. /\ IsSeq(b2p') /\ Range(b2p') = {c} \cup Range(r)
  BY <1>1, <1>6, <1>8, ConcatElements
<1>10. /\ ToClient' = ToClient \cup {c} \cup Range(r) /\ ClientBound' = ClientBound \cup {c} \cup Range(r)
       /\ FromBrokerSocket' = {c} \cup Range(r) /\ UNCHANGED FromClient
  BY <1>1, <1>2, <1>3, <1>9 DEF ToClient, ClientBound, FromBrokerSocket, FromClient
<1>11. Range(p2b') \subseteq Range(p2b) /\ BrokerBound' \subseteq BrokerBound
  <2>1. Range(p2b') \subseteq Range(p2b)
    BY <1>1, <1>2, TailElements
  <2>2. QED
    BY <1>2, <1>10, <2>1 DEF BrokerBound
<1>12. \A i, j \in 1..n : bOut[i].id = bOut[j].id => i = j
  BY <1>2, <1>5, StoreUnique
<1>13. \A i \in 1..n : Exact(r[i]) => bOut[i].st = "pub" /\ BrokerQoS[bOut[i].msg] = 2 /\ r[i].id = bOut[i].id
  <2>1. "PUBREL" # "PUBLISH"
    OBVIOUS
  <2>2. QED
    BY <1>6, <2>1 DEF Exact
<1>14. \A i \in 1..n : r[i].type = "PUBREL" => bOut[i].st # "pub" /\ r[i].id = bOut[i].id
  BY <1>6
<1>15. FlowsContinue'
  <2>1. SUFFICES ASSUME NEW e \in Range(bOut)
                 PROVE  IF e.st = "pub" THEN Asks(ToClient', e.id) ELSE Has(ToClient', {"PUBREL"}, e.id)
    BY <1>1 DEF FlowsContinue
  <2>2. PICK i \in 1..n : e = bOut[i]
    BY <1>5
  <2>3. r[i] \in ToClient'
    BY <1>7, <1>10
  <2>4. BrokerQoS[e.msg] > 0
    BY <1>2 DEF ArriveMessages
  <2>5. QED
    BY <1>6, <2>2, <2>3, <2>4 DEF Asks, Has
<1>16. ReleasedLast'
  <2>1. ASSUME NEW e \in Range(bOut)
        PROVE  /\ e.st \in {"pub", "rel"}
               /\ e.st = "pub" /\ BrokerQoS[e.msg] = 2 =>
                    ~ Has(ClientBound', {"PUBREL"}, e.id) /\ ~ Has(BrokerBound', {"PUBCOMP"}, e.id)
    <3>1. /\ e.st \in {"pub", "rel"}
          /\ e.st = "pub" /\ BrokerQoS[e.msg] = 2 =>
               ~ Has(ClientBound, {"PUBREL"}, e.id) /\ ~ Has(BrokerBound, {"PUBCOMP"}, e.id)
      BY DEF ReleasedLast
    <3>2. e.st = "pub" => ~ Has(Range(r), {"PUBREL"}, e.id)
      <4>1. SUFFICES ASSUME e.st = "pub", NEW q \in Range(r), q.type = "PUBREL", q.id = e.id PROVE FALSE
        BY DEF Has
      <4>2. PICK i \in 1..n : e = bOut[i]
        BY <1>5
      <4>3. PICK j \in 1..n : q = r[j]
        BY <1>7, <4>1
      <4>4. bOut[j].st # "pub" /\ bOut[j].id = bOut[i].id
        BY <1>14, <4>1, <4>2, <4>3
      <4>5. QED
        BY <1>12, <4>1, <4>2, <4>4
    <3>3. QED
      BY <1>8, <1>10, <1>11, <3>1, <3>2 DEF Has
  <2>2. ASSUME NEW q \in FromBrokerSocket', Exact(q)
        PROVE  /\ ~ Has(Range(p2c) \cup Range(leftover), {"PUBREL"}, q.id)
               /\ ~ Has(BrokerBound', {"PUBCOMP"}, q.id)
    <3>1. q \in Range(r)
      BY <1>8, <1>10, <2>2 DEF Exact
    <3>2. PICK i \in 1..n : q = r[i]
      BY <1>7, <3>1
    <3>3. PICK e \in Range(bOut) : e.st = "pub" /\ BrokerQoS[e.msg] = 2 /\ q.id = e.id
      BY <1>5, <1>13, <2>2, <3>2
    <3>4. ~ Has(ClientBound, {"PUBREL"}, q.id) /\ ~ Has(BrokerBound, {"PUBCOMP"}, q.id)
      BY <3>3 DEF ReleasedLast
    <3>5. QED
      BY <1>11, <3>4 DEF Has, ClientBound, ToClient
  <2>3. RelBehind(Line')
    <3>1. PICK s : s = <<c>> \o r
      OBVIOUS
    <3>2. DOMAIN s = 1..(n + 1) /\ s[1] = c /\ \A i \in 2..(n + 1) : s[i] = r[i - 1] /\ i - 1 \in 1..n
      <4>1. IsSeq(r) /\ n = Len(r)
        BY <1>6
      <4>2. DOMAIN s = 1..(n + 1) /\ s[1] = c /\ \A i \in 1..n : s[i + 1] = r[i]
        BY <3>1, <4>1, AfterFirst
      <4>3. \A i \in 2..(n + 1) : i - 1 \in 1..n /\ (i - 1) + 1 = i
        BY <1>5
      <4>4. QED
        BY <4>2, <4>3
    <3>3. ASSUME NEW i \in DOMAIN s, NEW j \in DOMAIN s, i < j, s[i].type = "PUBREL", Exact(s[j])
          PROVE  s[i].id # s[j].id
      <4>1. i # 1
        BY <1>8, <3>2, <3>3
      <4>2. i \in 2..(n + 1) /\ j \in 2..(n + 1) /\ i - 1 # j - 1
        BY <1>5, <3>2, <3>3, <4>1
      <4>3. PICK a, b \in 1..n : a # b /\ s[i] = r[a] /\ s[j] = r[b]
        BY <3>2, <4>2
      <4>4. r[a].id = bOut[a].id /\ r[b].id = bOut[b].id
        BY <1>13, <1>14, <3>3, <4>3
      <4>5. QED
        BY <1>12, <4>3, <4>4
    <3>4. RelBehind(s)
      BY <3>3 DEF RelBehind
    <3>5. Line' = s
      <4>1. snap'.broker_buf = << >> /\ b2p' = s
        BY <1>1, <1>2, <1>3, <3>1
      <4>2. QED
        BY <1>9, <4>1, LineUnbuffered
    <3>6. QED
      BY <3>4, <3>5
  <2>4. QED
    BY <1>1, <1>2, <2>1, <2>2, <2>3 DEF ReleasedLast, RelBehind, Line
<1>17. WindowReleased'
  <2>1. ASSUME NEW q \in FromBrokerSocket' \cup Raws(windows.b2c), Exact(q)
        PROVE  \E e \in Range(bOut) : e.id = q.id
    <3>1. CASE q \in Raws(windows.b2c)
      BY <2>1, <3>1 DEF WindowReleased
    <3>2. CASE q \in Range(r)
      <4>1. PICK i \in 1..n : q = r[i]
        BY <1>7, <3>2
      <4>2. QED
        BY <1>5, <1>13, <2>1, <4>1
    <3>3. q # c
      BY <1>8, <2>1 DEF Exact
    <3>4. QED
      BY <1>10, <2>1, <3>1, <3>2, <3>3
  <2>2. ASSUME NEW x \in Raws(windows.b2c)
        PROVE  /\ Exact(x) => ~ Has(Range(p2b'), {"PUBCOMP"}, x.id)
               /\ x.qos = 1 => Asks(Range(p2c), x.id) \/ Has(FromClient, {"PUBACK"}, x.id)
    <3>1. /\ Exact(x) => ~ Has(Range(p2b), {"PUBCOMP"}, x.id)
          /\ x.qos = 1 => Asks(Range(p2c), x.id) \/ Has(FromClient, {"PUBACK"}, x.id)
      BY <2>2 DEF WindowReleased
    <3>2. QED
      BY <1>11, <3>1 DEF Has
  <2>3. \A x \in Range(buffer) : x.type \notin {"PUBACK", "PUBREC", "PUBCOMP"}
    BY DEF WindowReleased
  <2>4. QED
    BY <1>1, <1>2, <1>10, <2>1, <2>2, <2>3 DEF WindowReleased
<1>18. QED
  BY <1>15, <1>16, <1>17

\* All steps of the peers.
LEMMA PeersAnswer ==
  ASSUME IInv, StageInv, OnceInv, ArriveInv, B2CPublishes, ~ Reuse, AnswerInv, Peers
  PROVE  AnswerInv'
<1>1. IInv' /\ UNCHANGED proxyVars /\ phase # "ended" /\ ~ bClean /\ ArriveMessages
  BY PeersKeep DEF Peers, OnceInv, ArriveInv
<1>2. FlowsContinue /\ ReleasedLast /\ WindowReleased
  BY DEF AnswerInv
<1>3. ASSUME BrokerReads \/ BrokerCloses PROVE FlowsContinue' /\ ReleasedLast' /\ WindowReleased'
  BY <1>1, <1>2, <1>3, BrokerOnConnectAnswers, BrokerOnAckAnswers, BrokerOnPubrecAnswers,
     BrokerPlainAnswers, Zenon DEF BrokerReads
<1>4. ASSUME ClientReads \/ ClientSteps PROVE FlowsContinue' /\ ReleasedLast' /\ WindowReleased'
  BY <1>1, <1>2, <1>4, ClientPlainAnswers, ClientOnPublishAnswers, ClientOnPubrelAnswers,
     Zenon DEF ClientReads
<1>5. ASSUME BrokerPublish PROVE FlowsContinue' /\ ReleasedLast' /\ WindowReleased'
  BY <1>1, <1>2, <1>5, BrokerPublishAnswers, Zenon
<1>6. QED
  BY <1>3, <1>4, <1>5, Zenon DEF Peers, AnswerInv

\* A session starts with an empty store and nothing on the way.
LEMMA InitAnswers ==
  ASSUME Init
  PROVE  AnswerInv
<1>1. /\ p2c = << >> /\ b2p = << >> /\ leftover = << >> /\ buffer = << >> /\ bOut = << >>
      /\ snap.broker_buf = << >> /\ windows.b2c = << >>
  BY DEF Init, EndpointsInit, NoSnap, EmptyWindows
<1>2. Range(<< >>) = {} /\ Raws(<< >>) = {} /\ << >> \o << >> = << >> /\ DOMAIN << >> = {}
  BY ShortSeqs DEF Raws
<1>3. FromBrokerSocket = {} /\ Raws(windows.b2c) = {} /\ Range(bOut) = {} /\ Range(buffer) = {}
  BY <1>1, <1>2 DEF FromBrokerSocket
<1>4. FlowsContinue
  BY <1>3 DEF FlowsContinue
<1>5. ReleasedLast
  BY <1>1, <1>2, <1>3 DEF ReleasedLast
<1>6. WindowReleased
  BY <1>3 DEF WindowReleased
<1>7. QED
  BY <1>4, <1>5, <1>6 DEF AnswerInv

\* Nothing happens.
LEMMA StutterAnswers ==
  ASSUME AnswerInv, UNCHANGED vars
  PROVE  AnswerInv'
<1>1. UNCHANGED <<c2p, p2c, p2b, b2p, link, bOut, phase, windows, buffer, leftover, snap>>
  BY DEF vars, streams, brokerVars, proxyVars
<1>2. UNCHANGED <<ClientBound, BrokerBound, ToClient, FromClient, FromBrokerSocket>>
  BY <1>1 DEF ClientBound, BrokerBound, ToClient, FromClient, FromBrokerSocket
<1>3. FlowsContinue'
  BY <1>1, <1>2 DEF AnswerInv, FlowsContinue
<1>4. ReleasedLast'
  BY <1>1, <1>2, ZenonT(60) DEF AnswerInv, ReleasedLast
<1>5. WindowReleased'
  BY <1>1, <1>2 DEF AnswerInv, WindowReleased
<1>6. QED
  BY <1>3, <1>4, <1>5 DEF AnswerInv

\* What the invariant says at rest: a flow of the broker's store would still have a packet on
\* the way, and so would an entry of the b2c window.
LEMMA BrokerAtRest ==
  ASSUME IInv, ArriveInv, B2CPublishes, AnswerInv, Quiet
  PROVE  bOut = << >> /\ windows.b2c = << >>
<1>1. /\ StreamsOK /\ DeliverInv /\ phase = "connected" /\ link = "up"
      /\ c2p = << >> /\ p2c = << >> /\ p2b = << >> /\ b2p = << >>
      /\ snap = NoSnap /\ leftover = << >> /\ IsSeq(bOut)
      /\ windows \in Windows(Raws(windows.c2b), Raws(windows.b2c))
  BY DEF IInv, TypeOK, StreamsOK, DeliverInv, Quiet, ArriveInv, ArriveStages
<1>2. snap.client_buf = << >> /\ snap.broker_buf = << >>
  BY <1>1 DEF NoSnap
<1>3. Range(<< >>) = {}
  BY ShortSeqs
<1>4. FromClient = {} /\ ToClient = {} /\ Range(p2b) = {} /\ Range(p2c) = {}
  BY <1>1, <1>2, <1>3 DEF FromClient, ToClient
<1>5. bOut = << >>
  <2>1. Range(bOut) = {}
    BY <1>1, <1>4 DEF AnswerInv, FlowsContinue, Asks, Has
  <2>2. QED
    BY <1>1, <2>1, NothingInside
<1>6. Raws(windows.b2c) = {}
  <2>1. SUFFICES ASSUME NEW q \in Raws(windows.b2c) PROVE FALSE
    OBVIOUS
  <2>2. q.type = "PUBLISH" /\ q.qos > 0 /\ q.qos \in 0..2
    BY <1>1, <2>1 DEF B2CPublishes, ArriveInv, ArriveOrder, DeliverInv, BrokerFlow, ClientBound
  <2>3. q.qos # 1
    BY <1>1, <1>4, <2>1 DEF AnswerInv, WindowReleased, Asks, Has
  <2>4. q.qos # 2
    BY <1>3, <1>5, <2>1, <2>2 DEF AnswerInv, WindowReleased, Exact
  <2>5. QED
    BY <2>2, <2>3, <2>4
<1>7. windows.b2c = << >>
  <2>1. windows.b2c \in Vectors(B2CStates, Raws(windows.b2c))
    BY <1>1 DEF Windows
  <2>2. /\ Len(windows.b2c) \in Nat /\ windows.b2c \in Seq(Range(windows.b2c))
        /\ \A i \in 1..Len(windows.b2c) : windows.b2c[i].raw \in Raws(windows.b2c)
    BY <2>1, EntryIds
  <2>3. Len(windows.b2c) = 0
    <3>1. Len(windows.b2c) # 0 => 1 \in 1..Len(windows.b2c)
      BY <2>2
    <3>2. QED
      BY <1>6, <2>2, <3>1
  <2>4. QED
    BY <2>2, <2>3
<1>8. QED
  BY <1>5, <1>7

\* The invariant of the answers to the broker: on a working connection each flow of its store
\* goes on, a PUBREL comes behind the PUBLISHes of its flow, and the b2c window keeps a message
\* no longer than its answer takes.  Of every session without subscriptions whose client asks
\* for a persistent session.
THEOREM AnswerInvariant ==
  ASSUME ~ Reuse, ~ CleanStart, MaxSubOps = 0
  PROVE  Spec => []AnswerInv
<1>1. Init => AnswerInv
  BY InitAnswers
<1>2. /\ IInv /\ StageInv /\ OnceInv /\ ArriveInv /\ B2CPublishes /\ AnswerInv /\ [Next]_vars
      => AnswerInv'
  <2>1. SUFFICES ASSUME IInv, StageInv, OnceInv, ArriveInv, B2CPublishes, AnswerInv, [Next]_vars
                 PROVE  AnswerInv'
    OBVIOUS
  <2>2. CASE Proxy
    <3>1. /\ FlowsContinue /\ ReleasedLast /\ WindowReleased /\ ~ bClean /\ ArriveStages
      BY <2>1 DEF AnswerInv, OnceInv, ArriveInv
    <3>2. QED
      BY <2>1, <2>2, <3>1, ProxyAnswers DEF AnswerInv
  <2>3. CASE Peers
    BY <2>1, <2>3, PeersAnswer
  <2>4. CASE UNCHANGED vars
    BY <2>1, <2>4, StutterAnswers
  <2>5. QED
    BY <2>1, <2>2, <2>3, <2>4 DEF Next
<1>3. PassInv => StageInv
  BY DEF PassInv
<1>4. QED
  BY <1>1, <1>2, <1>3, SessionInvariant, PassInvariant, OnceInvariant, ArriveInvariant,
     B2CPublishesAlways, PTL DEF Spec

\* Both invariants of the path to the client.
THEOREM ReturnInvariant ==
  ASSUME ~ Reuse, ~ CleanStart, MaxSubOps = 0
  PROVE  Spec => []ReturnInv
<1>1. ArriveInv /\ AnswerInv => ReturnInv
  BY DEF ReturnInv
<1>2. QED
  BY <1>1, ArriveInvariant, AnswerInvariant, PTL

\* Nothing of the broker's gets stuck: when nothing is on the way any more, the broker waits for
\* no answer and the b2c window is empty (track_b2c and track_c2b in window.rs let go of what
\* was acknowledged).  Of every session without subscriptions whose client asks for a persistent
\* session.
THEOREM BrokerComesToRest ==
  ASSUME ~ Reuse, ~ CleanStart, MaxSubOps = 0
  PROVE  Spec => []BrokerSettled
<1>1. IInv /\ ArriveInv /\ B2CPublishes /\ AnswerInv => BrokerSettled
  BY BrokerAtRest DEF BrokerSettled
<1>2. QED
  BY <1>1, SessionInvariant, ArriveInvariant, AnswerInvariant, B2CPublishesAlways, PTL
=============================================================================
