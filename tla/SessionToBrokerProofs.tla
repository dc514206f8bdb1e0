----------------------- MODULE SessionToBrokerProofs -----------------------
(***************************************************************************)
(* The proofs about the path from the client to the broker: no request of  *)
(* the client is forgotten, messages reach the broker in order, marked DUP *)
(* when they come again and those of QoS 2 once, the client's side comes   *)
(* to rest, the session is the delivery service of Delivery, and the       *)
(* client's subscriptions are restored.                                    *)
(***************************************************************************)
EXTENDS SessionProofs, SequenceTheorems

----------------------------------------------------------------------------
(* What the windows keep.                                                  *)

\* An entry carries the packet of its id.
LEMMA EntryIds ==
  ASSUME NEW states, NEW S, NEW v \in Vectors(states, S)
  PROVE  /\ Len(v) \in Nat /\ DOMAIN v = 1..Len(v) /\ v \in Seq(Range(v))
         /\ \A i \in 1..Len(v) : v[i].raw \in Raws(v) /\ v[i].packet_id = v[i].raw.id
         /\ \A r \in Raws(v) : (\E i \in 1..Len(v) : v[i].raw = r) /\ vec_contains(v, r.id)
         /\ \A id : vec_contains(v, id) => \E r \in Raws(v) : r.id = id
         /\ Distinct(v)
<1> DEFINE E == {WindowEntry(p.id, s, p) : p \in S, s \in states}
<1>1. v \in Seq(E) /\ Distinct(v) /\ v \in Seq(Range(v))
  <2>1. v \in Seq(E) /\ Distinct(v)
    BY DEF Vectors
  <2>2. IsSeq(v)
    BY VectorRaws
  <2>3. QED
    BY <2>1, <2>2 DEF IsSeq
<1>2. \A e \in E : e.packet_id = e.raw.id
  BY DEF WindowEntry
<1> HIDE DEF E
<1>3. Len(v) \in Nat /\ DOMAIN v = 1..Len(v) /\ \A i \in 1..Len(v) : v[i] \in E
  BY <1>1
<1>4. \A r \in Raws(v) : \E i \in 1..Len(v) : v[i].raw = r
  BY <1>3 DEF Raws
<1>5. \A i \in 1..Len(v) : v[i].raw \in Raws(v) /\ v[i].packet_id = v[i].raw.id
  BY <1>2, <1>3 DEF Raws
<1>6. \A r \in Raws(v) : vec_contains(v, r.id)
  BY <1>3, <1>4, <1>5 DEF vec_contains
<1>7. \A id : vec_contains(v, id) => \E r \in Raws(v) : r.id = id
  BY <1>3, <1>5 DEF vec_contains
<1>8. QED
  BY <1>1, <1>3, <1>4, <1>5, <1>6, <1>7

\* vec_insert puts a packet in the place of the one of its id.
LEMMA InsertRaws ==
  ASSUME NEW states, NEW S, NEW v \in Vectors(states, S), NEW p \in S, NEW s \in states
  PROVE  Raws(vec_insert(v, WindowEntry(p.id, s, p))) = {r \in Raws(v) : r.id # p.id} \cup {p}
<1>0. PICK e, u : e = WindowEntry(p.id, s, p) /\ u = vec_insert(v, e)
  OBVIOUS
<1>1. e.packet_id = p.id /\ e.raw = p
  BY <1>0 DEF WindowEntry
<1>2. /\ Len(v) \in Nat /\ DOMAIN v = 1..Len(v) /\ v \in Seq(Range(v))
      /\ \A i \in 1..Len(v) : v[i].raw \in Raws(v) /\ v[i].packet_id = v[i].raw.id
      /\ \A r \in Raws(v) : (\E i \in 1..Len(v) : v[i].raw = r) /\ vec_contains(v, r.id)
      /\ \A x : vec_contains(v, x) => \E r \in Raws(v) : r.id = x
      /\ Distinct(v)
  BY EntryIds
<1>3. u \in Vectors(states, S)
  BY <1>0, VectorOps
<1>4. /\ \A i \in 1..Len(u) : u[i].raw \in Raws(u)
      /\ \A r \in Raws(u) : \E i \in 1..Len(u) : u[i].raw = r
  BY <1>3, EntryIds, SMTT(30)
<1>5. CASE vec_contains(v, p.id)
  <2>0. PICK k : k = SlotOf(v, p.id)
    OBVIOUS
  <2>1. k \in 1..Len(v) /\ v[k].packet_id = p.id
    BY <1>2, <1>5, <2>0, SlotFound
  <2>2. u = [v EXCEPT ![k] = e]
    BY <1>0, <1>1, <1>5, <2>0 DEF vec_insert
  <2>3. Len(u) = Len(v) /\ u[k] = e /\ \A i \in 1..Len(v) : i # k => u[i] = v[i]
    BY <1>2, <2>1, <2>2
  <2>4. \A i \in 1..Len(v) : i # k => v[i].raw.id # p.id
    BY <1>2, <2>1 DEF Distinct
  <2>5. v[k].raw.id = p.id
    BY <1>2, <2>1
  <2>6. \A r : r \in Raws(u) <=> r = p \/ (r \in Raws(v) /\ r.id # p.id)
    <3>1. ASSUME NEW r \in Raws(u) PROVE r = p \/ (r \in Raws(v) /\ r.id # p.id)
      <4>1. PICK i \in 1..Len(v) : u[i].raw = r
        BY <1>4, <2>3, <3>1
      <4>2. CASE i = k
        BY <1>1, <2>3, <4>1, <4>2
      <4>3. CASE i # k
        BY <1>2, <2>3, <2>4, <4>1, <4>3
      <4>4. QED
        BY <4>2, <4>3
    <3>2. p \in Raws(u)
      BY <1>1, <1>4, <2>1, <2>3
    <3>3. ASSUME NEW r \in Raws(v), r.id # p.id PROVE r \in Raws(u)
      BY <1>2, <1>4, <2>3, <2>5, <3>3
    <3>4. QED
      BY <3>1, <3>2, <3>3
  <2>7. QED
    BY <1>0, <2>6
<1>6. CASE ~ vec_contains(v, p.id)
  <2>1. u = Append(v, e)
    BY <1>0, <1>1, <1>6 DEF vec_insert
  <2>2. Len(u) = Len(v) + 1 /\ u[Len(v) + 1] = e /\ \A i \in 1..Len(v) : u[i] = v[i]
    BY <1>2, <2>1
  <2>3. \A r \in Raws(v) : r.id # p.id
    BY <1>2, <1>6
  <2>4. \A r : r \in Raws(u) <=> r = p \/ r \in Raws(v)
    <3>1. ASSUME NEW r \in Raws(u) PROVE r = p \/ r \in Raws(v)
      <4>1. PICK i \in 1..(Len(v) + 1) : u[i].raw = r
        BY <1>4, <2>2, <3>1
      <4>2. i \in 1..Len(v) \/ i = Len(v) + 1
        BY <1>2
      <4>3. QED
        BY <1>1, <1>2, <2>2, <4>1, <4>2
    <3>2. Len(v) + 1 \in 1..Len(u) /\ \A i \in 1..Len(v) : i \in 1..Len(u)
      BY <1>2, <2>2
    <3>3. p \in Raws(u)
      BY <1>1, <1>4, <2>2, <3>2
    <3>4. ASSUME NEW r \in Raws(v) PROVE r \in Raws(u)
      <4>1. PICK i \in 1..Len(v) : v[i].raw = r
        BY <1>2
      <4>2. QED
        BY <1>4, <2>2, <3>2, <4>1
    <3>5. QED
      BY <3>1, <3>3, <3>4
  <2>5. QED
    BY <1>0, <2>3, <2>4
<1>7. QED
  BY <1>5, <1>6

\* vec_remove takes out the packet of its id.
LEMMA RemoveRaws ==
  ASSUME NEW states, NEW S, NEW v \in Vectors(states, S), NEW id
  PROVE  Raws(vec_remove(v, id)) = {r \in Raws(v) : r.id # id}
<1>1. /\ Len(v) \in Nat /\ DOMAIN v = 1..Len(v) /\ v \in Seq(Range(v))
      /\ \A i \in 1..Len(v) : v[i].raw \in Raws(v) /\ v[i].packet_id = v[i].raw.id
      /\ \A r \in Raws(v) : (\E i \in 1..Len(v) : v[i].raw = r) /\ vec_contains(v, r.id)
      /\ \A x : vec_contains(v, x) => \E r \in Raws(v) : r.id = x
      /\ Distinct(v)
  BY EntryIds
<1>2. CASE ~ vec_contains(v, id)
  BY <1>1, <1>2 DEF vec_remove
<1>3. CASE vec_contains(v, id)
  <2>0. PICK k, u : k = SlotOf(v, id) /\ u = RemoveAt(v, k)
    OBVIOUS
  <2>1. k \in 1..Len(v) /\ v[k].packet_id = id
    <3>1. SlotOf(v, id) \in DOMAIN v /\ v[SlotOf(v, id)].packet_id = id
      BY <1>3, SlotFound
    <3>2. DOMAIN v = 1..Len(v)
      BY <1>1
    <3>3. QED
      BY <2>0, <3>1, <3>2
  <2>2. /\ u \in Seq(Range(v)) /\ Len(u) = Len(v) - 1
        /\ \A i \in 1..(Len(v) - 1) : u[i] = IF i < k THEN v[i] ELSE v[i + 1]
    <3>1. v \in Seq(Range(v)) /\ k \in 1..Len(v)
      BY <1>1, <2>1
    <3>2. QED
      BY <2>0, <3>1, RemoveAtPlaces
  <2>3. DOMAIN u = 1..(Len(v) - 1)
    BY <1>1, <2>2
  <2>4. \A i \in 1..Len(v) : i # k => v[i].raw.id # id
    <3>1. SUFFICES ASSUME NEW i \in 1..Len(v), v[i].raw.id = id PROVE i = k
      OBVIOUS
    <3>2. /\ \A j \in 1..Len(v) : v[j].packet_id = v[j].raw.id
          /\ \A j, l \in 1..Len(v) : v[j].packet_id = v[l].packet_id => j = l
      BY <1>1 DEF Distinct
    <3>3. QED
      BY <2>1, <3>1, <3>2
  <2>5. ASSUME NEW r \in Raws(u) PROVE r \in Raws(v) /\ r.id # id
    <3>1. PICK i \in 1..(Len(v) - 1) : r = u[i].raw
      BY <2>3, <2>5 DEF Raws
    <3>2. PICK j \in 1..Len(v) : j # k /\ r = v[j].raw
      <4>1. CASE i < k
        <5>1. i \in 1..Len(v) /\ i # k /\ u[i] = v[i]
          BY <1>1, <2>1, <2>2, <4>1
        <5>2. QED
          BY <3>1, <5>1
      <4>2. CASE ~ (i < k)
        <5>1. i + 1 \in 1..Len(v) /\ i + 1 # k /\ u[i] = v[i + 1]
          BY <1>1, <2>1, <2>2, <4>2
        <5>2. QED
          BY <3>1, <5>1
      <4>3. QED
        BY <4>1, <4>2
    <3>3. QED
      BY <1>1, <2>4, <3>2
  <2>6. ASSUME NEW r \in Raws(v), r.id # id PROVE r \in Raws(u)
    <3>1. PICK j \in 1..Len(v) : r = v[j].raw
      BY <1>1, <2>6
    <3>2. j # k
      BY <1>1, <2>1, <2>6, <3>1
    <3>3. PICK i \in 1..(Len(v) - 1) : u[i] = v[j]
      <4>1. CASE j < k
        <5>1. j \in 1..(Len(v) - 1)
          BY <1>1, <2>1, <4>1
        <5>2. QED
          BY <2>2, <4>1, <5>1
      <4>2. CASE j > k
        <5>1. j - 1 \in 1..(Len(v) - 1) /\ ~ (j - 1 < k) /\ j - 1 + 1 = j
          BY <1>1, <2>1, <4>2
        <5>2. QED
          BY <2>2, <5>1
      <4>3. QED
        BY <1>1, <2>1, <3>2, <4>1, <4>2
    <3>4. QED
      BY <2>3, <3>1, <3>3 DEF Raws
  <2>7. Raws(u) = {r \in Raws(v) : r.id # id}
    BY <2>5, <2>6
  <2>8. QED
    BY <1>3, <2>0, <2>7 DEF vec_remove
<1>4. QED
  BY <1>2, <1>3

\* A flushed PUBLISH or PUBREL takes the place of its id in the c2b window, any other
\* packet leaves the windows alone.
LEMMA FlushIntoRaws ==
  ASSUME NEW C, NEW B, NEW v \in Windows(C, B), NEW p \in C
  PROVE  /\ p.type \in {"PUBLISH", "PUBREL"} =>
              Raws(FlushInto(v, p).c2b) = {r \in Raws(v.c2b) : r.id # p.id} \cup {p}
         /\ p.type \notin {"PUBLISH", "PUBREL"} => FlushInto(v, p) = v
<1>1. v.c2b \in Vectors(C2BStates, C)
  BY SetVector
<1>2. \A s : insert_c2b_raw(v, p.id, s, p).c2b = vec_insert(v.c2b, WindowEntry(p.id, s, p))
  <2>1. v = [c2b |-> v.c2b, b2c |-> v.b2c]
    BY DEF Windows
  <2>2. QED
    BY <2>1, Zenon DEF insert_c2b_raw
<1>3. \A s \in C2BStates :
        Raws(insert_c2b_raw(v, p.id, s, p).c2b) = {r \in Raws(v.c2b) : r.id # p.id} \cup {p}
  BY <1>1, <1>2, InsertRaws
<1>4. /\ p.type = "PUBLISH" => FlushInto(v, p) = insert_c2b_raw(v, p.id, "C2BPublishSent", p)
      /\ p.type = "PUBREL" => FlushInto(v, p) = insert_c2b_raw(v, p.id, "C2BPubrelSent", p)
      /\ p.type \notin {"PUBLISH", "PUBREL"} => FlushInto(v, p) = v
  BY DEF FlushInto
<1>5. "C2BPublishSent" \in C2BStates /\ "C2BPubrelSent" \in C2BStates
  BY DEF C2BStates
<1>6. QED
  BY <1>3, <1>4, <1>5

\* After a flush, the slot of an id holds a packet of the buffer if that has one for it,
\* and what it held before if not.
LEMMA FlushRaws ==
  ASSUME NEW C, NEW B, NEW w \in Windows(C, B), NEW packets, IsSeq(packets), NEW id
  PROVE  \/ \E r \in Raws(flush(w, packets).c2b) :
              r \in Range(packets) /\ r.type \in {"PUBLISH", "PUBREL"} /\ r.id = id
         \/ /\ \A p \in Range(packets) : p.type \in {"PUBLISH", "PUBREL"} => p.id # id
            /\ \A r \in Raws(w.c2b) : r.id = id => r \in Raws(flush(w, packets).c2b)
<1>0. PICK W, n : W = Windows(C \cup Range(packets), B) /\ n = Len(packets)
  OBVIOUS
<1>1. PICK f : Flushing(f, W, w, packets)
  BY <1>0, FlushSteps
<1>2. /\ n \in Nat /\ f[0] = w /\ f[n] = flush(w, packets)
      /\ \A i \in 1..n : packets[i] \in Range(packets) /\ f[i] = FlushInto(f[i - 1], packets[i])
      /\ \A i \in 0..n : f[i] \in W
      /\ \A p \in Range(packets) : \E i \in 1..n : packets[i] = p
  BY <1>0, <1>1, SeqPlaces DEF Flushing
<1> DEFINE Takes(p) == p.type \in {"PUBLISH", "PUBREL"} /\ p.id = id
           Good(i) == \/ \E r \in Raws(f[i].c2b) : r \in Range(packets) /\ Takes(r)
                      \/ /\ \A j \in 1..i : ~ Takes(packets[j])
                         /\ \A r \in Raws(w.c2b) : r.id = id => r \in Raws(f[i].c2b)
<1>3. Good(0)
  BY <1>2
<1>4. ASSUME NEW i \in 1..n, Good(i - 1) PROVE Good(i)
  <2>0. PICK p, v : p = packets[i] /\ v = f[i - 1]
    OBVIOUS
  <2>1. v \in W /\ p \in Range(packets) /\ f[i] = FlushInto(v, p)
    BY <1>2, <2>0
  <2>2. /\ p.type \in {"PUBLISH", "PUBREL"} =>
             Raws(f[i].c2b) = {r \in Raws(v.c2b) : r.id # p.id} \cup {p}
        /\ p.type \notin {"PUBLISH", "PUBREL"} => f[i] = v
    BY <1>0, <2>1, FlushIntoRaws
  <2>3. CASE Takes(p)
    BY <2>1, <2>2, <2>3
  <2>4. CASE ~ Takes(p)
    <3>1. \A r : r.id = id => (r \in Raws(v.c2b) => r \in Raws(f[i].c2b))
      BY <2>2, <2>4
    <3>2. CASE \E r \in Raws(v.c2b) : r \in Range(packets) /\ Takes(r)
      BY <3>1, <3>2
    <3>3. CASE /\ \A j \in 1..(i - 1) : ~ Takes(packets[j])
               /\ \A r \in Raws(w.c2b) : r.id = id => r \in Raws(v.c2b)
      <4>1. \A j \in 1..i : j \in 1..(i - 1) \/ j = i
        BY <1>2
      <4>2. QED
        BY <2>0, <2>4, <3>1, <3>3, <4>1
    <3>4. QED
      BY <1>4, <2>0, <3>2, <3>3
  <2>5. QED
    BY <2>3, <2>4
<1> HIDE DEF Good
<1>5. Good(n)
  <2> DEFINE bad == {i \in 0..n : ~ Good(i)}
  <2>1. SUFFICES ASSUME ~ Good(n) PROVE FALSE
    OBVIOUS
  <2>2. n \in bad /\ bad \in SUBSET Nat
    BY <1>2, <2>1
  <2> HIDE DEF bad
  <2>3. PICK m \in bad : \A k \in bad : m <= k
    BY <2>2, LeastElement
  <2>4. m \in 0..n /\ ~ Good(m)
    BY <2>3 DEF bad
  <2>5. m # 0
    BY <1>3, <2>4
  <2>6. m \in 1..n /\ m - 1 \in 0..n /\ ~ (m <= m - 1)
    BY <1>2, <2>4, <2>5
  <2>7. Good(m - 1)
    BY <2>3, <2>6 DEF bad
  <2>8. QED
    BY <1>4, <2>4, <2>6, <2>7
<1>6. QED
  BY <1>2, <1>5 DEF Good

\* What a window keeps for other ids.
Others(packets, id) == {r \in packets : r.id # id}

\* The packets of the client that tracking puts into a c2b window.
Enters(p, v) ==
  \/ p.type = "PUBLISH" /\ p.qos # 0
  \/ p.type = "PUBREL" /\ vec_contains(v, p.id)

\* What tracking a packet does to what the c2b window keeps.
LEMMA TrackRaws ==
  ASSUME NEW w, w \in Windows(Raws(w.c2b), Raws(w.b2c)), NEW p
  PROVE  /\ Enters(p, w.c2b) =>
              Raws(track_c2b(w, p).c2b) = Others(Raws(w.c2b), p.id) \cup {p}
         /\ ~ Enters(p, w.c2b) => track_c2b(w, p).c2b = w.c2b
         /\ p.type \in {"PUBACK", "PUBCOMP"} =>
              Raws(track_b2c(w, p).c2b) = Others(Raws(w.c2b), p.id)
         /\ p.type \notin {"PUBACK", "PUBCOMP"} => track_b2c(w, p).c2b = w.c2b
<1>0. PICK C, B : C = Raws(w.c2b) /\ B = Raws(w.b2c)
  OBVIOUS
<1>1. /\ w.c2b \in Vectors(C2BStates, C \cup {p}) /\ w = [c2b |-> w.c2b, b2c |-> w.b2c]
  <2>1. w \in Windows(C \cup {p}, B)
    BY <1>0, WindowsGrow
  <2>2. QED
    BY <2>1 DEF Windows
<1>2. "C2BPublishSent" \in C2BStates /\ "C2BPubrelSent" \in C2BStates /\ p \in C \cup {p}
  BY DEF C2BStates
<1>3. /\ \A v : [w EXCEPT !.c2b = v].c2b = v
      /\ \A v : [w EXCEPT !.b2c = v].c2b = w.c2b
  BY <1>1, Zenon
<1>4. CASE p.type = "PUBLISH"
  <2>1. track_c2b(w, p) = c2b_insert(w, p) /\ track_b2c(w, p) = b2c_insert(w, p)
    BY <1>4, Zenon DEF track_c2b, track_b2c
  <2>2. b2c_insert(w, p).c2b = w.c2b
    BY <1>3, Zenon DEF b2c_insert
  <2>3. p.qos = 0 => c2b_insert(w, p) = w
    BY DEF c2b_insert
  <2>4. p.qos # 0 => c2b_insert(w, p).c2b = vec_insert(w.c2b, WindowEntry(p.id, "C2BPublishSent", p))
    BY <1>3, Zenon DEF c2b_insert
  <2>5. Raws(vec_insert(w.c2b, WindowEntry(p.id, "C2BPublishSent", p)))
          = Others(Raws(w.c2b), p.id) \cup {p}
    BY <1>1, <1>2, InsertRaws DEF Others
  <2>6. QED
    BY <1>4, <2>1, <2>2, <2>3, <2>4, <2>5 DEF Enters
<1>5. CASE p.type = "PUBREL"
  <2>1. track_c2b(w, p) = c2b_transition(w, p) /\ track_b2c(w, p) = w
    BY <1>5, Zenon DEF track_c2b, track_b2c
  <2>2. ~ vec_contains(w.c2b, p.id) => c2b_transition(w, p) = w
    BY Zenon DEF c2b_transition
  <2>3. vec_contains(w.c2b, p.id) =>
          c2b_transition(w, p).c2b = vec_insert(w.c2b, WindowEntry(p.id, "C2BPubrelSent", p))
    BY <1>3, Zenon DEF c2b_transition
  <2>4. Raws(vec_insert(w.c2b, WindowEntry(p.id, "C2BPubrelSent", p)))
          = Others(Raws(w.c2b), p.id) \cup {p}
    BY <1>1, <1>2, InsertRaws DEF Others
  <2>5. QED
    BY <1>5, <2>1, <2>2, <2>3, <2>4 DEF Enters
<1>6. CASE p.type \in {"PUBACK", "PUBCOMP"}
  <2>1. track_c2b(w, p) = b2c_remove(w, p.id) /\ track_b2c(w, p) = c2b_remove(w, p.id)
    BY <1>6, Zenon DEF track_c2b, track_b2c
  <2>2. b2c_remove(w, p.id).c2b = w.c2b /\ c2b_remove(w, p.id).c2b = vec_remove(w.c2b, p.id)
    BY <1>3, Zenon DEF b2c_remove, c2b_remove
  <2>3. Raws(vec_remove(w.c2b, p.id)) = Others(Raws(w.c2b), p.id)
    BY <1>1, RemoveRaws DEF Others
  <2>4. QED
    BY <1>6, <2>1, <2>2, <2>3 DEF Enters
<1>7. CASE p.type = "PUBREC"
  <2>1. track_c2b(w, p) = b2c_transition(w, p) /\ track_b2c(w, p) = w
    BY <1>7, Zenon DEF track_c2b, track_b2c
  <2>2. b2c_transition(w, p).c2b = w.c2b
    BY <1>3, Zenon DEF b2c_transition
  <2>3. QED
    BY <1>7, <2>1, <2>2 DEF Enters
<1>8. CASE p.type \notin {"PUBLISH", "PUBREL", "PUBACK", "PUBCOMP", "PUBREC"}
  <2>1. track_c2b(w, p) = w /\ track_b2c(w, p) = w
    BY <1>8, Zenon DEF track_c2b, track_b2c
  <2>2. QED
    BY <1>8, <2>1 DEF Enters
<1>9. QED
  BY <1>4, <1>5, <1>6, <1>7, <1>8

----------------------------------------------------------------------------
(* The steps of the proxy.                                                 *)

\* Moving packets keeps them true to the QoS of their message.
LEMMA MovesKeepQos ==
  ASSUME QosInv, MovesOnly, PeersKept
  PROVE  QosInv'
<1>1. cOut' = cOut
  BY DEF PeersKept, clientVars
<1>2. /\ \A p \in BrokerBound' : p.type \in QosTypes => \E q \in BrokerBound : Same(p, q)
      /\ \A p \in ClientBound' : p.type \in QosTypes => \E q \in ClientBound : Same(p, q)
  BY DEF MovesOnly, OnlyFrom
<1>3. \A p, q : Same(p, q) => /\ QosFlow(q) => QosFlow(p)'
                              /\ QosAnswer(q) => QosAnswer(p)'
  BY <1>1 DEF Same, QosFlow, QosAnswer
<1>4. \A p : p.type \notin QosTypes => QosFlow(p)' /\ QosAnswer(p)'
  BY DEF QosTypes, QosFlow, QosAnswer
<1>5. QED
  BY <1>1, <1>2, <1>3, <1>4 DEF QosInv

\* What a step of the proxy has to keep: a PUBLISH that was not passed on is the
\* only one, and what continues a handshake is kept or answered.
LEMMA ProxyRetains ==
  ASSUME FreshInv, KeptInv, MovesOnly, PeersKept, phase # "ended",
         Range(p2c) \subseteq Range(p2c'),
         \A p \in Unsent' : p \in Unsent,
         \A id \in Ids : \/ ~ Has(Unsent', {"PUBLISH"}, id)
                         \/ ~ Has(Range(p2b') \cup Raws(windows'.c2b), {"PUBLISH"}, id)
                         \/ Has(Range(p2b) \cup Raws(windows.c2b), {"PUBLISH"}, id),
         Once(snap'.client_buf \o c2p'),
         \A id \in Ids : ~ (Has(FromClient', {"PUBLISH"}, id) /\ Has(Range(buffer'), {"PUBLISH"}, id)),
         phase' # "ended" =>
           \A id \in Ids :
             /\ cOut[id].st = "pub" /\ Has(Unsent \cup Raws(windows.c2b), {"PUBLISH"}, id) =>
                  \/ Has(Unsent' \cup Raws(windows'.c2b), {"PUBLISH"}, id)
                  \/ Has(Range(p2c'), {"PUBACK"}, id)
             /\ /\ cOut[id].st = "rel"
                /\ vec_contains(windows.c2b, id) /\ Has(Unsent \cup Raws(windows.c2b), {"PUBREL"}, id)
                => \/ /\ vec_contains(windows'.c2b, id)
                      /\ Has(Unsent' \cup Raws(windows'.c2b), {"PUBREL"}, id)
                   \/ Has(Range(p2c'), {"PUBCOMP"}, id)
  PROVE  FreshInv' /\ KeptInv'
<1>1. cOut' = cOut
  BY DEF PeersKept, clientVars
<1>2. \A id : Has(Unsent', {"PUBLISH"}, id) => Has(Unsent, {"PUBLISH"}, id)
  BY DEF Has
<1>3. \A id : Has(ClientBound', {"PUBREC"}, id) => Has(ClientBound, {"PUBREC"}, id)
  BY DEF Has, MovesOnly, OnlyFrom, Same, QosTypes
<1>4. FreshInv'
  <2>1. ASSUME NEW id \in Ids, Has(Unsent', {"PUBLISH"}, id)
        PROVE  /\ cOut'[id].st # "rel"
               /\ ~ Has(Range(p2b') \cup Raws(windows'.c2b), {"PUBLISH"}, id)
               /\ ~ Has(ClientBound', {"PUBREC"}, id)
    BY <1>1, <1>2, <1>3, <2>1 DEF FreshInv
  <2>2. QED
    BY <2>1 DEF FreshInv
<1>5. KeptInv'
  <2>1. ASSUME phase' # "ended", NEW id \in Ids
        PROVE  /\ cOut'[id].st = "pub" => \/ Has(Unsent' \cup Raws(windows'.c2b), {"PUBLISH"}, id)
                                          \/ Has(Range(p2c'), {"PUBACK"}, id)
               /\ cOut'[id].st = "rel" => \/ /\ vec_contains(windows'.c2b, id)
                                             /\ Has(Unsent' \cup Raws(windows'.c2b), {"PUBREL"}, id)
                                          \/ Has(Range(p2c'), {"PUBCOMP"}, id)
    <3>1. \A types : Has(Range(p2c), types, id) => Has(Range(p2c'), types, id)
      BY DEF Has
    <3>2. QED
      BY <1>1, <2>1, <3>1 DEF KeptInv
  <2>2. QED
    BY <2>1 DEF KeptInv
<1>6. QED
  BY <1>4, <1>5

\* Outside a freeze the client's stream is the socket, and a PUBLISH at its head is the
\* only one of its id.
LEMMA HeadOnce ==
  ASSUME StreamsOK, phase # "frozen", Once(snap.client_buf \o c2p)
  PROVE  /\ snap.client_buf \o c2p = c2p /\ FromClient = Range(c2p)
         /\ c2p # << >> =>
              /\ Once(Tail(c2p)) /\ Range(Tail(c2p)) \subseteq Range(c2p) /\ IsSeq(Tail(c2p))
              /\ Head(c2p) \in Range(c2p) /\ Range(c2p) = {Head(c2p)} \cup Range(Tail(c2p))
              /\ Head(c2p).type = "PUBLISH" /\ Head(c2p).id # NoId =>
                   ~ Has(Range(Tail(c2p)), {"PUBLISH"}, Head(c2p).id)
<1>1. snap.client_buf = << >> /\ IsSeq(c2p) /\ c2p \in Seq(Range(c2p))
  BY DEF StreamsOK, NoSnap, IsSeq
<1>2. snap.client_buf \o c2p = c2p
  BY <1>1
<1>3. FromClient = Range(c2p)
  BY <1>1, ShortSeqs DEF FromClient
<1>4. ASSUME c2p # << >>
      PROVE  /\ Once(Tail(c2p))
             /\ Head(c2p).type = "PUBLISH" /\ Head(c2p).id # NoId =>
                  ~ Has(Range(Tail(c2p)), {"PUBLISH"}, Head(c2p).id)
  <2>0. PICK t : t = Tail(c2p)
    OBVIOUS
  <2>1. /\ Len(c2p) \in Nat /\ Len(c2p) >= 1 /\ DOMAIN c2p = 1..Len(c2p) /\ Head(c2p) = c2p[1]
        /\ DOMAIN t = 1..(Len(c2p) - 1) /\ \A i \in 1..(Len(c2p) - 1) : t[i] = c2p[i + 1]
    BY <1>1, <1>4, <2>0
  <2>2. \A i \in 1..(Len(c2p) - 1) : i + 1 \in DOMAIN c2p /\ i + 1 # 1
    BY <2>1
  <2>3. 1 \in DOMAIN c2p
    BY <2>1
  <2>4. \A i, j \in DOMAIN c2p :
          c2p[i].type = "PUBLISH" /\ c2p[j].type = "PUBLISH" /\ c2p[i].id = c2p[j].id
          /\ c2p[i].id # NoId => i = j
    BY <1>2 DEF Once
  <2>5. Once(t)
    <3>1. ASSUME NEW i \in DOMAIN t, NEW j \in DOMAIN t, t[i].type = "PUBLISH",
                 t[j].type = "PUBLISH", t[i].id = t[j].id, t[i].id # NoId
          PROVE  i = j
      <4>1. i + 1 = j + 1
        BY <2>1, <2>2, <2>4, <3>1
      <4>2. QED
        BY <2>1, <4>1
    <3>2. QED
      BY <3>1 DEF Once
  <2>6. ASSUME Head(c2p).type = "PUBLISH", Head(c2p).id # NoId,
               NEW q \in Range(t), q.type = "PUBLISH", q.id = Head(c2p).id
        PROVE  FALSE
    <3>1. PICK i \in 1..(Len(c2p) - 1) : q = c2p[i + 1]
      BY <2>1, <2>6 DEF Range
    <3>2. QED
      BY <2>1, <2>2, <2>3, <2>4, <2>6, <3>1
  <2>7. QED
    BY <2>0, <2>5, <2>6 DEF Has
<1>5. ASSUME c2p # << >>
      PROVE  /\ Range(Tail(c2p)) \subseteq Range(c2p) /\ IsSeq(Tail(c2p))
             /\ Head(c2p) \in Range(c2p) /\ Range(c2p) = {Head(c2p)} \cup Range(Tail(c2p))
  BY <1>1, <1>5, TailElements
<1>6. QED
  BY <1>2, <1>3, <1>4, <1>5

\* Steps that leave the client's packets, the windows and the buffer alone.
LEMMA StreamRetains ==
  ASSUME FreshInv, KeptInv, MovesOnly, PeersKept, phase # "ended",
         snap'.client_buf \o c2p' = snap.client_buf \o c2p, FromClient' = FromClient,
         buffer' = buffer, windows'.c2b = windows.c2b, Range(p2c) \subseteq Range(p2c'),
         \A p \in Range(p2b') : p \in Range(p2b) \/ p.type \notin QosTypes
  PROVE  FreshInv' /\ KeptInv'
<1>1. Unsent' = Unsent
  BY DEF Unsent
<1>2. \A id : Has(Range(p2b') \cup Raws(windows'.c2b), {"PUBLISH"}, id)
              => Has(Range(p2b) \cup Raws(windows.c2b), {"PUBLISH"}, id)
  BY DEF Has, QosTypes
<1>3. Once(snap'.client_buf \o c2p')
  BY DEF FreshInv
<1>4. \A id \in Ids : ~ (Has(FromClient', {"PUBLISH"}, id) /\ Has(Range(buffer'), {"PUBLISH"}, id))
  BY DEF FreshInv
<1>5. QED
  BY <1>1, <1>2, <1>3, <1>4, ProxyRetains

LEMMA PlainRetains ==
  ASSUME FreshInv, KeptInv, MovesOnly, PeersKept, phase # "ended",
         UNCHANGED <<c2p, buffer, snap>>, windows'.c2b = windows.c2b,
         Range(p2c) \subseteq Range(p2c'),
         \A p \in Range(p2b') : p \in Range(p2b) \/ p.type \notin QosTypes
  PROVE  FreshInv' /\ KeptInv'
<1>1. snap'.client_buf \o c2p' = snap.client_buf \o c2p /\ FromClient' = FromClient
  BY DEF FromClient
<1>2. QED
  BY <1>1, StreamRetains

\* Losing, opening and closing connections, and the ends of a session.
LEMMA ConnectionRetains ==
  ASSUME TypeOK, FreshInv, KeptInv, MovesOnly, PeersKept,
         \/ InterceptDisconnect \/ BrokerEof \/ ClientGone \/ KeepaliveTimeout
         \/ ConnectBroker \/ RecvConnack \/ RecvSuback \/ EstablishFails
  PROVE  FreshInv' /\ KeptInv'
<1>1. IsSeq(p2c) /\ IsSeq(p2b)
  BY DEF TypeOK, StreamsOK
<1>2. phase # "ended" /\ UNCHANGED <<c2p, windows, buffer, snap>>
  BY DEF InterceptDisconnect, BrokerEof, ClientGone, KeepaliveTimeout, ConnectBroker,
         RecvConnack, RecvSuback, EstablishFails, streams
<1>3. Range(p2c) \subseteq Range(p2c')
  <2>1. p2c' = p2c \/ \E d : p2c' = Append(p2c, d)
    BY DEF InterceptDisconnect, BrokerEof, ClientGone, KeepaliveTimeout, ConnectBroker,
           RecvConnack, RecvSuback, EstablishFails, streams
  <2>2. \A d : Range(Append(p2c, d)) = Range(p2c) \cup {d}
    BY <1>1, AppendElements
  <2>3. QED
    BY <2>1, <2>2
<1>4. \A p \in Range(p2b') : p \in Range(p2b) \/ p.type \notin QosTypes
  <2>0. PICK r, c : r = resubscribe_packet(subscriptions) /\ c = force_session_resumption(connect_raw)
    OBVIOUS
  <2>1. p2b' = p2b \/ p2b' = << >> \/ p2b' = p2b \o r \/ p2b' = << c >>
    BY <2>0 DEF InterceptDisconnect, BrokerEof, ClientGone, KeepaliveTimeout, ConnectBroker,
                RecvConnack, RecvSuback, EstablishFails, DropBroker, streams
  <2>2. /\ IsSeq(r) /\ \A q \in Range(r) : q.type \notin QosTypes
        /\ c.type \notin QosTypes
    BY <2>0, OwnPackets, OtherTypes
  <2>3. Range(p2b \o r) = Range(p2b) \cup Range(r)
    BY <1>1, <2>2, ConcatElements
  <2>4. Range(<<c>>) = {c} /\ Range(<< >>) = {}
    BY ShortSeqs
  <2>5. QED
    BY <2>1, <2>2, <2>3, <2>4
<1>5. QED
  BY <1>2, <1>3, <1>4, PlainRetains

\* A client packet that is passed on: a PUBLISH is tracked from now on, and a PUBREL
\* finds the entry of its id.
LEMMA ForwardClientRetains ==
  ASSUME TypeOK, QosInv, FreshInv, KeptInv, MovesOnly, PeersKept, ForwardClientPacket
  PROVE  FreshInv' /\ KeptInv'
<1>0. PICK p, w : p = Head(c2p) /\ w = windows
  OBVIOUS
<1>1. /\ StreamsOK /\ phase = "connected" /\ c2p # << >> /\ c2p' = Tail(c2p)
      /\ UNCHANGED <<buffer, snap>> /\ p2c' = p2c \o LocalAnswer(p) /\ phase' # "frozen"
      /\ windows' = track_c2b(w, p)
      /\ p2b' = p2b \/ p2b' = Append(p2b, p) \/ p2b' = << >>
  BY <1>0 DEF TypeOK, ForwardClientPacket, DropBroker
<1>2. IsSeq(p2c) /\ IsSeq(p2b) /\ w \in Windows(Raws(w.c2b), Raws(w.b2c)) /\ snap.client_buf = << >>
  BY <1>0, <1>1 DEF StreamsOK, NoSnap
<1>3. /\ FromClient = Range(c2p) /\ Once(Tail(c2p)) /\ IsSeq(Tail(c2p))
      /\ Range(c2p) = {p} \cup Range(Tail(c2p)) /\ p \in Range(c2p)
      /\ p.type = "PUBLISH" /\ p.id # NoId => ~ Has(Range(Tail(c2p)), {"PUBLISH"}, p.id)
  <2>1. Once(snap.client_buf \o c2p)
    BY DEF FreshInv
  <2>2. QED
    BY <1>0, <1>1, <2>1, HeadOnce
<1>4. Range(p2c) \subseteq Range(p2c')
  BY <1>1, <1>2, LocalAnswerIs, ConcatElements
<1>5. \A q \in Range(p2b') : q \in Range(p2b) \/ q = p
  <2>1. Range(Append(p2b, p)) = Range(p2b) \cup {p}
    BY <1>2, AppendElements
  <2>2. Range(<< >>) = {}
    BY ShortSeqs
  <2>3. QED
    BY <1>1, <2>1, <2>2
<1>6. /\ FromClient' = Range(Tail(c2p)) /\ snap'.client_buf \o c2p' = Tail(c2p)
  <2>1. Range(<< >>) = {} /\ snap'.client_buf = << >> /\ Tail(c2p) \in Seq(Range(Tail(c2p)))
    BY <1>1, <1>2, <1>3, ShortSeqs DEF IsSeq
  <2>2. << >> \o Tail(c2p) = Tail(c2p)
    BY <2>1
  <2>3. QED
    BY <1>1, <2>1, <2>2 DEF FromClient
<1>7. Unsent' = FromClient' \cup Range(buffer) /\ Unsent = FromClient \cup Range(buffer)
  BY <1>1 DEF Unsent
<1>8. /\ Enters(p, w.c2b) => Raws(windows'.c2b) = Others(Raws(w.c2b), p.id) \cup {p}
      /\ ~ Enters(p, w.c2b) => windows'.c2b = w.c2b
  BY <1>1, <1>2, TrackRaws
<1>9. \A id : /\ vec_contains(w.c2b, id) => \E r \in Raws(w.c2b) : r.id = id
              /\ (\E r \in Raws(windows'.c2b) : r.id = id) => vec_contains(windows'.c2b, id)
  <2>1. w.c2b \in Vectors(C2BStates, Raws(w.c2b))
    BY <1>2 DEF Windows
  <2>2. windows' \in Windows(Raws(w.c2b) \cup {p}, Raws(w.b2c))
    BY <1>1, <1>2, TrackKeeps
  <2>3. windows'.c2b \in Vectors(C2BStates, Raws(w.c2b) \cup {p})
    BY <2>2 DEF Windows
  <2>4. QED
    BY <2>1, <2>3, EntryIds
<1>10. \A q \in Raws(windows'.c2b) : q \in Raws(w.c2b) \/ q = p
  BY <1>8 DEF Others
<1>11. /\ p.type = "PUBLISH" /\ p.id # NoId => p.qos # 0
       /\ p.type = "PUBREL" => cOut[p.id].st # "pub"
  <2>1. p \in BrokerBound
    BY <1>3 DEF BrokerBound
  <2>2. QED
    BY <2>1 DEF QosInv, QosFlow
<1>12. \A id \in Ids : \/ ~ Has(Unsent', {"PUBLISH"}, id)
                       \/ ~ Has(Range(p2b') \cup Raws(windows'.c2b), {"PUBLISH"}, id)
                       \/ Has(Range(p2b) \cup Raws(windows.c2b), {"PUBLISH"}, id)
  <2>1. ASSUME NEW id \in Ids, p.type = "PUBLISH", p.id = id PROVE ~ Has(Unsent', {"PUBLISH"}, id)
    <3>1. id # NoId
      BY EndpointsAssumption DEF Ids, NoId
    <3>2. ~ Has(Range(buffer), {"PUBLISH"}, id)
      BY <1>3, <2>1 DEF FreshInv, Has
    <3>3. QED
      BY <1>3, <1>6, <1>7, <2>1, <3>1, <3>2 DEF Has
  <2>2. QED
    BY <1>0, <1>5, <1>10, <2>1 DEF Has
<1>13. \A id \in Ids : ~ (Has(FromClient', {"PUBLISH"}, id) /\ Has(Range(buffer'), {"PUBLISH"}, id))
  BY <1>1, <1>3, <1>6 DEF FreshInv, Has
<1>14. ASSUME NEW id \in Ids, cOut[id].st = "pub",
              Has(Unsent \cup Raws(windows.c2b), {"PUBLISH"}, id)
       PROVE  Has(Unsent' \cup Raws(windows'.c2b), {"PUBLISH"}, id)
  <2>1. id # NoId
    BY EndpointsAssumption DEF Ids, NoId
  <2>2. PICK q \in Unsent \cup Raws(w.c2b) : q.type = "PUBLISH" /\ q.id = id
    BY <1>0, <1>14 DEF Has
  <2>3. CASE q = p
    BY <1>8, <1>11, <2>1, <2>2, <2>3 DEF Has, Enters, Others
  <2>4. CASE q \in Unsent /\ q # p
    BY <1>3, <1>6, <1>7, <2>2, <2>4 DEF Has
  <2>5. CASE q \in Raws(w.c2b)
    <3>1. CASE q \in Raws(windows'.c2b)
      BY <2>2, <3>1 DEF Has
    <3>2. CASE q \notin Raws(windows'.c2b)
      <4>1. p.id = id /\ p \in Raws(windows'.c2b) /\ (p.type = "PUBLISH" \/ p.type = "PUBREL")
        BY <1>8, <2>2, <2>5, <3>2 DEF Enters, Others
      <4>2. p.type = "PUBLISH"
        BY <1>11, <1>14, <4>1
      <4>3. QED
        BY <4>1, <4>2 DEF Has
    <3>3. QED
      BY <3>1, <3>2
  <2>6. QED
    BY <2>2, <2>3, <2>4, <2>5
<1>15. ASSUME NEW id \in Ids, cOut[id].st = "rel", vec_contains(windows.c2b, id),
              Has(Unsent \cup Raws(windows.c2b), {"PUBREL"}, id)
       PROVE  /\ vec_contains(windows'.c2b, id)
              /\ Has(Unsent' \cup Raws(windows'.c2b), {"PUBREL"}, id)
  <2>1. ~ (p.type = "PUBLISH" /\ p.id = id)
    BY <1>3, <1>7, <1>15 DEF FreshInv, Has
  <2>2. PICK o \in Raws(w.c2b) : o.id = id
    BY <1>0, <1>9, <1>15
  <2>3. PICK q \in Unsent \cup Raws(w.c2b) : q.type = "PUBREL" /\ q.id = id
    BY <1>0, <1>15 DEF Has
  <2>4. CASE p.type = "PUBREL" /\ p.id = id
    <3>1. p \in Raws(windows'.c2b)
      BY <1>0, <1>8, <1>15, <2>4 DEF Enters, Others
    <3>2. QED
      BY <1>9, <2>4, <3>1 DEF Has
  <2>5. CASE ~ (p.type = "PUBREL" /\ p.id = id)
    <3>1. \A r \in Raws(w.c2b) : r.id = id => r \in Raws(windows'.c2b)
      BY <1>8, <2>1, <2>5 DEF Enters, Others
    <3>2. q \in Unsent => q \in Unsent'
      BY <1>3, <1>6, <1>7, <2>3, <2>5
    <3>3. QED
      BY <1>9, <2>2, <2>3, <3>1, <3>2 DEF Has
  <2>6. QED
    BY <2>4, <2>5
<1>16. \A q \in Unsent' : q \in Unsent
  BY <1>3, <1>6, <1>7
<1>17. Once(snap'.client_buf \o c2p')
  BY <1>3, <1>6
<1>18. QED
  BY <1>1, <1>4, <1>12, <1>13, <1>14, <1>15, <1>16, <1>17, ProxyRetains

\* The ids a window contains are those of its packets.
LEMMA SlotRaws ==
  ASSUME NEW w, w \in Windows(Raws(w.c2b), Raws(w.b2c)), NEW id
  PROVE  vec_contains(w.c2b, id) <=> \E r \in Raws(w.c2b) : r.id = id
<1>1. w.c2b \in Vectors(C2BStates, Raws(w.c2b))
  BY DEF Windows
<1>2. QED
  BY <1>1, EntryIds

\* A broker packet that is passed on: an acknowledgement that ends a handshake takes the
\* entry of its id out of the window and is on its way to the client instead.
LEMMA ForwardBrokerRetains ==
  ASSUME TypeOK, StreamsOK', QosInv, FreshInv, KeptInv, MovesOnly, PeersKept, ForwardBrokerPacket
  PROVE  FreshInv' /\ KeptInv'
<1>0. PICK p, w : p = Head(b2p) /\ w = windows
  OBVIOUS
<1>1. /\ StreamsOK /\ phase = "connected" /\ b2p # << >>
      /\ UNCHANGED <<c2p, p2b, buffer, snap, phase>>
      /\ \/ p2c' = p2c /\ windows' = w
         \/ p2c' = Append(p2c, p) /\ windows' = track_b2c(w, p)
  BY <1>0 DEF TypeOK, ForwardBrokerPacket
<1>2. /\ IsSeq(p2c) /\ IsSeq(b2p) /\ w \in Windows(Raws(w.c2b), Raws(w.b2c))
      /\ windows' \in Windows(Raws(windows'.c2b), Raws(windows'.b2c))
  BY <1>0, <1>1 DEF StreamsOK
<1>3. Range(Append(p2c, p)) = Range(p2c) \cup {p}
  BY <1>2, AppendElements
<1>4. Range(p2c) \subseteq Range(p2c')
  BY <1>1, <1>3
<1>5. CASE windows'.c2b = w.c2b
  BY <1>0, <1>1, <1>4, <1>5, PlainRetains
<1>6. CASE windows'.c2b # w.c2b
  <2>1. /\ p.type \in {"PUBACK", "PUBCOMP"} => Raws(track_b2c(w, p).c2b) = Others(Raws(w.c2b), p.id)
        /\ p.type \notin {"PUBACK", "PUBCOMP"} => track_b2c(w, p).c2b = w.c2b
    BY <1>2, TrackRaws
  <2>2. /\ p.type = "PUBACK" \/ p.type = "PUBCOMP"
        /\ Raws(windows'.c2b) = Others(Raws(w.c2b), p.id) /\ p \in Range(p2c')
    BY <1>1, <1>3, <1>6, <2>1
  <2>3. /\ p.type = "PUBACK" /\ cOut[p.id].st \in {"pub", "rel"} => ClientQoS[cOut[p.id].body] = 1
        /\ p.type = "PUBCOMP" => cOut[p.id].st # "pub"
    <3>1. p \in ClientBound
      BY <1>0, <1>1, <1>2, TailElements DEF ClientBound, ToClient
    <3>2. QED
      BY <3>1 DEF QosInv, QosAnswer
  <2>4. Unsent' = Unsent /\ FromClient' = FromClient
    BY <1>1 DEF Unsent, FromClient
  <2>5. \A r \in Raws(windows'.c2b) : r \in Raws(w.c2b)
    BY <2>2 DEF Others
  <2>6. \A r \in Raws(w.c2b) : r.id # p.id => r \in Raws(windows'.c2b)
    BY <2>2 DEF Others
  <2>7. ASSUME NEW id \in Ids, cOut[id].st = "pub",
               Has(Unsent \cup Raws(windows.c2b), {"PUBLISH"}, id)
        PROVE  \/ Has(Unsent' \cup Raws(windows'.c2b), {"PUBLISH"}, id)
               \/ Has(Range(p2c'), {"PUBACK"}, id)
    <3>1. CASE p.id = id
      BY <2>2, <2>3, <2>7, <3>1 DEF Has
    <3>2. CASE p.id # id
      BY <1>0, <2>4, <2>6, <2>7, <3>2 DEF Has
    <3>3. QED
      BY <3>1, <3>2
  <2>8. ASSUME NEW id \in Ids, cOut[id].st = "rel", vec_contains(windows.c2b, id),
               Has(Unsent \cup Raws(windows.c2b), {"PUBREL"}, id)
        PROVE  \/ /\ vec_contains(windows'.c2b, id)
                  /\ Has(Unsent' \cup Raws(windows'.c2b), {"PUBREL"}, id)
               \/ Has(Range(p2c'), {"PUBCOMP"}, id)
    <3>1. CASE p.id = id
      <4>1. ClientQoS[cOut[id].body] = 2
        BY <2>8 DEF QosInv
      <4>2. p.type = "PUBCOMP"
        BY <2>2, <2>3, <2>8, <3>1, <4>1
      <4>3. QED
        BY <2>2, <3>1, <4>2 DEF Has
    <3>2. CASE p.id # id
      <4>1. PICK o \in Raws(w.c2b) : o.id = id
        BY <1>0, <1>2, <2>8, SlotRaws
      <4>2. vec_contains(windows'.c2b, id)
        BY <1>2, <2>6, <3>2, <4>1, SlotRaws
      <4>3. QED
        BY <1>0, <2>4, <2>6, <2>8, <3>2, <4>2 DEF Has
    <3>3. QED
      BY <3>1, <3>2
  <2>9. \A id : Has(Range(p2b') \cup Raws(windows'.c2b), {"PUBLISH"}, id)
                => Has(Range(p2b) \cup Raws(windows.c2b), {"PUBLISH"}, id)
    BY <1>0, <1>1, <2>5 DEF Has
  <2>10. Once(snap'.client_buf \o c2p')
    BY <1>1 DEF FreshInv
  <2>11. \A id \in Ids : ~ (Has(FromClient', {"PUBLISH"}, id) /\ Has(Range(buffer'), {"PUBLISH"}, id))
    BY <1>1, <2>4 DEF FreshInv
  <2>12. QED
    BY <1>1, <1>4, <2>4, <2>7, <2>8, <2>9, <2>10, <2>11, ProxyRetains
<1>7. QED
  BY <1>5, <1>6

\* A client packet during an outage: what continues a handshake is withheld, or does not
\* fit and ends the session.
LEMMA OutageRetains ==
  ASSUME TypeOK, QosInv, FreshInv, KeptInv, MovesOnly, PeersKept, service_outage_packet
  PROVE  FreshInv' /\ KeptInv'
<1>0. PICK p, w : p = Head(c2p) /\ w = windows
  OBVIOUS
<1>1. /\ StreamsOK /\ phase = "outage" /\ c2p # << >> /\ c2p' = Tail(c2p)
      /\ UNCHANGED <<p2b, snap>> /\ p2c' = p2c \o LocalAnswer(p)
      /\ \/ windows' = w
         \/ windows' = track_c2b(w, p) /\ p.type \in {"PUBACK", "PUBREC", "PUBCOMP"}
      /\ buffer' = buffer \/ buffer' = Append(buffer, p)
      /\ phase' # "ended" /\ (p.type = "PUBREL" \/ (p.type = "PUBLISH" /\ p.qos > 0)) =>
           buffer' = Append(buffer, p)
  BY <1>0 DEF TypeOK, service_outage_packet, Push, End
<1>2. /\ IsSeq(p2c) /\ IsSeq(buffer) /\ snap.client_buf = << >>
      /\ w \in Windows(Raws(w.c2b), Raws(w.b2c))
  BY <1>0, <1>1 DEF StreamsOK, NoSnap
<1>3. /\ FromClient = Range(c2p) /\ Once(Tail(c2p)) /\ IsSeq(Tail(c2p))
      /\ Range(c2p) = {p} \cup Range(Tail(c2p)) /\ p \in Range(c2p)
      /\ p.type = "PUBLISH" /\ p.id # NoId => ~ Has(Range(Tail(c2p)), {"PUBLISH"}, p.id)
  <2>1. Once(snap.client_buf \o c2p)
    BY DEF FreshInv
  <2>2. QED
    BY <1>0, <1>1, <2>1, HeadOnce
<1>4. Range(p2c) \subseteq Range(p2c')
  BY <1>1, <1>2, LocalAnswerIs, ConcatElements
<1>5. windows'.c2b = w.c2b
  <2>1. ~ Enters(p, w.c2b) => track_c2b(w, p).c2b = w.c2b
    BY <1>2, TrackRaws
  <2>2. p.type \in {"PUBACK", "PUBREC", "PUBCOMP"} => ~ Enters(p, w.c2b)
    BY DEF Enters
  <2>3. QED
    BY <1>1, <2>1, <2>2
<1>6. /\ FromClient' = Range(Tail(c2p)) /\ snap'.client_buf \o c2p' = Tail(c2p)
  <2>1. Range(<< >>) = {} /\ snap'.client_buf = << >> /\ Tail(c2p) \in Seq(Range(Tail(c2p)))
    BY <1>1, <1>2, <1>3, ShortSeqs DEF IsSeq
  <2>2. << >> \o Tail(c2p) = Tail(c2p)
    BY <2>1
  <2>3. QED
    BY <1>1, <2>1, <2>2 DEF FromClient
<1>7. Unsent' = FromClient' \cup Range(buffer') /\ Unsent = FromClient \cup Range(buffer)
  BY DEF Unsent
<1>8. /\ \A q \in Range(buffer') : q \in Range(buffer) \/ q = p
      /\ \A q \in Range(buffer) : q \in Range(buffer')
      /\ phase' # "ended" /\ (p.type = "PUBREL" \/ (p.type = "PUBLISH" /\ p.qos > 0)) =>
           p \in Range(buffer')
  <2>1. Range(Append(buffer, p)) = Range(buffer) \cup {p}
    BY <1>2, AppendElements
  <2>2. QED
    BY <1>1, <2>1
<1>9. p.type = "PUBLISH" /\ p.id # NoId => p.qos > 0
  <2>1. p \in BrokerBound
    BY <1>3 DEF BrokerBound
  <2>2. QED
    BY <2>1 DEF QosInv, QosFlow
<1>10. \A id \in Ids : id # NoId
  BY EndpointsAssumption DEF Ids, NoId
<1>11. \A q \in Unsent' : q \in Unsent
  BY <1>3, <1>6, <1>7, <1>8
<1>12. \A id \in Ids : ~ (Has(FromClient', {"PUBLISH"}, id) /\ Has(Range(buffer'), {"PUBLISH"}, id))
  <2>1. ASSUME NEW id \in Ids, Has(FromClient', {"PUBLISH"}, id), Has(Range(buffer'), {"PUBLISH"}, id)
        PROVE  FALSE
    <3>1. Has(FromClient, {"PUBLISH"}, id)
      BY <1>3, <1>6, <2>1 DEF Has
    <3>2. ~ Has(Range(buffer), {"PUBLISH"}, id)
      BY <3>1 DEF FreshInv
    <3>3. p.type = "PUBLISH" /\ p.id = id
      BY <1>8, <2>1, <3>2 DEF Has
    <3>4. QED
      BY <1>3, <1>6, <1>10, <2>1, <3>3
  <2>2. QED
    BY <2>1
<1>13. ASSUME phase' # "ended", NEW id \in Ids, NEW q \in Unsent \cup Raws(w.c2b), q.id = id,
              q.type = "PUBLISH" \/ q.type = "PUBREL"
       PROVE  q \in Unsent' \cup Raws(windows'.c2b)
  <2>1. CASE q = p
    BY <1>7, <1>8, <1>9, <1>10, <1>13, <2>1
  <2>2. CASE q # p
    BY <1>3, <1>5, <1>6, <1>7, <1>8, <1>13, <2>2
  <2>3. QED
    BY <2>1, <2>2
<1>14. ASSUME phase' # "ended", NEW id \in Ids, NEW type \in {"PUBLISH", "PUBREL"},
              Has(Unsent \cup Raws(windows.c2b), {type}, id)
       PROVE  Has(Unsent' \cup Raws(windows'.c2b), {type}, id)
  BY <1>0, <1>13, <1>14 DEF Has
<1>15. \A id : Has(Range(p2b') \cup Raws(windows'.c2b), {"PUBLISH"}, id)
               => Has(Range(p2b) \cup Raws(windows.c2b), {"PUBLISH"}, id)
  BY <1>0, <1>1, <1>5
<1>16. \A id : vec_contains(windows'.c2b, id) <=> vec_contains(windows.c2b, id)
  BY <1>0, <1>5
<1>17. Once(snap'.client_buf \o c2p') /\ phase # "ended"
  BY <1>1, <1>3, <1>6
<1>18. QED
  BY <1>4, <1>11, <1>12, <1>14, <1>15, <1>16, <1>17, ProxyRetains

\* The replay: the flushed buffer takes the slots of its ids in the window, a PUBLISH
\* never that of a released message and a PUBREL never that of an unreleased one.
LEMMA ReplayRetains ==
  ASSUME TypeOK, StreamsOK', QosInv, FreshInv, KeptInv, MovesOnly, PeersKept, Replay
  PROVE  FreshInv' /\ KeptInv'
<1>0. PICK w, C, B, again, more :
        /\ w = windows /\ C = Raws(windows.c2b) /\ B = Raws(windows.b2c)
        /\ again = broker_retransmits(windows) /\ more = client_retransmits(windows)
  OBVIOUS
<1>1. /\ StreamsOK /\ phase = "replay" /\ UNCHANGED <<c2p, snap>> /\ buffer' = << >>
      /\ p2c' = p2c \o leftover \o more
      /\ p2b' = p2b \/ p2b' = p2b \o (again \o buffer)
      /\ windows' = flush(w, buffer)
  BY <1>0 DEF TypeOK, Replay, BrokerWrites
<1>2. /\ IsSeq(p2c) /\ IsSeq(leftover) /\ IsSeq(p2b) /\ IsSeq(buffer)
      /\ w \in Windows(C, B) /\ C = Raws(w.c2b) /\ B = Raws(w.b2c)
      /\ windows' \in Windows(Raws(windows'.c2b), Raws(windows'.b2c))
  BY <1>0, <1>1 DEF StreamsOK
<1>3. /\ IsSeq(again) /\ \A p \in Range(again) : \E q \in C : p = q \/ p = with_dup(q)
      /\ IsSeq(more)
  BY <1>0, <1>2, BrokerRetransmits, ClientRetransmits
<1>4. Range(p2c) \subseteq Range(p2c')
  <2>1. IsSeq(p2c \o leftover) /\ Range(p2c \o leftover) = Range(p2c) \cup Range(leftover)
    BY <1>2, ConcatElements
  <2>2. Range((p2c \o leftover) \o more) = Range(p2c \o leftover) \cup Range(more)
    BY <1>3, <2>1, ConcatElements
  <2>3. QED
    BY <1>1, <2>1, <2>2
<1>5. \A p \in Range(p2b') : \/ p \in Range(p2b) \/ p \in Range(buffer)
                             \/ \E q \in C : p = q \/ p = with_dup(q)
  <2>1. IsSeq(again \o buffer) /\ Range(again \o buffer) = Range(again) \cup Range(buffer)
    BY <1>2, <1>3, ConcatElements
  <2>2. Range(p2b \o (again \o buffer)) = Range(p2b) \cup Range(again \o buffer)
    BY <1>2, <2>1, ConcatElements
  <2>3. QED
    BY <1>1, <1>3, <2>1, <2>2
<1>6. \A p \in Raws(windows'.c2b) : p \in C \/ p \in Range(buffer)
  <2>1. windows' \in Windows(C \cup Range(buffer), B)
    BY <1>1, <1>2, FlushKeeps
  <2>2. QED
    BY <2>1, WindowsRaws
<1>7. FromClient' = FromClient /\ Unsent' = FromClient /\ Range(buffer') = {}
      /\ Unsent = FromClient \cup Range(buffer)
  BY <1>1, ShortSeqs DEF FromClient, Unsent
<1>8. ASSUME NEW id \in Ids, Has(Unsent', {"PUBLISH"}, id),
             Has(Range(p2b') \cup Raws(windows'.c2b), {"PUBLISH"}, id)
      PROVE  Has(Range(p2b) \cup Raws(windows.c2b), {"PUBLISH"}, id)
  <2>1. ~ Has(Range(buffer), {"PUBLISH"}, id)
    BY <1>7, <1>8 DEF FreshInv
  <2>2. \A q : with_dup(q).type = q.type /\ with_dup(q).id = q.id
    BY DEF with_dup, Packet
  <2>3. PICK p \in Range(p2b') \cup Raws(windows'.c2b) : p.type = "PUBLISH" /\ p.id = id
    BY <1>8 DEF Has
  <2>4. p \notin Range(buffer)
    BY <2>1, <2>3 DEF Has
  <2>5. PICK q \in Range(p2b) \cup C : q.type = p.type /\ q.id = p.id
    BY <1>5, <1>6, <2>2, <2>3, <2>4
  <2>6. QED
    BY <1>0, <2>3, <2>5 DEF Has
<1>9. ASSUME NEW id \in Ids
      PROVE  \/ \E r \in Raws(windows'.c2b) :
                  r \in Range(buffer) /\ r.type \in {"PUBLISH", "PUBREL"} /\ r.id = id
             \/ /\ \A p \in Range(buffer) : p.type \in {"PUBLISH", "PUBREL"} => p.id # id
                /\ \A r \in C : r.id = id => r \in Raws(windows'.c2b)
  BY <1>1, <1>2, FlushRaws
<1>10. \A r \in Range(buffer) : r.type = "PUBREL" => cOut[r.id].st # "pub"
  BY DEF QosInv, QosFlow, BrokerBound
<1>11. \A r \in Range(buffer) : r.type = "PUBLISH" /\ r.id \in Ids => cOut[r.id].st # "rel"
  BY <1>7 DEF FreshInv, Has
<1>12. ASSUME NEW id \in Ids, cOut[id].st = "pub",
              Has(Unsent \cup Raws(windows.c2b), {"PUBLISH"}, id)
       PROVE  Has(Unsent' \cup Raws(windows'.c2b), {"PUBLISH"}, id)
  <2>1. CASE \E r \in Raws(windows'.c2b) :
               r \in Range(buffer) /\ r.type \in {"PUBLISH", "PUBREL"} /\ r.id = id
    BY <1>10, <1>12, <2>1 DEF Has
  <2>2. CASE /\ \A p \in Range(buffer) : p.type \in {"PUBLISH", "PUBREL"} => p.id # id
             /\ \A r \in C : r.id = id => r \in Raws(windows'.c2b)
    BY <1>0, <1>7, <1>12, <2>2 DEF Has
  <2>3. QED
    BY <1>9, <2>1, <2>2
<1>13. ASSUME NEW id \in Ids, cOut[id].st = "rel", vec_contains(windows.c2b, id),
              Has(Unsent \cup Raws(windows.c2b), {"PUBREL"}, id)
       PROVE  /\ vec_contains(windows'.c2b, id)
              /\ Has(Unsent' \cup Raws(windows'.c2b), {"PUBREL"}, id)
  <2>1. CASE \E r \in Raws(windows'.c2b) :
               r \in Range(buffer) /\ r.type \in {"PUBLISH", "PUBREL"} /\ r.id = id
    <3>1. PICK r \in Raws(windows'.c2b) :
               r \in Range(buffer) /\ r.type \in {"PUBLISH", "PUBREL"} /\ r.id = id
      BY <2>1
    <3>2. r.type = "PUBREL"
      BY <1>11, <1>13, <3>1
    <3>3. vec_contains(windows'.c2b, id)
      BY <1>2, <3>1, SlotRaws
    <3>4. QED
      BY <3>1, <3>2, <3>3 DEF Has
  <2>2. CASE /\ \A p \in Range(buffer) : p.type \in {"PUBLISH", "PUBREL"} => p.id # id
             /\ \A r \in C : r.id = id => r \in Raws(windows'.c2b)
    <3>1. PICK o \in C : o.id = id
      BY <1>0, <1>2, <1>13, SlotRaws
    <3>2. vec_contains(windows'.c2b, id)
      BY <1>2, <2>2, <3>1, SlotRaws
    <3>3. Has(Unsent' \cup Raws(windows'.c2b), {"PUBREL"}, id)
      BY <1>0, <1>7, <1>13, <2>2 DEF Has
    <3>4. QED
      BY <3>2, <3>3
  <2>3. QED
    BY <1>9, <2>1, <2>2
<1>14. \A q \in Unsent' : q \in Unsent
  BY <1>7
<1>15. Once(snap'.client_buf \o c2p') /\ phase # "ended"
  BY <1>1 DEF FreshInv
<1>16. \A id \in Ids : ~ (Has(FromClient', {"PUBLISH"}, id) /\ Has(Range(buffer'), {"PUBLISH"}, id))
  BY <1>7 DEF Has
<1>17. QED
  BY <1>4, <1>8, <1>12, <1>13, <1>14, <1>15, <1>16, ProxyRetains

\* A stream that is cut in two and put together again is the same.
LEMMA CutSeq ==
  ASSUME NEW s, IsSeq(s), NEW i \in 0..Len(s)
  PROVE  SubSeq(s, 1, i) \o SubSeq(s, i + 1, Len(s)) = s
<1>0. PICK S, n, a, b :
        S = Range(s) /\ n = Len(s) /\ a = SubSeq(s, 1, i) /\ b = SubSeq(s, i + 1, n)
  OBVIOUS
<1>1. s \in Seq(S) /\ n \in Nat /\ i \in Nat /\ i <= n
  BY <1>0, SeqPlaces DEF IsSeq
<1>2. a \in Seq(S) /\ Len(a) = i /\ \A k \in 1..i : a[k] = s[k]
  BY <1>0, <1>1
<1>3. b \in Seq(S) /\ Len(b) = n - i /\ \A k \in 1..(n - i) : b[k] = s[i + k]
  BY <1>0, <1>1
<1>4. a \o b \in Seq(S) /\ Len(a \o b) = i + (n - i)
  BY <1>2, <1>3, ConcatProperties
<1>5. \A k \in 1..i : (a \o b)[k] = a[k]
  BY <1>2, <1>3
<1>6. \A k \in 1..(n - i) : (a \o b)[i + k] = b[k]
  BY <1>2, <1>3
<1>7. ASSUME NEW k \in 1..n PROVE (a \o b)[k] = s[k]
  <2>1. CASE k <= i
    BY <1>1, <1>2, <1>5, <2>1
  <2>2. CASE ~ (k <= i)
    <3>1. k - i \in 1..(n - i) /\ i + (k - i) = k
      BY <1>1, <2>2
    <3>2. QED
      BY <1>3, <1>6, <3>1
  <2>3. QED
    BY <2>1, <2>2
<1>8. Len(a \o b) = n
  BY <1>1, <1>4
<1>9. a \o b = s
  <2>0. PICK t : t = a \o b
    OBVIOUS
  <2>1. t \in Seq(S) /\ Len(t) = n /\ \A k \in 1..n : t[k] = s[k]
    BY <1>4, <1>7, <1>8, <2>0
  <2>2. t = s
    BY <1>0, <1>1, <2>1, SeqEqual
  <2>3. QED
    BY <2>0, <2>2
<1>10. QED
  BY <1>0, <1>9

\* A freeze and both ways out of it keep the client's stream, the windows and the buffer.
LEMMA FreezeRetains ==
  ASSUME TypeOK, StreamsOK', FreshInv, KeptInv, MovesOnly, PeersKept,
         Freeze \/ ResumeSession \/ adopt_session
  PROVE  FreshInv' /\ KeptInv'
<1>1. /\ IsSeq(c2p) /\ IsSeq(snap.client_buf) /\ IsSeq(c2p') /\ IsSeq(snap'.client_buf)
      /\ phase # "frozen" => snap.client_buf = << >>
      /\ phase' # "frozen" => snap'.client_buf = << >>
  BY DEF TypeOK, StreamsOK, NoSnap
<1>2. \A s : IsSeq(s) => << >> \o s = s
  BY DEF IsSeq
<1>3. snap'.client_buf \o c2p' = snap.client_buf \o c2p
  <2>1. CASE Freeze
    <3>1. PICK i \in 0..Len(c2p) :
            snap'.client_buf = SubSeq(c2p, 1, i) /\ c2p' = SubSeq(c2p, i + 1, Len(c2p))
      BY <2>1 DEF Freeze
    <3>2. phase # "frozen"
      BY <2>1 DEF Freeze
    <3>3. snap'.client_buf \o c2p' = c2p
      BY <1>1, <3>1, CutSeq
    <3>4. QED
      BY <1>1, <1>2, <3>2, <3>3
  <2>2. CASE ResumeSession \/ adopt_session
    <3>1. c2p' = snap.client_buf \o c2p /\ phase' # "frozen"
      BY <2>2 DEF ResumeSession, adopt_session, Restored
    <3>2. QED
      BY <1>1, <1>2, <3>1
  <2>3. QED
    BY <2>1, <2>2
<1>4. FromClient' = FromClient
  <2>1. /\ Range(snap.client_buf \o c2p) = Range(snap.client_buf) \cup Range(c2p)
        /\ Range(snap'.client_buf \o c2p') = Range(snap'.client_buf) \cup Range(c2p')
    BY <1>1, ConcatElements
  <2>2. QED
    BY <1>3, <2>1 DEF FromClient
<1>5. UNCHANGED <<windows, buffer, p2c>>
  BY ThawMoves DEF Freeze
<1>6. phase # "ended" /\ (p2b' = p2b \/ p2b' = << >>)
  BY DEF Freeze, ResumeSession, adopt_session, DropBroker
<1>7. \A p \in Range(p2b') : p \in Range(p2b) \/ p.type \notin QosTypes
  BY <1>6, ShortSeqs
<1>8. QED
  BY <1>3, <1>4, <1>5, <1>6, <1>7, StreamRetains

\* Every step of the proxy.
LEMMA ProxyKeepsRetained ==
  ASSUME TypeOK, RetainInv, Proxy
  PROVE  RetainInv'
<1>1. QosInv /\ FreshInv /\ KeptInv
  BY DEF RetainInv
<1>2. StreamsOK' /\ MovesOnly
  BY ProxyStep
<1>3. PeersKept
  BY ProxyKeepsPeers
<1>4. QosInv'
  BY <1>1, <1>2, <1>3, MovesKeepQos
<1>5. FreshInv' /\ KeptInv'
  BY <1>1, <1>2, <1>3, ConnectionRetains, ForwardClientRetains, ForwardBrokerRetains,
     OutageRetains, ReplayRetains, FreezeRetains, Zenon DEF Proxy
<1>6. QED
  BY <1>4, <1>5 DEF RetainInv

----------------------------------------------------------------------------
(* The steps of the peers.                                                 *)

\* One more packet at the end of the client's stream.
LEMMA AppendBehind ==
  ASSUME NEW s, IsSeq(s), NEW t, IsSeq(t), NEW p
  PROVE  s \o Append(t, p) = Append(s \o t, p)
<1>0. PICK S : S = Range(s) \cup Range(t) \cup {p}
  OBVIOUS
<1>1. s \in Seq(S) /\ t \in Seq(S) /\ <<p>> \in Seq(S)
  <2>1. \A i \in 1..Len(s) : s[i] \in S
    BY <1>0, SeqPlaces
  <2>2. \A i \in 1..Len(t) : t[i] \in S
    BY <1>0, SeqPlaces
  <2>3. QED
    BY <1>0, <2>1, <2>2 DEF IsSeq
<1>2. (s \o t) \o <<p>> = s \o (t \o <<p>>)
  BY <1>1, ConcatAssociative
<1>3. s \o t \in Seq(S)
  BY <1>1, ConcatProperties
<1>4. \A u \in Seq(S) : Append(u, p) = u \o <<p>>
  BY <1>0, AppendIsConcat
<1>5. QED
  BY <1>1, <1>2, <1>3, <1>4

LEMMA OnceMore ==
  ASSUME NEW s, IsSeq(s), Once(s), NEW p,
         p.type # "PUBLISH" \/ p.id = NoId \/ ~ Has(Range(s), {"PUBLISH"}, p.id)
  PROVE  Once(Append(s, p))
<1>0. PICK n, t : n = Len(s) /\ t = Append(s, p)
  OBVIOUS
<1>1. n \in Nat /\ DOMAIN s = 1..n /\ \A i \in 1..n : s[i] \in Range(s)
  BY <1>0, SeqPlaces
<1>2. DOMAIN t = 1..(n + 1) /\ t[n + 1] = p /\ \A i \in 1..n : t[i] = s[i]
  <2>1. s \in Seq(Range(s) \cup {p})
    BY <1>0, <1>1, SeqOver DEF IsSeq
  <2>2. QED
    BY <1>0, <2>1
<1>3. ASSUME NEW i \in 1..(n + 1), NEW j \in 1..(n + 1), t[i].type = "PUBLISH",
             t[j].type = "PUBLISH", t[i].id = t[j].id, t[i].id # NoId
      PROVE  i = j
  <2>1. (i \in 1..n \/ i = n + 1) /\ (j \in 1..n \/ j = n + 1)
    BY <1>1
  <2>2. CASE i \in 1..n /\ j \in 1..n
    BY <1>1, <1>2, <1>3, <2>2 DEF Once
  <2>3. CASE i = n + 1 /\ j \in 1..n
    BY <1>1, <1>2, <1>3, <2>3 DEF Has
  <2>4. CASE i \in 1..n /\ j = n + 1
    BY <1>1, <1>2, <1>3, <2>4 DEF Has
  <2>5. CASE i = n + 1 /\ j = n + 1
    BY <2>5
  <2>6. QED
    BY <2>1, <2>2, <2>3, <2>4, <2>5
<1>4. Once(t)
  BY <1>2, <1>3 DEF Once
<1>5. QED
  BY <1>0, <1>4

\* What a step may do to an id of the client: nothing, with the answer that ends its
\* handshake still on the way if it was; end it; or release it, when the broker was
\* told of the message before and the window has its slot.
Holds(id) ==
  /\ cOut'[id].st = cOut[id].st /\ cOut'[id].body = cOut[id].body
  /\ cOut[id].st = "pub" /\ Has(Range(p2c), {"PUBACK"}, id) => Has(Range(p2c'), {"PUBACK"}, id)
  /\ cOut[id].st = "rel" /\ Has(Range(p2c), {"PUBCOMP"}, id) => Has(Range(p2c'), {"PUBCOMP"}, id)

Ends(id) == cOut'[id].st # "pub" /\ cOut'[id].st # "rel"

Releases(id) ==
  /\ cOut[id].st = "pub" /\ cOut'[id].st = "rel" /\ cOut'[id].body = cOut[id].body
  /\ ClientQoS[cOut[id].body] = 2
  /\ ~ Has(Unsent, {"PUBLISH"}, id) /\ vec_contains(windows.c2b, id)
  /\ Has(Range(c2p'), {"PUBREL"}, id)

\* Steps of a peer that publish nothing with an id.
LEMMA PeerRetains ==
  ASSUME IInv, RetainInv, UNCHANGED proxyVars, phase # "ended", NEW r,
         \/ c2p' = c2p
         \/ c2p' = Append(c2p, r) /\ QosFlow(r)' /\ (r.type # "PUBLISH" \/ r.id = NoId),
         \A p \in Range(p2b') : p \in Range(p2b),
         \A p \in ClientBound' :
           \/ p \in ClientBound
           \/ QosAnswer(p)' /\ (p.type = "PUBREC" => ~ Has(Unsent, {"PUBLISH"}, p.id)),
         \A id \in Ids : Holds(id) \/ Ends(id) \/ Releases(id)
  PROVE  RetainInv'
<1>1. /\ QosInv /\ FreshInv /\ KeptInv /\ IsSeq(c2p) /\ IsSeq(snap.client_buf)
      /\ cIds \in 0..MaxId /\ MaxId \in Nat /\ Ids = 1..MaxId /\ NoId = 0
      /\ \A p \in BrokerBound : ClientFlow(p)
      /\ \A p \in ClientBound : ClientAnswer(p)
  BY EndpointsAssumption DEF RetainInv, IInv, TypeOK, StreamsOK, AckInv, Ids, NoId
<1>2. UNCHANGED <<phase, windows, buffer, snap>>
  BY DEF proxyVars
<1>3. /\ \A p \in Range(c2p') : p \in Range(c2p) \/ (p = r /\ c2p' = Append(c2p, r))
      /\ \A p \in Range(c2p) : p \in Range(c2p')
  <2>1. Range(Append(c2p, r)) = Range(c2p) \cup {r}
    BY <1>1, AppendElements
  <2>2. QED
    BY <2>1
<1>4. /\ \A p \in FromClient' : p \in FromClient \/ (p = r /\ c2p' = Append(c2p, r))
      /\ \A p \in FromClient : p \in FromClient'
      /\ \A p \in Range(c2p') : p \in FromClient'
  BY <1>2, <1>3 DEF FromClient
<1>5. \A p \in BrokerBound' : p \in BrokerBound \/ (p = r /\ c2p' = Append(c2p, r))
  BY <1>2, <1>4 DEF BrokerBound
<1>6. \A id \in Ids : cOut'[id].st = "pub" => cOut[id].st = "pub"
  BY DEF Holds, Ends, Releases
<1>7. \A id \in Ids : cOut'[id].st \in {"pub", "rel"} =>
                        cOut[id].st \in {"pub", "rel"} /\ cOut'[id].body = cOut[id].body
  BY DEF Holds, Ends, Releases
<1>8. QosInv'
  <2>1. ASSUME NEW p \in BrokerBound PROVE QosFlow(p)'
    <3>1. p.type = "PUBREL" => p.id \in Ids
      BY <1>1 DEF ClientFlow
    <3>2. QED
      BY <1>1, <1>6, <3>1 DEF QosInv, QosFlow
  <2>2. ASSUME NEW p \in ClientBound PROVE QosAnswer(p)'
    <3>1. p.type \in {"PUBACK", "PUBCOMP"} => p.id \in Ids
      BY <1>1 DEF ClientAnswer
    <3>2. QosAnswer(p)
      BY <1>1 DEF QosInv
    <3>3. QED
      BY <1>6, <1>7, <3>1, <3>2 DEF QosAnswer
  <2>3. \A id \in Ids : cOut'[id].st = "rel" => ClientQoS[cOut'[id].body] = 2
    BY <1>1 DEF QosInv, Holds, Ends, Releases
  <2>4. \A p \in BrokerBound' : QosFlow(p)'
    BY <1>5, <2>1
  <2>5. \A p \in ClientBound' : QosAnswer(p)'
    BY <2>2
  <2>6. QED
    BY <2>3, <2>4, <2>5 DEF QosInv
<1>9. /\ \A p \in Unsent' : p \in Unsent \/ (p = r /\ c2p' = Append(c2p, r))
      /\ \A p \in Unsent : p \in Unsent'
      /\ \A p \in FromClient' : p \in Unsent'
  BY <1>2, <1>4 DEF Unsent
<1>10. \A id \in Ids : id # NoId
  BY <1>1
<1>11. \A id \in Ids : /\ Has(Unsent', {"PUBLISH"}, id) => Has(Unsent, {"PUBLISH"}, id)
                       /\ Has(FromClient', {"PUBLISH"}, id) => Has(FromClient, {"PUBLISH"}, id)
  BY <1>4, <1>9, <1>10 DEF Has
<1>12. Once(snap'.client_buf \o c2p')
  <2>0. PICK s : s = snap.client_buf \o c2p
    OBVIOUS
  <2>1. Once(s) /\ IsSeq(s)
    BY <1>1, <2>0, ConcatElements DEF FreshInv
  <2>2. CASE c2p' = c2p
    BY <1>2, <2>0, <2>1, <2>2
  <2>3. CASE c2p' = Append(c2p, r) /\ (r.type # "PUBLISH" \/ r.id = NoId)
    <3>1. snap.client_buf \o Append(c2p, r) = Append(s, r)
      <4>1. \A x, y : IsSeq(x) /\ IsSeq(y) => x \o Append(y, r) = Append(x \o y, r)
        BY AppendBehind
      <4>2. snap.client_buf \o Append(c2p, r) = Append(snap.client_buf \o c2p, r)
        BY <1>1, <4>1, Zenon
      <4>3. QED
        BY <2>0, <4>2, Zenon
    <3>2. Once(Append(s, r))
      BY <2>1, <2>3, OnceMore
    <3>3. QED
      BY <1>2, <2>3, <3>1, <3>2
  <2>4. QED
    BY <2>2, <2>3
<1>13. FreshInv'
  <2>1. ASSUME NEW id \in Ids, Has(Unsent', {"PUBLISH"}, id)
        PROVE  /\ cOut'[id].st # "rel"
               /\ ~ Has(Range(p2b') \cup Raws(windows'.c2b), {"PUBLISH"}, id)
               /\ ~ Has(ClientBound', {"PUBREC"}, id)
    <3>1. /\ Has(Unsent, {"PUBLISH"}, id) /\ cOut[id].st # "rel"
          /\ ~ Has(Range(p2b) \cup Raws(windows.c2b), {"PUBLISH"}, id)
          /\ ~ Has(ClientBound, {"PUBREC"}, id)
      BY <1>1, <1>11, <2>1 DEF FreshInv
    <3>2. cOut'[id].st # "rel"
      BY <3>1 DEF Holds, Ends, Releases
    <3>3. ~ Has(Range(p2b') \cup Raws(windows'.c2b), {"PUBLISH"}, id)
      BY <1>2, <3>1 DEF Has
    <3>4. ~ Has(ClientBound', {"PUBREC"}, id)
      BY <3>1 DEF Has
    <3>5. QED
      BY <3>2, <3>3, <3>4
  <2>2. \A id \in Ids : ~ (Has(FromClient', {"PUBLISH"}, id) /\ Has(Range(buffer'), {"PUBLISH"}, id))
    BY <1>1, <1>2, <1>11 DEF FreshInv
  <2>3. QED
    BY <1>12, <2>1, <2>2 DEF FreshInv
<1>14. KeptInv'
  <2>1. ASSUME NEW id \in Ids
        PROVE  /\ cOut'[id].st = "pub" => \/ Has(Unsent' \cup Raws(windows'.c2b), {"PUBLISH"}, id)
                                          \/ Has(Range(p2c'), {"PUBACK"}, id)
               /\ cOut'[id].st = "rel" => \/ /\ vec_contains(windows'.c2b, id)
                                             /\ Has(Unsent' \cup Raws(windows'.c2b), {"PUBREL"}, id)
                                          \/ Has(Range(p2c'), {"PUBCOMP"}, id)
    <3>1. \A types : Has(Unsent \cup Raws(windows.c2b), types, id) =>
                       Has(Unsent' \cup Raws(windows'.c2b), types, id)
      BY <1>2, <1>9 DEF Has
    <3>2. CASE Holds(id)
      BY <1>1, <1>2, <3>1, <3>2 DEF KeptInv, Holds
    <3>3. CASE Ends(id)
      BY <3>3 DEF Ends
    <3>4. CASE Releases(id)
      <4>1. Has(Unsent' \cup Raws(windows'.c2b), {"PUBREL"}, id)
        BY <1>4, <1>9, <3>4 DEF Releases, Has
      <4>2. QED
        BY <1>2, <3>4, <4>1 DEF Releases
    <3>5. QED
      BY <3>2, <3>3, <3>4
  <2>2. QED
    BY <2>1 DEF KeptInv
<1>15. QED
  BY <1>8, <1>13, <1>14 DEF RetainInv

\* Steps of the broker touch the client only through what they answer.
LEMMA BrokerRetains ==
  ASSUME IInv, RetainInv, UNCHANGED proxyVars, phase # "ended", UNCHANGED <<c2p, p2c, cOut>>,
         \A p \in Range(p2b') : p \in Range(p2b),
         \A p \in ClientBound' :
           \/ p \in ClientBound
           \/ p.type \notin {"PUBACK", "PUBREC", "PUBCOMP"}
           \/ QosAnswer(p) /\ (p.type = "PUBREC" => ~ Has(Unsent, {"PUBLISH"}, p.id))
  PROVE  RetainInv'
<1>1. \A p : QosAnswer(p) => QosAnswer(p)'
  BY DEF QosAnswer
<1>2. \A p : p.type \notin {"PUBACK", "PUBREC", "PUBCOMP"} => QosAnswer(p)' /\ p.type # "PUBREC"
  BY DEF QosAnswer
<1>3. \A id \in Ids : Holds(id)
  BY DEF Holds
<1>4. QED
  BY <1>1, <1>2, <1>3, PeerRetains

LEMMA BrokerTakesRetains ==
  ASSUME IInv, RetainInv, UNCHANGED proxyVars, phase # "ended", p2b # << >>,
         NEW reply, BrokerTakes(reply), IsSeq(reply),
         \A q \in Range(reply) :
           /\ q.type # "DISCONNECT"
           /\ \/ q.type \notin {"PUBACK", "PUBREC", "PUBCOMP"}
              \/ QosAnswer(q) /\ (q.type = "PUBREC" => ~ Has(Unsent, {"PUBLISH"}, q.id))
  PROVE  RetainInv'
<1>1. /\ \A p \in ClientBound' : p \in ClientBound \/ p \in Range(reply)
      /\ UNCHANGED cOut
  BY BrokerTakesFrame
<1>2. IsSeq(p2b) /\ p2b' = Tail(p2b) /\ UNCHANGED <<c2p, p2c>>
  BY DEF IInv, TypeOK, StreamsOK, BrokerTakes
<1>3. \A p \in Range(p2b') : p \in Range(p2b)
  BY <1>2, TailElements
<1>4. QED
  BY <1>1, <1>2, <1>3, BrokerRetains

\* What the invariants say of the packet the broker reads.
LEMMA BrokerHeadFits ==
  ASSUME IInv, RetainInv, p2b # << >>
  PROVE  LET p == Head(p2b)
         IN  /\ ClientFlow(p) /\ QosFlow(p) /\ p \in Range(p2b)
             /\ cIds \in 0..MaxId /\ MaxId \in Nat /\ Ids = 1..MaxId /\ NoId = 0 /\ FreshInv
<1>1. IsSeq(p2b)
  BY DEF IInv, TypeOK, StreamsOK
<1>2. Head(p2b) \in Range(p2b)
  BY <1>1, TailElements
<1>3. Head(p2b) \in BrokerBound
  BY <1>2 DEF BrokerBound
<1>4. QED
  BY <1>2, <1>3, EndpointsAssumption DEF IInv, AckInv, RetainInv, QosInv, Ids, NoId

\* The answer to a PUBLISH fits its QoS, and a PUBLISH that reached the broker is not
\* with the proxy unsent.
LEMMA BrokerOnPublishRetains ==
  ASSUME IInv, RetainInv, UNCHANGED proxyVars, phase # "ended", BrokerOnPublish
  PROVE  RetainInv'
<1>0. PICK p, reply : p = Head(p2b) /\ reply = Answer(p)
  OBVIOUS
<1>1. p2b # << >> /\ p.type = "PUBLISH" /\ BrokerTakes(reply)
  BY <1>0 DEF BrokerOnPublish, HeadIs
<1>2. /\ ClientFlow(p) /\ QosFlow(p) /\ p \in Range(p2b)
      /\ cIds \in 0..MaxId /\ MaxId \in Nat /\ Ids = 1..MaxId /\ NoId = 0 /\ FreshInv
  BY <1>0, <1>1, BrokerHeadFits
<1>3. p.qos \in 0..2 /\ (p.qos > 0 => p.id \in Ids)
  BY <1>1, <1>2 DEF ClientFlow
<1>4. /\ IsSeq(reply)
      /\ \A q \in Range(reply) : /\ q.type \in {"PUBACK", "PUBREC"} /\ q.id = p.id
                                 /\ p.qos > 0 /\ (q.type = "PUBACK" => p.qos = 1)
  BY <1>0, <1>3, AnswerIs
<1>5. ASSUME NEW q \in Range(reply)
      PROVE  /\ q.type # "DISCONNECT" /\ QosAnswer(q)
             /\ q.type = "PUBREC" => ~ Has(Unsent, {"PUBLISH"}, q.id)
  <2>1. /\ q.type \in {"PUBACK", "PUBREC"} /\ q.id = p.id /\ p.id \in Ids
        /\ p.qos > 0 /\ (q.type = "PUBACK" => p.qos = 1)
    BY <1>3, <1>4, <1>5
  <2>2. cOut[p.id].st \in {"pub", "rel"} => cOut[p.id].body = p.body
    BY <1>1, <1>2, <2>1 DEF ClientFlow
  <2>3. p.qos = ClientQoS[p.body]
    BY <1>1, <1>2, <2>1 DEF QosFlow
  <2>4. QosAnswer(q)
    BY <2>1, <2>2, <2>3 DEF QosAnswer
  <2>5. ~ Has(Unsent, {"PUBLISH"}, p.id)
    BY <1>1, <1>2, <2>1 DEF FreshInv, Has
  <2>6. QED
    BY <2>1, <2>4, <2>5
<1>6. QED
  BY <1>1, <1>4, <1>5, BrokerTakesRetains

\* A PUBCOMP answers a PUBREL, and its sender is past PUBREC.
LEMMA BrokerOnPubrelRetains ==
  ASSUME IInv, RetainInv, UNCHANGED proxyVars, phase # "ended", BrokerOnPubrel
  PROVE  RetainInv'
<1>0. PICK p, comp, reply : p = Head(p2b) /\ comp = Pkt("PUBCOMP", p.id) /\ reply = <<comp>>
  OBVIOUS
<1>1. p2b # << >> /\ p.type = "PUBREL" /\ BrokerTakes(reply)
  BY <1>0 DEF BrokerOnPubrel, HeadIs
<1>2. QosFlow(p)
  BY <1>0, <1>1, BrokerHeadFits
<1>3. comp.type = "PUBCOMP" /\ comp.id = p.id
  BY <1>0, OwnPackets
<1>4. QosAnswer(comp)
  BY <1>1, <1>2, <1>3 DEF QosFlow, QosAnswer
<1>5. IsSeq(reply) /\ Range(reply) = {comp}
  BY <1>0, ShortSeqs
<1>6. \A q \in Range(reply) :
           /\ q.type # "DISCONNECT"
           /\ \/ q.type \notin {"PUBACK", "PUBREC", "PUBCOMP"}
              \/ QosAnswer(q) /\ (q.type = "PUBREC" => ~ Has(Unsent, {"PUBLISH"}, q.id))
  BY <1>3, <1>4, <1>5
<1>7. QED
  BY <1>1, <1>5, <1>6, BrokerTakesRetains

\* What else the broker answers is no acknowledgement of a message of the client.
LEMMA BrokerOnOtherRetains ==
  ASSUME IInv, RetainInv, UNCHANGED proxyVars, phase # "ended",
         BrokerOnAck \/ BrokerOnPubrec \/ BrokerOnSubscribe \/ BrokerOnPing
  PROVE  RetainInv'
<1>1. p2b # << >>
  BY DEF BrokerOnAck, BrokerOnPubrec, BrokerOnSubscribe, BrokerOnPing, HeadIs
<1>2. \/ BrokerTakes(<< >>)
      \/ \E type \in {"PUBREL", "SUBACK", "UNSUBACK", "PINGRESP"} :
           \E id : BrokerTakes(<<Pkt(type, id)>>)
  BY DEF BrokerOnAck, BrokerOnPubrec, BrokerOnSubscribe, BrokerOnPing
<1>3. CASE BrokerTakes(<< >>)
  <2>0. PICK reply : reply = << >>
    OBVIOUS
  <2>1. IsSeq(reply) /\ Range(reply) = {} /\ BrokerTakes(reply)
    BY <1>3, <2>0, ShortSeqs
  <2>2. QED
    BY <1>1, <2>1, BrokerTakesRetains
<1>4. ASSUME NEW type \in {"PUBREL", "SUBACK", "UNSUBACK", "PINGRESP"}, NEW id,
             BrokerTakes(<<Pkt(type, id)>>)
      PROVE  RetainInv'
  <2>0. PICK p, reply : p = Pkt(type, id) /\ reply = <<p>>
    OBVIOUS
  <2>1. IsSeq(reply) /\ Range(reply) = {p} /\ BrokerTakes(reply)
    BY <1>4, <2>0, ShortSeqs
  <2>2. p.type = type
    BY <2>0, OwnPackets
  <2>3. QED
    BY <1>1, <2>1, <2>2, BrokerTakesRetains
<1>5. QED
  BY <1>2, <1>3, <1>4

\* Nor is what the broker sends or loses when a connection opens or closes, or what
\* it publishes.
LEMMA BrokerSidesRetain ==
  ASSUME IInv, RetainInv, UNCHANGED proxyVars, phase # "ended",
         BrokerOnConnect \/ BrokerOnDisconnect \/ BrokerCloses \/ BrokerPublish
  PROVE  RetainInv'
<1>1. /\ IsSeq(p2b) /\ IsSeq(b2p) /\ UNCHANGED <<c2p, p2c, cOut>>
      /\ p2b' = p2b \/ p2b' = << >> \/ (p2b # << >> /\ p2b' = Tail(p2b))
  BY DEF IInv, TypeOK, StreamsOK, BrokerOnConnect, BrokerOnDisconnect, BrokerCloses,
         BrokerPublish, HeadIs, clientVars
<1>2. \A p \in Range(p2b') : p \in Range(p2b)
  BY <1>1, TailElements, ShortSeqs
<1>3. \A p \in Range(b2p') : p \in Range(b2p) \/ p.type \notin {"PUBACK", "PUBREC", "PUBCOMP"}
  <2>1. CASE BrokerOnConnect
    <3>0. PICK ack, first, again :
            ack = Pkt("CONNACK", NoId) /\ first = <<ack>> /\ again = Redelivery(bOut)
      OBVIOUS
    <3>1. b2p' = first \/ b2p' = first \o again
      BY <2>1, <3>0 DEF BrokerOnConnect
    <3>2. /\ IsSeq(again) /\ \A q \in Range(again) : q.type \in {"PUBLISH", "PUBREL"}
          /\ IsSeq(first) /\ Range(first) = {ack} /\ ack.type = "CONNACK"
      BY <3>0, RedeliveryIs, OwnPackets, ShortSeqs DEF IInv
    <3>3. Range(first \o again) = Range(first) \cup Range(again)
      BY <3>2, ConcatElements
    <3>4. QED
      BY <3>1, <3>2, <3>3
  <2>2. CASE BrokerOnDisconnect
    BY <2>2 DEF BrokerOnDisconnect
  <2>3. CASE BrokerCloses
    <3>1. \/ \E k \in 0..Len(b2p) : b2p' = SubSeq(b2p, 1, k)
          \/ \E cause : b2p' = Append(b2p, PktWith("DISCONNECT", NoId, cause))
      BY <2>3 DEF BrokerCloses
    <3>2. ASSUME NEW k \in 0..Len(b2p), b2p' = SubSeq(b2p, 1, k)
          PROVE  \A p \in Range(b2p') : p \in Range(b2p)
      <4>1. k \in Nat /\ k <= Len(b2p)
        BY <1>1, <3>2, SeqPlaces
      <4>2. QED
        BY <1>1, <3>2, <4>1, SubSeqElements
    <3>3. ASSUME NEW cause, b2p' = Append(b2p, PktWith("DISCONNECT", NoId, cause))
          PROVE  \A p \in Range(b2p') : p \in Range(b2p) \/ p.type = "DISCONNECT"
      <4>0. PICK d : d = PktWith("DISCONNECT", NoId, cause)
        OBVIOUS
      <4>1. d.type = "DISCONNECT"
        BY <4>0, OwnPackets
      <4>2. Range(Append(b2p, d)) = Range(b2p) \cup {d}
        BY <1>1, AppendElements
      <4>3. QED
        BY <3>3, <4>0, <4>1, <4>2
    <3>4. QED
      BY <3>1, <3>2, <3>3
  <2>4. CASE BrokerPublish
    <3>1. PICK id, q, m : b2p' = Append(b2p, PublishPkt(id, q, m))
      BY <2>4 DEF BrokerPublish
    <3>2. PICK p : p = PublishPkt(id, q, m)
      OBVIOUS
    <3>3. p.type = "PUBLISH"
      BY <3>2 DEF PublishPkt, Packet
    <3>4. Range(Append(b2p, p)) = Range(b2p) \cup {p}
      BY <1>1, AppendElements
    <3>5. QED
      BY <3>1, <3>2, <3>3, <3>4
  <2>5. QED
    BY <2>1, <2>2, <2>3, <2>4
<1>4. UNCHANGED <<leftover, snap, windows>>
  BY DEF proxyVars
<1>5. \A p \in ClientBound' : p \in ClientBound \/ p.type \notin {"PUBACK", "PUBREC", "PUBCOMP"}
  BY <1>1, <1>3, <1>4 DEF ClientBound, ToClient
<1>6. QED
  BY <1>1, <1>2, <1>5, BrokerRetains

\* The client reads a packet and answers with at most one, which is no PUBLISH.
LEMMA ClientTakesRetains ==
  ASSUME IInv, RetainInv, UNCHANGED proxyVars, phase # "ended", p2c # << >>,
         NEW reply, ClientTakes(reply), NEW r,
         reply = << >> \/ (reply = <<r>> /\ QosFlow(r)' /\ r.type # "PUBLISH"),
         \A id \in Ids : Holds(id) \/ Ends(id) \/ Releases(id)
  PROVE  RetainInv'
<1>1. IsSeq(c2p) /\ c2p' = c2p \o reply /\ p2b' = p2b
  BY DEF IInv, TypeOK, StreamsOK, ClientTakes
<1>2. c2p \o << >> = c2p /\ c2p \o <<r>> = Append(c2p, r)
  <2>0. PICK S : S = Range(c2p) \cup {r}
    OBVIOUS
  <2>1. c2p \in Seq(S)
    BY <1>1, <2>0, SeqPlaces DEF IsSeq
  <2>2. QED
    BY <2>0, <2>1, ConcatEmptySeq, AppendIsConcat
<1>3. \/ c2p' = c2p
      \/ c2p' = Append(c2p, r) /\ QosFlow(r)' /\ r.type # "PUBLISH"
  BY <1>1, <1>2
<1>4. IsSeq(reply)
  <2>1. IsSeq(<< >>) /\ IsSeq(<<r>>)
    BY ShortSeqs
  <2>2. QED
    BY <2>1
<1>5. \A p \in ClientBound' : p \in ClientBound
  BY <1>4, ClientTakesFrame
<1>6. QED
  BY <1>1, <1>3, <1>5, PeerRetains

\* A packet that is not read yet is still on the way after another one was read.
LEMMA StillThere ==
  ASSUME NEW s, IsSeq(s), s # << >>, NEW types, NEW id,
         Head(s).type \notin types \/ Head(s).id # id, Has(Range(s), types, id)
  PROVE  Has(Range(Tail(s)), types, id)
<1>1. Range(s) = {Head(s)} \cup Range(Tail(s))
  BY TailElements
<1>2. QED
  BY <1>1 DEF Has

\* Ids the packet the client read is not an acknowledgement of stay as they were.
LEMMA OthersHold ==
  ASSUME IInv, p2c # << >>, p2c' = Tail(p2c), NEW id,
         cOut'[id].st = cOut[id].st /\ cOut'[id].body = cOut[id].body,
         \/ Head(p2c).type \notin {"PUBACK", "PUBCOMP"}
         \/ Head(p2c).id # id
         \/ Head(p2c).type = "PUBACK" /\ cOut[id].st # "pub"
         \/ Head(p2c).type = "PUBCOMP" /\ cOut[id].st # "rel"
  PROVE  Holds(id)
<1>1. IsSeq(p2c)
  BY DEF IInv, TypeOK, StreamsOK
<1>2. ASSUME cOut[id].st = "pub", Has(Range(p2c), {"PUBACK"}, id)
      PROVE  Has(Range(p2c'), {"PUBACK"}, id)
  BY <1>1, <1>2, StillThere
<1>3. ASSUME cOut[id].st = "rel", Has(Range(p2c), {"PUBCOMP"}, id)
      PROVE  Has(Range(p2c'), {"PUBCOMP"}, id)
  BY <1>1, <1>3, StillThere
<1>4. QED
  BY <1>2, <1>3 DEF Holds

\* What the client answers a PUBLISH or PUBREL of the broker with is of the other
\* direction's flows.
LEMMA ClientAnswersRetain ==
  ASSUME IInv, RetainInv, UNCHANGED proxyVars, phase # "ended", ClientOnPublish \/ ClientOnPubrel
  PROVE  RetainInv'
<1>0. PICK p : p = Head(p2c)
  OBVIOUS
<1>1. p2c # << >> /\ p.type \in {"PUBLISH", "PUBREL"} /\ p2c' = Tail(p2c) /\ cOut' = cOut
  BY <1>0 DEF ClientOnPublish, ClientOnPubrel, HeadIs, ClientTakes
<1>2. \A id \in Ids : Holds(id)
  BY <1>0, <1>1, OthersHold
<1>3. PICK reply, r : ClientTakes(reply) /\ (reply = << >> \/ (reply = <<r>> /\ r.type \in {"PUBACK", "PUBREC", "PUBCOMP"}))
  <2>1. CASE ClientOnPublish
    <3>1. p.type = "PUBLISH" /\ ClientTakes(Answer(p))
      BY <1>0, <2>1 DEF ClientOnPublish, HeadIs
    <3>2. p.qos \in 0..2
      BY <1>0, <1>1, <3>1, ClientHead DEF BrokerFlow
    <3>3. /\ \A q \in Range(Answer(p)) : q.type \in {"PUBACK", "PUBREC"}
          /\ Answer(p) = << >> \/ \E q : q \in Range(Answer(p)) /\ Answer(p) = <<q>>
      BY <3>2, AnswerIs
    <3>4. QED
      BY <3>1, <3>3
  <2>2. CASE ClientOnPubrel
    <3>1. ClientTakes(<<Pkt("PUBCOMP", p.id)>>)
      BY <1>0, <2>2 DEF ClientOnPubrel
    <3>2. Pkt("PUBCOMP", p.id).type = "PUBCOMP"
      BY OwnPackets
    <3>3. QED
      BY <3>1, <3>2
  <2>3. QED
    BY <2>1, <2>2
<1>4. r.type \in {"PUBACK", "PUBREC", "PUBCOMP"} => QosFlow(r)' /\ r.type # "PUBLISH"
  BY DEF QosFlow
<1>5. QED
  BY <1>1, <1>2, <1>3, <1>4, ClientTakesRetains

\* A PUBREC releases a message the window has the slot of: the broker was told of it, so
\* its PUBLISH was passed on, and no PUBACK answers QoS 2.
LEMMA ClientOnPubrecRetains ==
  ASSUME IInv, RetainInv, UNCHANGED proxyVars, phase # "ended", ClientOnPubrec
  PROVE  RetainInv'
<1>0. PICK p, rel : p = Head(p2c) /\ rel = Pkt("PUBREL", p.id)
  OBVIOUS
<1>1. /\ p2c # << >> /\ p.type = "PUBREC" /\ p2c' = Tail(p2c)
      /\ \/ ClientTakes(<< >>) /\ cOut' = cOut
         \/ /\ ClientTakes(<<rel>>)
            /\ cOut[p.id].st = "rel" \/ (cOut[p.id].st = "pub" /\ ClientQoS[cOut[p.id].body] = 2)
            /\ cOut' = [cOut EXCEPT ![p.id] = [st |-> "rel", body |-> cOut[p.id].body]]
  BY <1>0 DEF ClientOnPubrec, HeadIs, ClientTakes
<1>2. /\ ClientAnswer(p) /\ cIds \in 0..MaxId /\ MaxId \in Nat /\ DOMAIN cOut = Ids /\ Ids = 1..MaxId
  BY <1>0, <1>1, ClientHead
<1>3. p.id \in Ids
  BY <1>1, <1>2 DEF ClientAnswer
<1>4. /\ QosInv /\ FreshInv /\ KeptInv /\ IsSeq(p2c) /\ IsSeq(c2p)
      /\ windows \in Windows(Raws(windows.c2b), Raws(windows.b2c))
  BY DEF RetainInv, IInv, TypeOK, StreamsOK
<1>5. \A q \in Range(p2c) : q \in ClientBound
  BY DEF ClientBound, ToClient
<1>6. p \in Range(p2c)
  BY <1>0, <1>1, <1>4, TailElements
<1>7. CASE ClientTakes(<< >>) /\ cOut' = cOut
  <2>1. \A id \in Ids : Holds(id)
    BY <1>0, <1>1, <1>7, OthersHold
  <2>2. QED
    BY <1>1, <1>7, <2>1, ClientTakesRetains
<1>8. CASE /\ ClientTakes(<<rel>>)
           /\ cOut[p.id].st = "rel" \/ (cOut[p.id].st = "pub" /\ ClientQoS[cOut[p.id].body] = 2)
           /\ cOut' = [cOut EXCEPT ![p.id] = [st |-> "rel", body |-> cOut[p.id].body]]
  <2>1. /\ cOut'[p.id].st = "rel" /\ cOut'[p.id].body = cOut[p.id].body
        /\ \A id \in Ids : id # p.id => cOut'[id] = cOut[id]
    BY <1>2, <1>3, <1>8
  <2>2. rel.type = "PUBREL" /\ rel.id = p.id
    BY <1>0, OwnPackets
  <2>3. QosFlow(rel)' /\ rel.type # "PUBLISH"
    BY <2>1, <2>2 DEF QosFlow
  <2>4. \A id \in Ids : id # p.id => Holds(id)
    BY <1>0, <1>1, <2>1, OthersHold
  <2>5. CASE cOut[p.id].st = "rel"
    <3>1. Holds(p.id)
      BY <1>0, <1>1, <2>1, <2>5, OthersHold
    <3>2. QED
      BY <1>1, <1>8, <2>3, <2>4, <3>1, ClientTakesRetains
  <2>6. CASE cOut[p.id].st = "pub" /\ ClientQoS[cOut[p.id].body] = 2
    <3>1. ~ Has(Unsent, {"PUBLISH"}, p.id)
      <4>1. Has(ClientBound, {"PUBREC"}, p.id)
        BY <1>1, <1>5, <1>6 DEF Has
      <4>2. QED
        BY <1>3, <1>4, <4>1 DEF FreshInv
    <3>2. ~ Has(Range(p2c), {"PUBACK"}, p.id)
      <4>1. ASSUME NEW q \in Range(p2c), q.type = "PUBACK", q.id = p.id PROVE FALSE
        <5>1. QosAnswer(q)
          BY <1>4, <1>5 DEF QosInv
        <5>2. QED
          BY <2>6, <4>1, <5>1 DEF QosAnswer
      <4>2. QED
        BY <4>1 DEF Has
    <3>3. Has(Unsent \cup Raws(windows.c2b), {"PUBLISH"}, p.id)
      BY <1>3, <1>4, <2>6, <3>2 DEF KeptInv
    <3>4. PICK o \in Raws(windows.c2b) : o.id = p.id
      BY <3>1, <3>3 DEF Has
    <3>5. vec_contains(windows.c2b, p.id)
      BY <1>4, <3>4, SlotRaws
    <3>6. Has(Range(c2p'), {"PUBREL"}, p.id)
      <4>1. c2p' = c2p \o <<rel>> /\ IsSeq(<<rel>>) /\ Range(<<rel>>) = {rel}
        BY <1>8, ShortSeqs DEF ClientTakes
      <4>2. Range(c2p \o <<rel>>) = Range(c2p) \cup Range(<<rel>>)
        BY <1>4, <4>1, ConcatElements
      <4>3. rel \in Range(c2p')
        BY <4>1, <4>2
      <4>4. QED
        BY <2>2, <4>3 DEF Has
    <3>7. Releases(p.id)
      BY <2>1, <2>6, <3>1, <3>5, <3>6 DEF Releases
    <3>8. QED
      BY <1>1, <1>8, <2>3, <2>4, <3>7, ClientTakesRetains
  <2>7. QED
    BY <1>8, <2>5, <2>6
<1>9. QED
  BY <1>1, <1>7, <1>8

\* A PUBACK or PUBCOMP of an id that waits for it ends its handshake: it is one for the
\* QoS of its message.
LEMMA ClientOnAckRetains ==
  ASSUME IInv, RetainInv, UNCHANGED proxyVars, phase # "ended", ClientOnAck
  PROVE  RetainInv'
<1>0. PICK p : p = Head(p2c)
  OBVIOUS
<1>1. /\ p2c # << >> /\ (p.type = "PUBACK" \/ p.type = "PUBCOMP")
      /\ p2c' = Tail(p2c) /\ ClientTakes(<< >>)
      /\ \/ Completes(p) /\ cOut' = [cOut EXCEPT ![p.id] = Free]
         \/ ~ Completes(p) /\ cOut' = cOut
  BY <1>0 DEF ClientOnAck, HeadIs, ClientTakes
<1>2. DOMAIN cOut = Ids
  BY <1>1, ClientHead
<1>3. QosAnswer(p)
  <2>1. IsSeq(p2c) /\ QosInv
    BY DEF RetainInv, IInv, TypeOK, StreamsOK
  <2>2. p \in ClientBound
    BY <1>0, <1>1, <2>1, TailElements DEF ClientBound, ToClient
  <2>3. QED
    BY <2>1, <2>2 DEF QosInv
<1>4. ASSUME NEW id \in Ids PROVE Holds(id) \/ Ends(id)
  <2>1. Free.st # "pub" /\ Free.st # "rel"
    BY DEF Free
  <2>2. CASE Completes(p) /\ cOut' = [cOut EXCEPT ![p.id] = Free]
    <3>1. CASE p.id = id
      BY <1>2, <2>1, <2>2, <3>1 DEF Ends
    <3>2. CASE p.id # id
      <4>1. cOut'[id] = cOut[id]
        BY <1>2, <2>2, <3>2
      <4>2. QED
        BY <1>0, <1>1, <3>2, <4>1, OthersHold
    <3>3. QED
      BY <3>1, <3>2
  <2>3. CASE ~ Completes(p) /\ cOut' = cOut
    <3>1. \/ p.id # id
          \/ p.type = "PUBACK" /\ cOut[id].st # "pub"
          \/ p.type = "PUBCOMP" /\ cOut[id].st # "rel"
      BY <1>1, <1>3, <2>3 DEF Completes, QosAnswer
    <3>2. QED
      BY <1>0, <1>1, <2>3, <3>1, OthersHold
  <2>4. QED
    BY <1>1, <2>2, <2>3
<1>5. QED
  BY <1>1, <1>4, ClientTakesRetains

\* SUBACK, UNSUBACK, PINGRESP and DISCONNECT end no handshake of a message.
LEMMA ClientOnOtherRetains ==
  ASSUME IInv, RetainInv, UNCHANGED proxyVars, phase # "ended",
         ClientOnSuback \/ ClientOnPingresp \/ ClientOnDisconnect
  PROVE  RetainInv'
<1>0. PICK p : p = Head(p2c)
  OBVIOUS
<1>1. /\ p2c # << >> /\ p.type \notin {"PUBACK", "PUBCOMP"}
      /\ p2c' = Tail(p2c) /\ ClientTakes(<< >>)
      /\ cOut' = cOut \/ cOut' = [cOut EXCEPT ![p.id] = Free]
  BY <1>0 DEF ClientOnSuback, ClientOnPingresp, ClientOnDisconnect, HeadIs, ClientTakes
<1>2. DOMAIN cOut = Ids
  BY <1>1, ClientHead
<1>3. ASSUME NEW id \in Ids PROVE Holds(id) \/ Ends(id)
  <2>1. Free.st # "pub" /\ Free.st # "rel"
    BY DEF Free
  <2>2. cOut'[id] = cOut[id] \/ cOut'[id] = Free
    BY <1>1, <1>2
  <2>3. CASE cOut'[id] = cOut[id]
    BY <1>0, <1>1, <2>3, OthersHold
  <2>4. CASE cOut'[id] = Free
    BY <2>1, <2>4 DEF Ends
  <2>5. QED
    BY <2>2, <2>3, <2>4
<1>4. QED
  BY <1>1, <1>3, ClientTakesRetains

\* What the client sends but for a PUBLISH with an id.
LEMMA ClientSendsRetains ==
  ASSUME IInv, RetainInv, UNCHANGED proxyVars, phase # "ended", NEW p, NEW st, ClientSends(p, st),
         p.type # "PUBREL", p.type # "PUBLISH" \/ p.id = NoId,
         p.id = NoId \/ (st # "pub" /\ st # "rel")
  PROVE  RetainInv'
<1>1. /\ c2p' = Append(c2p, p) /\ UNCHANGED <<p2c, p2b, b2p>>
      /\ cOut' = IF p.id = NoId THEN cOut ELSE [cOut EXCEPT ![p.id] = [st |-> st, body |-> p.body]]
  BY DEF ClientSends
<1>2. DOMAIN cOut = Ids
  BY DEF IInv, AckInv
<1>3. ASSUME NEW id \in Ids PROVE Holds(id) \/ Ends(id)
  <2>1. CASE p.id = NoId
    BY <1>1, <2>1 DEF Holds
  <2>2. CASE p.id # NoId
    <3>1. cOut' = [cOut EXCEPT ![p.id] = [st |-> st, body |-> p.body]] /\ st # "pub" /\ st # "rel"
      BY <1>1, <2>2
    <3>2. CASE id = p.id
      BY <1>2, <3>1, <3>2 DEF Ends
    <3>3. CASE id # p.id
      <4>1. cOut'[id] = cOut[id]
        BY <1>2, <3>1, <3>3
      <4>2. QED
        BY <1>1, <4>1 DEF Holds
    <3>4. QED
      BY <3>2, <3>3
  <2>3. QED
    BY <2>1, <2>2
<1>4. QosFlow(p)'
  BY DEF QosFlow
<1>5. \A q \in ClientBound' : q \in ClientBound
  BY <1>1 DEF ClientBound, ToClient, proxyVars
<1>6. QED
  BY <1>1, <1>3, <1>4, <1>5, PeerRetains

\* A PUBLISH under the next id is the first of its id, and no answer to it is on the way.
LEMMA PublishRetains ==
  ASSUME IInv, RetainInv, UNCHANGED proxyVars, phase # "ended", NEW p, ClientSends(p, "pub"),
         p.type = "PUBLISH", p.id = cIds + 1, p.id \in Ids, p.qos > 0, p.qos = ClientQoS[p.body]
  PROVE  RetainInv'
<1>1. /\ QosInv /\ FreshInv /\ KeptInv /\ IsSeq(c2p) /\ IsSeq(snap.client_buf)
      /\ cIds \in 0..MaxId /\ MaxId \in Nat /\ Ids = 1..MaxId /\ NoId = 0 /\ DOMAIN cOut = Ids
      /\ \A q \in BrokerBound : ClientFlow(q)
      /\ \A q \in ClientBound : ClientAnswer(q)
  BY EndpointsAssumption DEF RetainInv, IInv, TypeOK, StreamsOK, AckInv, Ids, NoId
<1>2. /\ c2p' = Append(c2p, p) /\ UNCHANGED <<p2c, p2b, b2p>> /\ p.id # NoId
      /\ cOut' = [cOut EXCEPT ![p.id] = [st |-> "pub", body |-> p.body]]
  BY <1>1 DEF ClientSends
<1>3. UNCHANGED <<phase, windows, buffer, leftover, snap>>
  BY DEF proxyVars
<1>4. /\ cOut'[p.id].st = "pub" /\ cOut'[p.id].body = p.body
      /\ \A id \in Ids : id # p.id => cOut'[id] = cOut[id]
  BY <1>1, <1>2
<1>5. Range(c2p') = Range(c2p) \cup {p}
  BY <1>1, <1>2, AppendElements
<1>6. /\ FromClient' = FromClient \cup {p} /\ Unsent' = Unsent \cup {p}
      /\ BrokerBound' = BrokerBound \cup {p} /\ ClientBound' = ClientBound
  BY <1>2, <1>3, <1>5 DEF FromClient, Unsent, BrokerBound, ClientBound, ToClient
<1>7. \A q \in BrokerBound : q.type = "PUBLISH" \/ q.type = "PUBREL" => q.id # p.id
  <2>1. \A q \in BrokerBound : q.type = "PUBLISH" /\ q.id # NoId => q.qos > 0
    BY <1>1 DEF QosInv, QosFlow
  <2>2. \A q \in BrokerBound : (q.type = "PUBLISH" /\ q.id # NoId) \/ q.type = "PUBREL" => q.id \in 1..cIds
    BY <1>1, <2>1 DEF ClientFlow
  <2>3. QED
    BY <1>1, <1>2, <2>2
<1>8. \A q \in ClientBound : q.type \in {"PUBACK", "PUBREC", "PUBCOMP"} => q.id \in Ids /\ q.id # p.id
  BY <1>1 DEF ClientAnswer
<1>9. QosInv'
  <2>1. ASSUME NEW q \in BrokerBound PROVE QosFlow(q)'
    <3>1. q.type = "PUBREL" => q.id \in Ids /\ q.id # p.id
      BY <1>1, <1>7 DEF ClientFlow
    <3>2. QosFlow(q)
      BY <1>1 DEF QosInv
    <3>3. QED
      BY <1>4, <3>1, <3>2 DEF QosFlow
  <2>2. QosFlow(p)'
    BY DEF QosFlow
  <2>3. ASSUME NEW q \in ClientBound PROVE QosAnswer(q)'
    <3>1. QosAnswer(q)
      BY <1>1 DEF QosInv
    <3>2. QED
      BY <1>4, <1>8, <3>1 DEF QosAnswer
  <2>4. \A id \in Ids : cOut'[id].st = "rel" => ClientQoS[cOut'[id].body] = 2
    BY <1>1, <1>4 DEF QosInv
  <2>5. QED
    BY <1>6, <2>1, <2>2, <2>3, <2>4 DEF QosInv
<1>10. Unsent \cup Range(p2b) \cup Raws(windows.c2b) \subseteq BrokerBound
  BY DEF Unsent, BrokerBound
<1>11. FreshInv'
  <2>1. ASSUME NEW id \in Ids, Has(Unsent', {"PUBLISH"}, id)
        PROVE  /\ cOut'[id].st # "rel"
               /\ ~ Has(Range(p2b') \cup Raws(windows'.c2b), {"PUBLISH"}, id)
               /\ ~ Has(ClientBound', {"PUBREC"}, id)
    <3>1. CASE id = p.id
      BY <1>2, <1>3, <1>4, <1>6, <1>7, <1>8, <1>10, <3>1 DEF Has
    <3>2. CASE id # p.id
      <4>1. Has(Unsent, {"PUBLISH"}, id)
        BY <1>6, <2>1, <3>2 DEF Has
      <4>2. QED
        BY <1>1, <1>2, <1>3, <1>4, <1>6, <3>2, <4>1 DEF FreshInv
    <3>3. QED
      BY <3>1, <3>2
  <2>2. ASSUME NEW id \in Ids, Has(FromClient', {"PUBLISH"}, id), Has(Range(buffer'), {"PUBLISH"}, id)
        PROVE  FALSE
    <3>1. id # p.id
      <4>1. Range(buffer) \subseteq BrokerBound
        BY DEF BrokerBound
      <4>2. QED
        BY <1>3, <1>7, <2>2, <4>1 DEF Has
    <3>2. Has(FromClient, {"PUBLISH"}, id)
      BY <1>6, <2>2, <3>1 DEF Has
    <3>3. QED
      BY <1>1, <1>3, <2>2, <3>2 DEF FreshInv
  <2>3. Once(snap'.client_buf \o c2p')
    <3>0. PICK b, s : b = snap.client_buf /\ s = b \o c2p
      OBVIOUS
    <3>1. Once(s) /\ IsSeq(s) /\ Range(s) = Range(b) \cup Range(c2p)
      BY <1>1, <3>0, ConcatElements DEF FreshInv
    <3>2. ~ Has(Range(s), {"PUBLISH"}, p.id)
      BY <1>7, <3>0, <3>1 DEF Has, BrokerBound, FromClient
    <3>3. b \o Append(c2p, p) = Append(s, p)
      <4>1. \A x, y : IsSeq(x) /\ IsSeq(y) => x \o Append(y, p) = Append(x \o y, p)
        BY AppendBehind
      <4>2. QED
        BY <1>1, <3>0, <4>1, Zenon
    <3>4. Once(Append(s, p))
      BY <3>1, <3>2, OnceMore
    <3>5. QED
      BY <1>2, <1>3, <3>0, <3>3, <3>4
  <2>4. QED
    BY <2>1, <2>2, <2>3 DEF FreshInv
<1>12. KeptInv'
  <2>1. ASSUME NEW id \in Ids
        PROVE  /\ cOut'[id].st = "pub" => \/ Has(Unsent' \cup Raws(windows'.c2b), {"PUBLISH"}, id)
                                          \/ Has(Range(p2c'), {"PUBACK"}, id)
               /\ cOut'[id].st = "rel" => \/ /\ vec_contains(windows'.c2b, id)
                                             /\ Has(Unsent' \cup Raws(windows'.c2b), {"PUBREL"}, id)
                                          \/ Has(Range(p2c'), {"PUBCOMP"}, id)
    <3>1. CASE id = p.id
      BY <1>4, <1>6, <3>1 DEF Has
    <3>2. CASE id # p.id
      <4>1. \A types : Has(Unsent \cup Raws(windows.c2b), types, id) =>
                         Has(Unsent' \cup Raws(windows'.c2b), types, id)
        BY <1>3, <1>6 DEF Has
      <4>2. QED
        BY <1>1, <1>2, <1>3, <1>4, <3>2, <4>1 DEF KeptInv
    <3>3. QED
      BY <3>1, <3>2
  <2>2. QED
    BY <2>1 DEF KeptInv
<1>13. QED
  BY <1>9, <1>11, <1>12 DEF RetainInv

\* Everything the client does on its own account.
LEMMA ClientStepsRetain ==
  ASSUME IInv, RetainInv, ~ Reuse, UNCHANGED proxyVars, phase # "ended", ClientSteps
  PROVE  RetainInv'
<1>1. cSent \in Nat /\ NoId = 0 /\ Ids = 1..MaxId
  BY DEF IInv, AckInv, NoId, Ids
<1>2. CASE ClientPublish
  <2>0. PICK m, q : m = cSent + 1 /\ q = ClientQoS[m]
    OBVIOUS
  <2>1. q \in 0..2
    <3>1. cSent < Len(ClientQoS) /\ ClientQoS \in Seq(0..2) /\ Len(ClientQoS) \in Nat
      BY <1>2, EndpointsAssumption DEF ClientPublish
    <3>2. m \in 1..Len(ClientQoS)
      BY <1>1, <2>0, <3>1
    <3>3. QED
      BY <2>0, <3>1, <3>2
  <2>2. PICK id \in (IF q = 0 THEN {NoId} ELSE NextIds(cBusy, cIds)) :
          ClientSends(PublishPkt(id, q, m), "pub")
    BY <1>2, <2>0 DEF ClientPublish
  <2>3. PICK p : p = PublishPkt(id, q, m)
    OBVIOUS
  <2>4. p.type = "PUBLISH" /\ p.id = id /\ p.qos = q /\ p.body = m /\ ClientSends(p, "pub")
    BY <2>2, <2>3 DEF PublishPkt, Packet
  <2>5. CASE q = 0
    <3>1. p.id = NoId
      BY <2>2, <2>4, <2>5
    <3>2. QED
      BY <2>4, <3>1, ClientSendsRetains
  <2>6. CASE q # 0
    <3>1. id \in NextIds(cBusy, cIds)
      BY <2>2, <2>6
    <3>2. p.id = cIds + 1 /\ p.id \in Ids
      BY <2>4, <3>1, FreshId
    <3>3. p.qos > 0 /\ p.qos = ClientQoS[p.body]
      BY <2>0, <2>1, <2>4, <2>6
    <3>4. QED
      BY <2>4, <3>2, <3>3, PublishRetains
  <2>7. QED
    BY <2>5, <2>6
<1>3. CASE ClientSubscribe \/ ClientUnsubscribe
  <2>1. \E type \in {"SUBSCRIBE", "UNSUBSCRIBE"}, st \in {"sub", "unsub"} :
          \E id, body : ClientSends(PktWith(type, id, body), st)
    BY <1>3 DEF ClientSubscribe, ClientUnsubscribe
  <2>2. ASSUME NEW type \in {"SUBSCRIBE", "UNSUBSCRIBE"}, NEW st \in {"sub", "unsub"},
               NEW id, NEW body, ClientSends(PktWith(type, id, body), st)
        PROVE  RetainInv'
    <3>1. PICK p : p = PktWith(type, id, body)
      OBVIOUS
    <3>2. p.type # "PUBREL" /\ p.type # "PUBLISH" /\ ClientSends(p, st)
      BY <2>2, <3>1, OwnPackets
    <3>3. st # "pub" /\ st # "rel"
      OBVIOUS
    <3>4. QED
      BY <3>2, <3>3, ClientSendsRetains
  <2>3. QED
    BY <2>1, <2>2
<1>4. CASE ClientPing
  <2>1. PICK p : p = Pkt("PINGREQ", NoId)
    OBVIOUS
  <2>2. p.type = "PINGREQ" /\ p.id = NoId /\ ClientSends(p, "free")
    BY <1>4, <2>1, OwnPackets DEF ClientPing
  <2>3. QED
    BY <2>2, ClientSendsRetains
<1>5. CASE ClientLeave
  <2>1. PICK p : p = Pkt("DISCONNECT", NoId)
    OBVIOUS
  <2>2. /\ c2p' = c2p \/ c2p' = Append(c2p, p)
        /\ UNCHANGED <<p2c, p2b, b2p, cOut>>
    BY <1>5, <2>1 DEF ClientLeave
  <2>3. p.type = "DISCONNECT"
    BY <2>1, OwnPackets
  <2>4. QosFlow(p)'
    BY <2>3 DEF QosFlow
  <2>5. \A q \in ClientBound' : q \in ClientBound
    BY <2>2 DEF ClientBound, ToClient, proxyVars
  <2>6. \A id \in Ids : Holds(id)
    BY <2>2 DEF Holds
  <2>7. QED
    BY <2>2, <2>3, <2>4, <2>5, <2>6, PeerRetains
<1>6. QED
  BY <1>2, <1>3, <1>4, <1>5 DEF ClientSteps

\* Every step of a peer.
LEMMA PeersKeepRetained ==
  ASSUME IInv, RetainInv, ~ Reuse, Peers
  PROVE  RetainInv'
<1>1. UNCHANGED proxyVars /\ phase # "ended"
  BY DEF Peers
<1>2. ASSUME ClientReads PROVE RetainInv'
  BY <1>1, <1>2, ClientAnswersRetain, ClientOnPubrecRetains, ClientOnAckRetains,
     ClientOnOtherRetains, Zenon DEF ClientReads
<1>3. ASSUME BrokerReads PROVE RetainInv'
  BY <1>1, <1>3, BrokerOnPublishRetains, BrokerOnPubrelRetains, BrokerOnOtherRetains,
     BrokerSidesRetain, Zenon DEF BrokerReads
<1>4. QED
  BY <1>1, <1>2, <1>3, ClientStepsRetain, BrokerSidesRetain, Zenon DEF Peers

----------------------------------------------------------------------------
(* The theorems.                                                           *)

\* A session starts with no request of its client.
LEMMA InitRetain ==
  ASSUME Init
  PROVE  RetainInv
<1>1. /\ c2p = << >> /\ p2c = << >> /\ p2b = << >> /\ b2p = << >> /\ leftover = << >>
      /\ buffer = << >> /\ snap.client_buf = << >> /\ snap.broker_buf = << >>
      /\ windows.c2b = << >> /\ windows.b2c = << >> /\ cOut = [i \in Ids |-> Free]
  BY DEF Init, EndpointsInit, NoSnap, EmptyWindows
<1>2. Range(<< >>) = {} /\ Raws(<< >>) = {}
  BY ShortSeqs DEF Raws
<1>3. BrokerBound = {} /\ ClientBound = {} /\ Unsent = {} /\ FromClient = {}
  BY <1>1, <1>2 DEF BrokerBound, ClientBound, ToClient, FromClient, Unsent
<1>4. \A id \in Ids : cOut[id].st = "free"
  BY <1>1 DEF Free
<1>5. Once(<< >> \o << >>)
  <2>1. << >> \o << >> = << >> /\ DOMAIN << >> = {}
    OBVIOUS
  <2>2. QED
    BY <2>1 DEF Once
<1>6. QosInv
  BY <1>3, <1>4 DEF QosInv
<1>7. FreshInv
  BY <1>1, <1>3, <1>5 DEF FreshInv, Has
<1>8. KeptInv
  BY <1>4 DEF KeptInv
<1>9. QED
  BY <1>6, <1>7, <1>8 DEF RetainInv

\* A stuttering step keeps it.
LEMMA StutterRetain ==
  ASSUME RetainInv, UNCHANGED vars
  PROVE  RetainInv'
<1>1. UNCHANGED <<c2p, p2c, p2b, b2p, cOut, phase, windows, buffer, leftover, snap>>
  BY DEF vars, streams, clientVars, proxyVars
<1>2. UNCHANGED <<FromClient, Unsent, BrokerBound, ClientBound>>
  BY <1>1 DEF FromClient, Unsent, BrokerBound, ClientBound, ToClient
<1>3. \A p : QosFlow(p)' = QosFlow(p) /\ QosAnswer(p)' = QosAnswer(p)
  BY <1>1 DEF QosFlow, QosAnswer
<1>4. QosInv'
  BY <1>1, <1>2, <1>3 DEF RetainInv, QosInv
<1>5. FreshInv'
  BY <1>1, <1>2 DEF RetainInv, FreshInv
<1>6. KeptInv'
  BY <1>1, <1>2 DEF RetainInv, KeptInv
<1>7. QED
  BY <1>4, <1>5, <1>6 DEF RetainInv

\* The invariant of the retained requests: packets fit the QoS and the state of their
\* message, a PUBLISH that was not passed on is the only one of its id, and what continues
\* a handshake is kept or its last acknowledgement is with the client's socket.  It holds
\* of every session whose packet ids are not used again.
THEOREM RetainedInvariant ==
  ASSUME ~ Reuse
  PROVE  Spec => []RetainInv
<1>1. Init => RetainInv
  BY InitRetain
<1>2. IInv /\ RetainInv /\ [Next]_vars => RetainInv'
  BY ProxyKeepsRetained, PeersKeepRetained, StutterRetain, Zenon DEF Next, IInv
<1>3. Spec => []IInv
  BY SessionInvariant
<1>4. QED
  BY <1>1, <1>2, <1>3, PTL DEF Spec

\* No request is forgotten: of every PUBLISH and PUBREL the client waits for an answer to,
\* the proxy still has the packet, in socket, read buffer, window or outage buffer, or the
\* answer is on its way, through any number of outages, replays, freezes and adoptions.
THEOREM NothingForgotten ==
  ASSUME ~ Reuse
  PROVE  Spec => []Retained
<1>1. RetainInv => Retained
  <2>1. SUFFICES ASSUME RetainInv, phase # "ended", NEW id \in Ids
                 PROVE  LET kept == FromClient \cup Raws(windows.c2b) \cup Range(buffer)
                        IN  /\ cOut[id].st = "pub" => \/ Has(kept, {"PUBLISH"}, id)
                                                      \/ Has(ToClient, {"PUBACK", "PUBREC"}, id)
                            /\ cOut[id].st = "rel" => \/ Has(kept, {"PUBREL"}, id)
                                                      \/ Has(ToClient, {"PUBCOMP"}, id)
    BY DEF Retained
  <2>2. Unsent \cup Raws(windows.c2b) = FromClient \cup Raws(windows.c2b) \cup Range(buffer)
    BY DEF Unsent
  <2>3. /\ Has(Range(p2c), {"PUBACK"}, id) => Has(ToClient, {"PUBACK", "PUBREC"}, id)
        /\ Has(Range(p2c), {"PUBCOMP"}, id) => Has(ToClient, {"PUBCOMP"}, id)
    BY DEF Has, ToClient
  <2>4. QED
    BY <2>1, <2>2, <2>3 DEF RetainInv, KeptInv
<1>2. QED
  BY <1>1, RetainedInvariant, PTL

----------------------------------------------------------------------------
(* Sequences in order.                                                     *)

\* Reading the first packet leaves an ordered stream, all of it behind that packet.
LEMMA OrderedTail ==
  ASSUME NEW s, IsSeq(s), s # << >>, Ordered(s)
  PROVE  Ordered(Tail(s)) /\ \A q \in Range(Tail(s)) : Before(Head(s), q)
<1>0. PICK t, n : t = Tail(s) /\ n = Len(s)
  OBVIOUS
<1>1. s \in Seq(Range(s))
  BY DEF IsSeq
<1>2. /\ n \in Nat /\ n >= 1 /\ DOMAIN s = 1..n /\ Head(s) = s[1]
      /\ DOMAIN t = 1..(n - 1) /\ \A i \in 1..(n - 1) : t[i] = s[i + 1]
  BY <1>0, <1>1
<1>3. \A i \in 1..(n - 1) : i + 1 \in DOMAIN s /\ 1 < i + 1 /\ 1 \in DOMAIN s
  BY <1>2
<1>4. ASSUME NEW i \in DOMAIN t, NEW j \in DOMAIN t, i < j PROVE Before(t[i], t[j])
  <2>1. i + 1 < j + 1 /\ i + 1 \in DOMAIN s /\ j + 1 \in DOMAIN s
    BY <1>2, <1>4
  <2>2. QED
    BY <1>2, <2>1 DEF Ordered
<1>5. ASSUME NEW q \in Range(t) PROVE Before(Head(s), q)
  <2>1. PICK i \in 1..(n - 1) : q = s[i + 1]
    BY <1>2 DEF Range
  <2>2. QED
    BY <1>2, <1>3, <2>1 DEF Ordered
<1>6. QED
  BY <1>0, <1>4, <1>5 DEF Ordered

\* Two ordered streams, one behind the other.
LEMMA OrderedConcat ==
  ASSUME NEW s, IsSeq(s), NEW t, IsSeq(t), Ordered(s), Ordered(t),
         \A p \in Range(s), q \in Range(t) : Before(p, q)
  PROVE  Ordered(s \o t)
<1>0. PICK u, m, n, S : u = s \o t /\ m = Len(s) /\ n = Len(t) /\ S = Range(s) \cup Range(t)
  OBVIOUS
<1>1. /\ m \in Nat /\ DOMAIN s = 1..m /\ \A i \in 1..m : s[i] \in Range(s)
      /\ n \in Nat /\ DOMAIN t = 1..n /\ \A i \in 1..n : t[i] \in Range(t)
  BY <1>0, SeqPlaces
<1>2. s \in Seq(S) /\ t \in Seq(S)
  BY <1>0, <1>1 DEF IsSeq
<1>3. /\ DOMAIN u = 1..(m + n) /\ \A i \in 1..m : u[i] = s[i]
      /\ \A i \in (m + 1)..(m + n) : u[i] = t[i - m]
  BY <1>0, <1>1, <1>2
<1>4. ASSUME NEW i \in 1..(m + n), NEW j \in 1..(m + n), i < j PROVE Before(u[i], u[j])
  <2>1. CASE j \in 1..m
    <3>1. i \in 1..m
      BY <1>1, <1>4, <2>1
    <3>2. QED
      BY <1>1, <1>3, <1>4, <2>1, <3>1 DEF Ordered
  <2>2. CASE j \in (m + 1)..(m + n) /\ i \in 1..m
    <3>1. j - m \in 1..n
      BY <1>1, <2>2
    <3>2. QED
      BY <1>1, <1>3, <2>2, <3>1
  <2>3. CASE j \in (m + 1)..(m + n) /\ i \in (m + 1)..(m + n)
    <3>1. j - m \in 1..n /\ i - m \in 1..n /\ i - m < j - m
      BY <1>1, <1>4, <2>3
    <3>2. QED
      BY <1>1, <1>3, <2>3, <3>1 DEF Ordered
  <2>4. QED
    BY <1>1, <2>1, <2>2, <2>3
<1>5. QED
  BY <1>0, <1>3, <1>4 DEF Ordered

\* The empty stream, a single packet and a stream without a PUBLISH are in order.
LEMMA OrderedShort ==
  /\ Ordered(<< >>)
  /\ \A p : Ordered(<<p>>)
  /\ \A s : (\A p \in Range(s) : p.type # "PUBLISH") => Ordered(s)
<1>1. DOMAIN << >> = {} /\ \A p : DOMAIN <<p>> = {1}
  OBVIOUS
<1>2. \A s : \A i \in DOMAIN s : s[i] \in Range(s)
  BY DEF Range
<1>3. \A s : (\A p \in Range(s) : p.type # "PUBLISH") => Ordered(s)
  BY <1>2 DEF Ordered, Before
<1>4. QED
  BY <1>1, <1>3 DEF Ordered

\* And a stream with one more packet behind it.
LEMMA OrderedMore ==
  ASSUME NEW s, IsSeq(s), Ordered(s), NEW p, \A q \in Range(s) : Before(q, p)
  PROVE  Ordered(Append(s, p))
<1>0. PICK S, t : S = Range(s) \cup {p} /\ t = <<p>>
  OBVIOUS
<1>1. s \in Seq(S)
  BY <1>0, SeqPlaces DEF IsSeq
<1>2. Append(s, p) = s \o t
  BY <1>0, <1>1, AppendIsConcat
<1>3. IsSeq(t) /\ Range(t) = {p} /\ Ordered(t)
  BY <1>0, ShortSeqs, OrderedShort
<1>4. Ordered(s \o t)
  BY <1>3, OrderedConcat
<1>5. QED
  BY <1>2, <1>4

----------------------------------------------------------------------------
(* Windows in order.                                                       *)

\* The state of an entry tells which packet of the flow it keeps.
Fits(e) ==
  IF e.state = "C2BPublishSent" THEN e.raw.type = "PUBLISH" /\ e.raw.qos > 0
                                ELSE e.raw.type = "PUBREL"

\* The window keeps the order when an entry goes.
LEMMA RemoveOrdered ==
  ASSUME NEW states, NEW S, NEW v \in Vectors(states, S), NEW id, Ordered(RawSeq(v))
  PROVE  Ordered(RawSeq(vec_remove(v, id))) /\ Range(vec_remove(v, id)) \subseteq Range(v)
<1>1. Len(v) \in Nat /\ DOMAIN v = 1..Len(v) /\ v \in Seq(Range(v))
  BY EntryIds
<1>2. CASE ~ vec_contains(v, id)
  BY <1>2 DEF vec_remove
<1>3. CASE vec_contains(v, id)
  <2>0. PICK k, u, n : k = SlotOf(v, id) /\ u = RemoveAt(v, k) /\ n = Len(v)
    OBVIOUS
  <2>1. k \in 1..n /\ n \in Nat /\ DOMAIN v = 1..n
    BY <1>1, <1>3, <2>0, SlotFound
  <2>2. /\ u \in Seq(Range(v)) /\ Len(u) = n - 1
        /\ \A i \in 1..(n - 1) : u[i] = IF i < k THEN v[i] ELSE v[i + 1]
    BY <1>1, <2>0, <2>1, RemoveAtPlaces
  <2>3. DOMAIN u = 1..(n - 1) /\ Range(u) \subseteq Range(v)
    BY <2>1, <2>2, SeqOver
  <2>4. \A i, j \in 1..n : i < j => Before(v[i].raw, v[j].raw)
    BY <2>1 DEF Ordered, RawSeq
  <2>5. ASSUME NEW i \in 1..(n - 1), NEW j \in 1..(n - 1), i < j
        PROVE  Before(u[i].raw, u[j].raw)
    <3>1. PICK a \in 1..n : u[i] = v[a] /\ a = IF i < k THEN i ELSE i + 1
      BY <2>1, <2>2
    <3>2. PICK b \in 1..n : u[j] = v[b] /\ b = IF j < k THEN j ELSE j + 1
      BY <2>1, <2>2
    <3>3. a < b
      BY <2>1, <2>5, <3>1, <3>2
    <3>4. QED
      BY <2>4, <3>1, <3>2, <3>3
  <2>6. Ordered(RawSeq(u))
    BY <2>3, <2>5 DEF Ordered, RawSeq
  <2>7. QED
    BY <1>3, <2>0, <2>3, <2>6 DEF vec_remove
<1>4. QED
  BY <1>2, <1>3

\* And when a PUBREL takes the place of its id, or a PUBLISH of a new id comes in
\* behind the others.
LEMMA InsertOrdered ==
  ASSUME NEW states, NEW S, NEW v \in Vectors(states, S), NEW p \in S, NEW s \in states,
         Ordered(RawSeq(v)), \A e \in Range(v) : Fits(e), Fits(WindowEntry(p.id, s, p)),
         \/ p.type # "PUBLISH"
         \/ ~ vec_contains(v, p.id) /\ \A q \in Raws(v) : Before(q, p)
  PROVE  LET u == vec_insert(v, WindowEntry(p.id, s, p))
         IN  Ordered(RawSeq(u)) /\ \A e \in Range(u) : Fits(e)
<1>0. PICK e, u, n : e = WindowEntry(p.id, s, p) /\ u = vec_insert(v, e) /\ n = Len(v)
  OBVIOUS
<1>1. e.packet_id = p.id /\ e.raw = p /\ Fits(e)
  BY <1>0 DEF WindowEntry
<1>2. /\ n \in Nat /\ DOMAIN v = 1..n /\ v \in Seq(Range(v))
      /\ \A i \in 1..n : v[i].raw \in Raws(v) /\ v[i].packet_id = v[i].raw.id
      /\ \A i, j \in 1..n : v[i].packet_id = v[j].packet_id => i = j
      /\ \A i \in 1..n : v[i] \in Range(v)
  BY <1>0, EntryIds, SeqPlaces DEF IsSeq, Distinct
<1>3. \A i, j \in 1..n : i < j => Before(v[i].raw, v[j].raw)
  BY <1>2 DEF Ordered, RawSeq
<1>4. CASE vec_contains(v, p.id)
  <2>0. PICK k : k = SlotOf(v, p.id)
    OBVIOUS
  <2>1. k \in 1..n /\ v[k].packet_id = p.id
    BY <1>2, <1>4, <2>0, SlotFound
  <2>2. u = [v EXCEPT ![k] = e]
    BY <1>0, <1>1, <1>4, <2>0 DEF vec_insert
  <2>3. DOMAIN u = 1..n /\ u[k] = e /\ \A i \in 1..n : i # k => u[i] = v[i]
    BY <1>2, <2>1, <2>2
  <2>4. ASSUME NEW i \in 1..n, NEW j \in 1..n, i < j PROVE Before(u[i].raw, u[j].raw)
    <3>1. CASE i = k
      <4>1. v[j].raw.id # p.id /\ u[j] = v[j]
        BY <1>2, <2>1, <2>3, <2>4, <3>1
      <4>2. QED
        BY <1>1, <1>4, <2>3, <3>1, <4>1 DEF Before
    <3>2. CASE j = k
      BY <1>1, <1>4, <2>3, <3>2 DEF Before
    <3>3. CASE i # k /\ j # k
      BY <1>3, <2>3, <2>4, <3>3
    <3>4. QED
      BY <3>1, <3>2, <3>3
  <2>5. \A f \in Range(u) : f = e \/ f \in Range(v)
    BY <1>2, <2>3 DEF Range
  <2>6. QED
    BY <1>0, <1>1, <2>3, <2>4, <2>5 DEF Ordered, RawSeq
<1>5. CASE ~ vec_contains(v, p.id)
  <2>1. u = Append(v, e)
    BY <1>0, <1>1, <1>5 DEF vec_insert
  <2>2. /\ DOMAIN u = 1..(n + 1) /\ u[n + 1] = e /\ \A i \in 1..n : u[i] = v[i]
    BY <1>0, <1>2, <2>1
  <2>3. \A f \in Range(u) : f = e \/ f \in Range(v)
    BY <1>2, <2>2 DEF Range
  <2>4. ASSUME NEW i \in 1..(n + 1), NEW j \in 1..(n + 1), i < j PROVE Before(u[i].raw, u[j].raw)
    <3>1. i \in 1..n
      BY <1>2, <2>4
    <3>2. CASE j = n + 1
      BY <1>1, <1>2, <2>2, <3>1, <3>2 DEF Before
    <3>3. CASE j # n + 1
      <4>1. j \in 1..n
        BY <1>2, <3>3
      <4>2. QED
        BY <1>3, <2>2, <2>4, <3>1, <4>1
    <3>4. QED
      BY <3>2, <3>3
  <2>5. QED
    BY <1>0, <1>1, <2>2, <2>3, <2>4 DEF Ordered, RawSeq
<1>6. QED
  BY <1>4, <1>5

\* What may go behind what a window keeps.
Follows(p, v) ==
  \/ p.type # "PUBLISH"
  \/ ~ vec_contains(v, p.id) /\ \A q \in Raws(v) : Before(q, p)

\* Tracking a packet of the client or of the broker keeps the order and the fit.
LEMMA TrackOrdered ==
  ASSUME NEW w, w \in Windows(Raws(w.c2b), Raws(w.b2c)), NEW p,
         Ordered(RawSeq(w.c2b)), \A e \in Range(w.c2b) : Fits(e)
  PROVE  /\ (p.type = "PUBLISH" /\ p.qos # 0 => p.qos > 0 /\ Follows(p, w.c2b)) =>
              LET v == track_c2b(w, p).c2b
              IN  Ordered(RawSeq(v)) /\ \A e \in Range(v) : Fits(e)
         /\ LET v == track_b2c(w, p).c2b
            IN  Ordered(RawSeq(v)) /\ \A e \in Range(v) : Fits(e)
<1>0. PICK C, B, v : C = Raws(w.c2b) \cup {p} /\ B = Raws(w.b2c) /\ v = w.c2b
  OBVIOUS
<1>1. v \in Vectors(C2BStates, C) /\ w = [c2b |-> w.c2b, b2c |-> w.b2c]
  <2>1. w \in Windows(C, B)
    BY <1>0, WindowsGrow
  <2>2. QED
    BY <1>0, <2>1 DEF Windows
<1>2. /\ \A x : [w EXCEPT !.c2b = x].c2b = x
      /\ \A x : [w EXCEPT !.b2c = x].c2b = w.c2b
  BY <1>1, Zenon
<1>3. "C2BPublishSent" \in C2BStates /\ "C2BPubrelSent" \in C2BStates /\ p \in C
  BY <1>0 DEF C2BStates
<1>4. /\ p.type = "PUBLISH" /\ p.qos > 0 => Fits(WindowEntry(p.id, "C2BPublishSent", p))
      /\ p.type = "PUBREL" => Fits(WindowEntry(p.id, "C2BPubrelSent", p))
  BY DEF Fits, WindowEntry
<1>5. Ordered(RawSeq(v)) /\ \A e \in Range(v) : Fits(e)
  BY <1>0
<1>6. ASSUME NEW u, u = v \/ \E id : u = vec_remove(v, id)
      PROVE  Ordered(RawSeq(u)) /\ \A e \in Range(u) : Fits(e)
  BY <1>1, <1>5, <1>6, RemoveOrdered
<1>7. LET u == track_b2c(w, p).c2b IN Ordered(RawSeq(u)) /\ \A e \in Range(u) : Fits(e)
  <2>1. CASE p.type = "PUBLISH"
    <3>1. track_b2c(w, p) = b2c_insert(w, p)
      BY <2>1, Zenon DEF track_b2c
    <3>2. b2c_insert(w, p).c2b = v
      BY <1>0, <1>2, Zenon DEF b2c_insert
    <3>3. QED
      BY <1>5, <3>1, <3>2
  <2>2. CASE p.type \in {"PUBACK", "PUBCOMP"}
    <3>1. track_b2c(w, p) = c2b_remove(w, p.id)
      BY <2>2, Zenon DEF track_b2c
    <3>2. c2b_remove(w, p.id).c2b = vec_remove(v, p.id)
      BY <1>0, <1>2, Zenon DEF c2b_remove
    <3>3. QED
      BY <1>6, <3>1, <3>2
  <2>3. CASE p.type \notin {"PUBLISH", "PUBACK", "PUBCOMP"}
    <3>1. track_b2c(w, p) = w
      BY <2>3, Zenon DEF track_b2c
    <3>2. QED
      BY <1>0, <1>5, <3>1
  <2>4. QED
    BY <2>1, <2>2, <2>3
<1>8. ASSUME p.type = "PUBLISH" /\ p.qos # 0 => p.qos > 0 /\ Follows(p, v)
      PROVE  LET u == track_c2b(w, p).c2b IN Ordered(RawSeq(u)) /\ \A e \in Range(u) : Fits(e)
  <2>1. CASE ~ Enters(p, v)
    <3>1. track_c2b(w, p).c2b = v
      BY <1>0, <2>1, TrackRaws
    <3>2. QED
      BY <1>5, <3>1
  <2>2. CASE p.type = "PUBLISH" /\ p.qos # 0
    <3>1. track_c2b(w, p) = c2b_insert(w, p)
      BY <2>2, Zenon DEF track_c2b
    <3>2. c2b_insert(w, p).c2b = vec_insert(v, WindowEntry(p.id, "C2BPublishSent", p))
      BY <1>0, <1>2, <2>2, Zenon DEF c2b_insert
    <3>3. QED
      BY <1>1, <1>3, <1>4, <1>5, <1>8, <2>2, <3>1, <3>2, InsertOrdered DEF Follows
  <2>3. CASE p.type = "PUBREL" /\ vec_contains(v, p.id)
    <3>1. track_c2b(w, p) = c2b_transition(w, p)
      BY <2>3, Zenon DEF track_c2b
    <3>2. c2b_transition(w, p).c2b = vec_insert(v, WindowEntry(p.id, "C2BPubrelSent", p))
      BY <1>0, <1>2, <2>3, Zenon DEF c2b_transition
    <3>3. p.type # "PUBLISH"
      BY <2>3
    <3>4. QED
      BY <1>1, <1>3, <1>4, <1>5, <2>3, <3>1, <3>2, <3>3, InsertOrdered
  <2>4. QED
    BY <2>1, <2>2, <2>3 DEF Enters
<1>9. QED
  BY <1>0, <1>7, <1>8

\* What the window sends again is what it keeps, in its order and marked DUP.
LEMMA RetransmitsOrdered ==
  ASSUME NEW C, NEW B, NEW w \in Windows(C, B), Ordered(RawSeq(w.c2b)),
         \A e \in Range(w.c2b) : Fits(e)
  PROVE  /\ Ordered(broker_retransmits(w))
         /\ \A p \in Range(broker_retransmits(w)) :
              \E q \in Raws(w.c2b) : Same(p, q) /\ (p.type = "PUBLISH" => p.dup /\ p.qos > 0)
         /\ \A q \in Raws(w.c2b) : \E p \in Range(broker_retransmits(w)) : Same(p, q)
<1>0. PICK v, u, n : v = w.c2b /\ u = broker_retransmits(w) /\ n = Len(v)
  OBVIOUS
<1>1. v \in Vectors(C2BStates, C)
  BY <1>0 DEF Windows
<1>2. /\ n \in Nat /\ DOMAIN v = 1..n /\ v \in Seq(Range(v))
      /\ \A i \in 1..n : v[i].raw \in Raws(v) /\ v[i] \in Range(v)
      /\ \A r \in Raws(v) : \E i \in 1..n : v[i].raw = r
  <2>1. /\ n \in Nat /\ DOMAIN v = 1..n /\ v \in Seq(Range(v))
        /\ \A i \in 1..n : v[i].raw \in Raws(v)
        /\ \A r \in Raws(v) : \E i \in 1..n : v[i].raw = r
    BY <1>0, <1>1, EntryIds
  <2>2. QED
    BY <2>1
<1>3. u = [i \in 1..n |-> IF v[i].state = "C2BPublishSent" THEN with_dup(v[i].raw) ELSE v[i].raw]
  BY <1>0, <1>2, Zenon DEF broker_retransmits
<1>4. \A r : /\ with_dup(r).type = r.type /\ with_dup(r).id = r.id
             /\ with_dup(r).qos = r.qos /\ with_dup(r).body = r.body /\ with_dup(r).dup
  BY DEF with_dup, Packet
<1>5. ASSUME NEW i \in 1..n
      PROVE  Same(u[i], v[i].raw) /\ (u[i].type = "PUBLISH" => u[i].dup /\ u[i].qos > 0)
  <2>1. CASE v[i].state = "C2BPublishSent"
    BY <1>0, <1>2, <1>3, <1>4, <2>1 DEF Same, Fits
  <2>2. CASE v[i].state # "C2BPublishSent"
    BY <1>0, <1>2, <1>3, <1>4, <2>2 DEF Same, Fits
  <2>3. QED
    BY <2>1, <2>2
<1>6. \A i, j \in 1..n : i < j => Before(v[i].raw, v[j].raw)
  BY <1>0, <1>2 DEF Ordered, RawSeq
<1>7. DOMAIN u = 1..n
  BY <1>3
<1>8. \A p, q, r, s : Same(p, r) /\ Same(q, s) /\ Before(r, s) => Before(p, q)
  BY DEF Same, Before
<1>9. Ordered(u)
  BY <1>5, <1>6, <1>7, <1>8 DEF Ordered
<1>10. \A p \in Range(u) :
         \E q \in Raws(v) : Same(p, q) /\ (p.type = "PUBLISH" => p.dup /\ p.qos > 0)
  <2>1. \A p \in Range(u) : \E i \in 1..n : p = u[i]
    BY <1>7 DEF Range
  <2>2. QED
    BY <1>2, <1>5, <2>1
<1>11. \A q \in Raws(v) : \E p \in Range(u) : Same(p, q)
  BY <1>2, <1>5, <1>7 DEF Range
<1>12. QED
  BY <1>0, <1>9, <1>10, <1>11

\* What flushing the packets of a buffer into a window rests on: the buffer is in order and
\* behind the window, and two PUBLISHes of one id carry one message.
Flushable(v, packets) ==
  /\ Ordered(RawSeq(v)) /\ \A e \in Range(v) : Fits(e)
  /\ IsSeq(packets) /\ Ordered(packets)
  /\ \A q \in Raws(v), p \in Range(packets) : Before(q, p)
  /\ \A p \in Range(packets) : p.type = "PUBLISH" => p.qos > 0
  /\ \A p, q \in Raws(v) \cup Range(packets) :
       p.type = "PUBLISH" /\ q.type = "PUBLISH" =>
         p.body \in Nat /\ (p.id = q.id => p.body = q.body)

\* After i packets: the window keeps packets of before and of the first i, in order, and
\* no PUBLISH of an id that one of them releases.
Flushed(i, u, v, packets) ==
  /\ Ordered(RawSeq(u)) /\ \A e \in Range(u) : Fits(e)
  /\ \A q \in Raws(u) : q \in Raws(v) \/ \E j \in 1..i : q = packets[j]
  /\ \A q \in Raws(u), j \in 1..i :
       q.type = "PUBLISH" /\ packets[j].type = "PUBREL" => q.id # packets[j].id

\* One more packet of the outage buffer keeps what the flush has done so far.
LEMMA FlushOne ==
  ASSUME NEW C, NEW B, NEW w \in Windows(C, B), NEW v, NEW packets, Flushable(v, packets),
         NEW i \in 1..Len(packets), Flushed(i - 1, w.c2b, v, packets), Range(packets) \subseteq C
  PROVE  Flushed(i, FlushInto(w, packets[i]).c2b, v, packets)
<1>0. PICK p, u, x : p = packets[i] /\ u = w.c2b /\ x = FlushInto(w, packets[i]).c2b
  OBVIOUS
<1>1. /\ IsSeq(packets) /\ Len(packets) \in Nat /\ p \in Range(packets) /\ p \in C
      /\ DOMAIN packets = 1..Len(packets)
      /\ \A j \in 1..(i - 1) : packets[j] \in Range(packets) /\ Before(packets[j], p)
  <2>1. IsSeq(packets) /\ Ordered(packets)
    BY DEF Flushable
  <2>2. /\ Len(packets) \in Nat /\ DOMAIN packets = 1..Len(packets)
        /\ \A j \in 1..Len(packets) : packets[j] \in Range(packets)
    BY <2>1, SeqPlaces
  <2>3. \A j \in 1..(i - 1) : j \in 1..Len(packets) /\ j < i
    BY <2>2
  <2>4. QED
    BY <1>0, <2>1, <2>2, <2>3 DEF Ordered
<1>2. \A j \in 1..i : j \in 1..(i - 1) \/ j = i
  BY <1>1
<1>3. \A j \in 1..(i - 1) : j \in 1..i
  BY <1>1
<1>4. u \in Vectors(C2BStates, C)
  BY <1>0 DEF Windows
<1>5. CASE p.type \notin {"PUBLISH", "PUBREL"}
  <2>1. x = u
    BY <1>0, <1>1, <1>5, FlushIntoRaws
  <2>2. QED
    BY <1>0, <1>2, <1>3, <1>5, <2>1 DEF Flushed
<1>6. CASE p.type \in {"PUBLISH", "PUBREL"}
  <2>0. PICK s : s = IF p.type = "PUBLISH" THEN "C2BPublishSent" ELSE "C2BPubrelSent"
    OBVIOUS
  <2>1. s \in C2BStates /\ x = vec_insert(u, WindowEntry(p.id, s, p))
    <3>1. w = [c2b |-> w.c2b, b2c |-> w.b2c]
      BY DEF Windows
    <3>2. insert_c2b_raw(w, p.id, s, p).c2b = vec_insert(w.c2b, WindowEntry(p.id, s, p))
      BY <3>1, Zenon DEF insert_c2b_raw
    <3>3. FlushInto(w, p) = insert_c2b_raw(w, p.id, s, p)
      BY <1>6, <2>0 DEF FlushInto
    <3>4. QED
      BY <1>0, <2>0, <3>2, <3>3 DEF C2BStates
  <2>2. Raws(x) = {r \in Raws(u) : r.id # p.id} \cup {p}
    BY <1>4, <1>1, <2>1, InsertRaws
  <2>3. Fits(WindowEntry(p.id, s, p))
    BY <1>1, <1>6, <2>0 DEF Fits, WindowEntry, Flushable
  <2>4. \A q \in Raws(u) : q \in Raws(v) \cup Range(packets) /\ Before(q, p)
    BY <1>0, <1>1 DEF Flushed, Flushable
  <2>5. p.type = "PUBLISH" => ~ vec_contains(u, p.id)
    <3>1. ASSUME p.type = "PUBLISH", NEW q \in Raws(u), q.id = p.id PROVE FALSE
      <4>1. Before(q, p) /\ q \in Raws(v) \cup Range(packets)
        BY <2>4
      <4>2. q.type # "PUBREL"
        BY <3>1, <4>1 DEF Before
      <4>3. q.type = "PUBLISH"
        <5>1. PICK j \in DOMAIN u : q = u[j].raw
          BY DEF Raws
        <5>2. Fits(u[j])
          BY <1>0 DEF Flushed, Range
        <5>3. QED
          BY <4>2, <5>1, <5>2 DEF Fits
      <4>4. p.body \in Nat /\ q.body = p.body /\ q.body < p.body
        BY <1>1, <3>1, <4>1, <4>3 DEF Before, Flushable
      <4>5. QED
        BY <4>4
    <3>2. \A id : vec_contains(u, id) => \E r \in Raws(u) : r.id = id
      BY <1>4, EntryIds
    <3>3. QED
      BY <3>1, <3>2
  <2>6. Ordered(RawSeq(x)) /\ \A e \in Range(x) : Fits(e)
    <3>1. Ordered(RawSeq(u)) /\ \A e \in Range(u) : Fits(e)
      BY <1>0 DEF Flushed
    <3>2. QED
      BY <1>1, <1>4, <2>1, <2>3, <2>4, <2>5, <3>1, InsertOrdered
  <2>7. \A q \in Raws(x) : q \in Raws(v) \/ \E j \in 1..i : q = packets[j]
    <3>1. i \in 1..i
      BY <1>1
    <3>2. QED
      BY <1>0, <1>3, <2>2, <3>1 DEF Flushed
  <2>8. ASSUME NEW q \in Raws(x), NEW j \in 1..i, q.type = "PUBLISH", packets[j].type = "PUBREL"
        PROVE  q.id # packets[j].id
    <3>1. CASE q = p
      <4>1. j \in 1..(i - 1)
        BY <1>0, <1>2, <2>8, <3>1
      <4>2. QED
        BY <1>1, <2>8, <3>1, <4>1 DEF Before
    <3>2. CASE q # p
      <4>1. q \in Raws(u) /\ q.id # p.id
        BY <2>2, <3>2
      <4>2. QED
        BY <1>0, <1>2, <2>8, <4>1 DEF Flushed
    <3>3. QED
      BY <3>1, <3>2
  <2>9. QED
    BY <1>0, <2>6, <2>7, <2>8 DEF Flushed
<1>7. QED
  BY <1>5, <1>6

\* The whole buffer.
LEMMA FlushOrdered ==
  ASSUME NEW C, NEW B, NEW w \in Windows(C, B), NEW packets, Flushable(w.c2b, packets)
  PROVE  Flushed(Len(packets), flush(w, packets).c2b, w.c2b, packets)
<1>0. PICK W, n, v : W = Windows(C \cup Range(packets), B) /\ n = Len(packets) /\ v = w.c2b
  OBVIOUS
<1>1. IsSeq(packets)
  BY DEF Flushable
<1>2. PICK f : Flushing(f, W, w, packets)
  BY <1>0, <1>1, FlushSteps
<1>3. /\ n \in Nat /\ f[0] = w /\ f[n] = flush(w, packets)
      /\ \A i \in 1..n : f[i] = FlushInto(f[i - 1], packets[i])
      /\ \A i \in 0..n : f[i] \in W
  BY <1>0, <1>1, <1>2, SeqPlaces DEF Flushing
<1> DEFINE Good(i) == Flushed(i, f[i].c2b, v, packets)
<1>4. Good(0)
  BY <1>0, <1>3 DEF Flushed, Flushable
<1>5. ASSUME NEW i \in 1..n, Good(i - 1) PROVE Good(i)
  <2>0. PICK x : x = f[i - 1]
    OBVIOUS
  <2>1. x \in Windows(C \cup Range(packets), B) /\ f[i] = FlushInto(x, packets[i])
    <3>1. i - 1 \in 0..n
      BY <1>3
    <3>2. QED
      BY <1>0, <1>3, <2>0, <3>1
  <2>2. Flushed(i - 1, x.c2b, v, packets)
    BY <1>5, <2>0
  <2>3. Flushable(v, packets) /\ i \in 1..Len(packets) /\ Range(packets) \subseteq C \cup Range(packets)
    BY <1>0
  <2>4. Flushed(i, FlushInto(x, packets[i]).c2b, v, packets)
    BY <2>1, <2>2, <2>3, FlushOne
  <2>5. QED
    BY <2>1, <2>4
<1> HIDE DEF Good
<1>6. Good(n)
  <2> DEFINE bad == {i \in 0..n : ~ Good(i)}
  <2>1. SUFFICES ASSUME ~ Good(n) PROVE FALSE
    OBVIOUS
  <2>2. n \in bad /\ bad \in SUBSET Nat
    BY <1>3, <2>1
  <2> HIDE DEF bad
  <2>3. PICK m \in bad : \A k \in bad : m <= k
    BY <2>2, LeastElement
  <2>4. m \in 0..n /\ ~ Good(m)
    BY <2>3 DEF bad
  <2>5. m # 0
    BY <1>4, <2>4
  <2>6. m \in 1..n /\ m - 1 \in 0..n /\ ~ (m <= m - 1)
    BY <1>3, <2>4, <2>5
  <2>7. Good(m - 1)
    BY <2>3, <2>6 DEF bad
  <2>8. QED
    BY <1>5, <2>4, <2>6, <2>7
<1>7. QED
  BY <1>0, <1>3, <1>6 DEF Good

----------------------------------------------------------------------------
(* The steps of the proxy.                                                 *)

\* Moving packets keeps what is known of the messages they carry.
LEMMA MovesKeepMessages ==
  ASSUME MessageInv, MovesOnly, PeersKept
  PROVE  MessageInv'
<1>1. UNCHANGED <<cOut, cSent, bGot>>
  BY DEF PeersKept, clientVars
<1>2. \A p \in BrokerBound' : p.type = "PUBLISH" => \E q \in BrokerBound : Same(p, q)
  BY DEF MovesOnly, OnlyFrom, QosTypes
<1>3. \A id : Has(ClientBound', {"PUBCOMP"}, id) => Has(ClientBound, {"PUBCOMP"}, id)
  BY DEF Has, MovesOnly, OnlyFrom, Same, QosTypes
<1>4. ASSUME NEW p \in BrokerBound', p.type = "PUBLISH"
      PROVE  /\ p.body \in 1..cSent
             /\ p.body \in Range(bGot) \/ \A m \in Range(bGot) : m < p.body
             /\ \A q \in BrokerBound' :
                  q.type = "PUBLISH" => /\ p.body = q.body => p.id = q.id
                                        /\ p.id = q.id => p.body = q.body \/ p.id = NoId
             /\ p.qos = 2 => /\ cOut[p.id].st \in {"pub", "rel"}
                             /\ ~ Has(ClientBound', {"PUBCOMP"}, p.id)
  <2>1. PICK o \in BrokerBound : o.type = "PUBLISH" /\ o.id = p.id /\ o.qos = p.qos /\ o.body = p.body
    BY <1>2, <1>4 DEF Same
  <2>2. /\ o.body \in 1..cSent
        /\ o.body \in Range(bGot) \/ \A m \in Range(bGot) : m < o.body
        /\ o.qos = 2 => /\ cOut[o.id].st \in {"pub", "rel"}
                        /\ ~ Has(ClientBound, {"PUBCOMP"}, o.id)
    BY <2>1 DEF MessageInv
  <2>3. ASSUME NEW q \in BrokerBound', q.type = "PUBLISH"
        PROVE  /\ p.body = q.body => p.id = q.id
               /\ p.id = q.id => p.body = q.body \/ p.id = NoId
    <3>1. PICK r \in BrokerBound : r.type = "PUBLISH" /\ r.id = q.id /\ r.body = q.body
      BY <1>2, <2>3 DEF Same
    <3>2. QED
      BY <2>1, <3>1 DEF MessageInv
  <2>4. QED
    BY <1>3, <2>1, <2>2, <2>3
<1>5. QED
  BY <1>1, <1>4 DEF MessageInv

\* Steps that leave the client's packets, the windows and the buffer alone.
LEMMA StreamPasses ==
  ASSUME OrderInv, StageInv, PeersKept,
         snap'.client_buf \o c2p' = snap.client_buf \o c2p, FromClient' = FromClient,
         buffer' = buffer, windows'.c2b = windows.c2b, Ordered(p2b'),
         \A p \in Range(p2b') : p \in Range(p2b) \/ p.type \notin QosTypes,
         ~ Alive' => p2b' = << >>,
         link' \in {"none", "syn"} => FromBrokerSocket' = {},
         link' = "syn" => phase' \in {"connack", "ended"},
         phase' \in {"connack", "suback", "replay"} => \A p \in Range(p2b') : p.type \notin QosTypes,
         phase' = "connected" \/ (phase' = "frozen" /\ link' # "none") => buffer = << >>,
         Alive' /\ phase' \in {"connected", "frozen"} => \A q \in Raws(windows.c2b) : Underway(q)'
  PROVE  OrderInv' /\ StageInv'
<1>1. bGot' = bGot
  BY DEF PeersKept
<1>2. Unsent' = Unsent
  BY DEF Unsent
<1>3. \A p, q : p.type \notin QosTypes => Before(p, q)
  BY DEF QosTypes, Before
<1>4. OrderInv'
  <2>1. \A p \in Range(p2b') \cup Raws(windows'.c2b), q \in Unsent' : Before(p, q)
    BY <1>2, <1>3 DEF OrderInv, AllBefore
  <2>2. \A p \in Range(p2b'), q \in Raws(windows'.c2b) :
          p.type = "PUBREL" /\ q.type = "PUBLISH" => p.id # q.id
    BY DEF OrderInv, QosTypes
  <2>3. QED
    BY <2>1, <2>2 DEF OrderInv, AllBefore
<1>5. \A p \in Range(p2b') : p.type = "PUBLISH" /\ p.body \in Range(bGot') => p.dup /\ p.qos > 0
  BY <1>1 DEF StageInv, QosTypes
<1>6. StageInv'
  BY <1>1, <1>2, <1>5 DEF StageInv
<1>7. QED
  BY <1>4, <1>6

\* Losing, opening and closing connections, and the ends of a session.
LEMMA ConnectionPasses ==
  ASSUME TypeOK, OrderInv, StageInv, PeersKept,
         \/ InterceptDisconnect \/ BrokerEof \/ ClientGone \/ KeepaliveTimeout
         \/ ConnectBroker \/ RecvConnack \/ RecvSuback \/ EstablishFails
  PROVE  OrderInv' /\ StageInv'
<1>0. PICK r, c : r = resubscribe_packet(subscriptions) /\ c = force_session_resumption(connect_raw)
  OBVIOUS
<1>1. /\ IsSeq(p2b) /\ IsSeq(b2p) /\ ControlOK
      /\ phase # "frozen" => Range(snap.broker_buf) = {}
  BY NoReadBuffers DEF TypeOK, StreamsOK
<1>2. UNCHANGED <<c2p, windows, buffer, snap>> /\ phase \notin {"frozen", "ended"}
  BY DEF InterceptDisconnect, BrokerEof, ClientGone, KeepaliveTimeout, ConnectBroker,
         RecvConnack, RecvSuback, EstablishFails, streams
<1>3. /\ IsSeq(r) /\ \A q \in Range(r) : q.type \notin QosTypes /\ q.type # "PUBLISH"
      /\ c.type \notin QosTypes /\ c.type # "PUBLISH"
  BY <1>0, OwnPackets, OtherTypes
<1>4. /\ Range(p2b \o r) = Range(p2b) \cup Range(r) /\ Range(<<c>>) = {c} /\ Range(<< >>) = {}
  BY <1>1, <1>3, ConcatElements, ShortSeqs
<1>5. b2p # << >> => link \notin {"none", "syn"}
  BY <1>1, TailElements DEF StageInv, FromBrokerSocket
<1>6. /\ FromBrokerSocket = Range(b2p) /\ FromBrokerSocket' = Range(b2p')
  BY <1>1, <1>2 DEF FromBrokerSocket
<1>7. \/ UNCHANGED <<p2b, b2p, link>> /\ phase' = "ended"
      \/ link' = "none" /\ p2b' = << >> /\ b2p' = << >> /\ phase' \in {"outage", "ended"}
      \/ /\ phase = "outage" /\ link' = "syn" /\ p2b' = <<c>> /\ b2p' = b2p /\ phase' = "connack"
      \/ /\ phase = "connack" /\ b2p # << >> /\ link' = link /\ phase' \in {"suback", "replay"}
         /\ p2b' = IF Alive THEN p2b \o r ELSE p2b
      \/ phase = "suback" /\ b2p # << >> /\ UNCHANGED <<p2b, link>> /\ phase' = "replay"
  BY <1>0 DEF InterceptDisconnect, BrokerEof, ClientGone, KeepaliveTimeout, ConnectBroker,
              RecvConnack, RecvSuback, EstablishFails, streams, DropBroker, End, HeadIs
<1>8. Ordered(p2b')
  <2>1. Ordered(p2b) /\ Ordered(<< >>) /\ Ordered(<<c>>) /\ Ordered(r)
    BY <1>3, OrderedShort DEF OrderInv
  <2>2. \A p, q : q.type # "PUBLISH" => Before(p, q)
    BY DEF Before
  <2>3. Ordered(p2b \o r)
    BY <1>1, <1>3, <2>1, <2>2, OrderedConcat
  <2>4. QED
    BY <1>7, <2>1, <2>3
<1>9. \A p \in Range(p2b') : p \in Range(p2b) \/ p.type \notin QosTypes
  BY <1>3, <1>4, <1>7
<1>10. ~ Alive' => p2b' = << >>
  BY <1>7 DEF Alive, StageInv
<1>11. link' \in {"none", "syn"} => FromBrokerSocket' = {}
  <2>1. phase = "outage" => link = "none"
    BY <1>1, <1>2 DEF ControlOK
  <2>2. QED
    BY <1>4, <1>5, <1>6, <1>7, <2>1 DEF StageInv
<1>12. link' = "syn" => phase' \in {"connack", "ended"}
  BY <1>5, <1>7
<1>13. phase' \in {"connack", "suback", "replay"} => \A p \in Range(p2b') : p.type \notin QosTypes
  BY <1>3, <1>4, <1>7 DEF StageInv
<1>14. phase' \notin {"connected", "frozen"}
  BY <1>7
<1>15. snap'.client_buf \o c2p' = snap.client_buf \o c2p /\ FromClient' = FromClient
  BY <1>2 DEF FromClient
<1>16. QED
  BY <1>2, <1>8, <1>9, <1>10, <1>11, <1>12, <1>13, <1>14, <1>15, StreamPasses

\* A freeze cuts the two sockets' streams in two, and both ways out put the client's
\* together again; a rollback the broker's too, while an adoption has no broker.
LEMMA FreezeCuts ==
  ASSUME StreamsOK, StreamsOK', Freeze \/ ResumeSession \/ adopt_session
  PROVE  /\ snap'.client_buf \o c2p' = snap.client_buf \o c2p /\ FromClient' = FromClient
         /\ Freeze \/ ResumeSession =>
              snap'.broker_buf \o b2p' = snap.broker_buf \o b2p /\ FromBrokerSocket' = FromBrokerSocket
<1>1. /\ IsSeq(c2p) /\ IsSeq(snap.client_buf) /\ IsSeq(c2p') /\ IsSeq(snap'.client_buf)
      /\ IsSeq(b2p) /\ IsSeq(snap.broker_buf) /\ IsSeq(b2p') /\ IsSeq(snap'.broker_buf)
      /\ phase # "frozen" => snap.client_buf = << >> /\ snap.broker_buf = << >>
      /\ phase' # "frozen" => snap'.client_buf = << >> /\ snap'.broker_buf = << >>
  BY DEF StreamsOK, NoSnap
<1>2. \A s : IsSeq(s) => << >> \o s = s
  BY DEF IsSeq
<1>3. /\ snap'.client_buf \o c2p' = snap.client_buf \o c2p
      /\ Freeze \/ ResumeSession => snap'.broker_buf \o b2p' = snap.broker_buf \o b2p
  <2>1. CASE Freeze
    <3>1. PICK i \in 0..Len(c2p), j \in 0..Len(b2p) :
            /\ snap'.client_buf = SubSeq(c2p, 1, i) /\ c2p' = SubSeq(c2p, i + 1, Len(c2p))
            /\ snap'.broker_buf = SubSeq(b2p, 1, j) /\ b2p' = SubSeq(b2p, j + 1, Len(b2p))
      <4>1. PICK i \in 0..Len(c2p), j \in 0..Len(b2p) :
              /\ snap' = [client_buf    |-> SubSeq(c2p, 1, i),
                          broker_buf    |-> SubSeq(b2p, 1, j),
                          windows       |-> snapshot(windows),
                          subscriptions |-> subscriptions,
                          buffered      |-> buffer]
              /\ c2p' = SubSeq(c2p, i + 1, Len(c2p))
              /\ b2p' = SubSeq(b2p, j + 1, Len(b2p))
        BY <2>1, Zenon DEF Freeze
      <4>2. QED
        BY <4>1
    <3>2. phase # "frozen"
      BY <2>1 DEF Freeze
    <3>3. snap'.client_buf \o c2p' = c2p /\ snap'.broker_buf \o b2p' = b2p
      BY <1>1, <3>1, CutSeq
    <3>4. QED
      BY <1>1, <1>2, <3>2, <3>3
  <2>2. CASE ~ Freeze
    <3>1. /\ c2p' = snap.client_buf \o c2p /\ phase' # "frozen"
          /\ ResumeSession => b2p' = snap.broker_buf \o b2p
      BY <2>2 DEF ResumeSession, adopt_session, Restored
    <3>2. QED
      BY <1>1, <1>2, <2>2, <3>1
  <2>3. QED
    BY <2>1, <2>2
<1>4. FromClient' = FromClient /\ (Freeze \/ ResumeSession => FromBrokerSocket' = FromBrokerSocket)
  <2>1. /\ Range(snap.client_buf \o c2p) = Range(snap.client_buf) \cup Range(c2p)
        /\ Range(snap'.client_buf \o c2p') = Range(snap'.client_buf) \cup Range(c2p')
        /\ Range(snap.broker_buf \o b2p) = Range(snap.broker_buf) \cup Range(b2p)
        /\ Range(snap'.broker_buf \o b2p') = Range(snap'.broker_buf) \cup Range(b2p')
    BY <1>1, ConcatElements
  <2>2. QED
    BY <1>3, <2>1 DEF FromClient, FromBrokerSocket
<1>5. QED
  BY <1>3, <1>4

\* A freeze and both ways out keep the order.
LEMMA FreezePasses ==
  ASSUME TypeOK, StreamsOK', OrderInv, StageInv, PeersKept,
         Freeze \/ ResumeSession \/ adopt_session
  PROVE  OrderInv' /\ StageInv'
<1>1. StreamsOK
  BY DEF TypeOK
<1>3. /\ snap'.client_buf \o c2p' = snap.client_buf \o c2p
      /\ Freeze \/ ResumeSession => snap'.broker_buf \o b2p' = snap.broker_buf \o b2p
  BY <1>1, FreezeCuts
<1>4. FromClient' = FromClient /\ (Freeze \/ ResumeSession => FromBrokerSocket' = FromBrokerSocket)
  BY <1>1, FreezeCuts
<1>5. UNCHANGED <<windows, buffer, p2c>> /\ bGot' = bGot
  BY ThawMoves DEF Freeze, PeersKept
<1>6. CASE Freeze \/ ResumeSession
  <2>1. /\ UNCHANGED <<p2b, link>>
        /\ phase' \in {"frozen", "outage", "connected"} /\ phase \in {"frozen", "outage", "connected"}
        /\ Freeze \/ (phase = "frozen" /\ (phase' = "connected" <=> link # "none"))
        /\ Freeze => phase # "frozen" /\ phase' = "frozen"
    BY <1>6 DEF Freeze, ResumeSession
  <2>2. phase # "frozen" => (link = "none" <=> phase = "outage")
    BY <2>1 DEF TypeOK, ControlOK
  <2>3. phase' = "connected" \/ (phase' = "frozen" /\ link' # "none") => buffer = << >>
    BY <2>1, <2>2 DEF StageInv
  <2>4. ASSUME Alive', phase' \in {"connected", "frozen"}, NEW q \in Raws(windows.c2b)
        PROVE  Underway(q)'
    <3>1. Alive /\ phase \in {"connected", "frozen"}
      BY <2>1, <2>2, <2>4 DEF Alive
    <3>2. Underway(q)
      BY <3>1 DEF StageInv
    <3>3. QED
      BY <1>4, <1>5, <1>6, <2>1, <3>2 DEF Underway
  <2>5. /\ Ordered(p2b') /\ \A p \in Range(p2b') : p \in Range(p2b)
        /\ ~ Alive' => p2b' = << >>
        /\ link' \in {"none", "syn"} => FromBrokerSocket' = {}
        /\ link' # "syn"
    BY <1>4, <1>6, <2>1 DEF OrderInv, StageInv, Alive
  <2>6. QED
    BY <1>3, <1>4, <1>5, <2>1, <2>3, <2>4, <2>5, StreamPasses
<1>7. CASE adopt_session
  <2>1. link' = "none" /\ p2b' = << >> /\ b2p' = << >> /\ phase' = "outage" /\ snap'.broker_buf = << >>
    BY <1>7 DEF adopt_session, DropBroker, NoSnap
  <2>2. Range(<< >>) = {} /\ Ordered(<< >>)
    BY ShortSeqs, OrderedShort
  <2>3. FromBrokerSocket' = {} /\ ~ Alive'
    BY <2>1, <2>2 DEF FromBrokerSocket, Alive
  <2>4. QED
    BY <1>3, <1>4, <1>5, <2>1, <2>2, <2>3, StreamPasses
<1>8. QED
  BY <1>6, <1>7

\* A broker packet that is passed on: the acknowledgement that ends a handshake takes its
\* entry along, and a PUBREC is on its way to the client now.
LEMMA ForwardBrokerPasses ==
  ASSUME TypeOK, OrderInv, StageInv, PeersKept, ForwardBrokerPacket
  PROVE  OrderInv' /\ StageInv'
<1>0. PICK p, w : p = Head(b2p) /\ w = windows
  OBVIOUS
<1>1. /\ StreamsOK /\ phase = "connected" /\ b2p # << >> /\ b2p' = Tail(b2p)
      /\ UNCHANGED <<c2p, p2b, buffer, snap, phase, link>>
      /\ \/ p2c' = p2c /\ windows' = w /\ p.type = "PINGRESP"
         \/ p2c' = Append(p2c, p) /\ windows' = track_b2c(w, p)
  BY <1>0 DEF TypeOK, ForwardBrokerPacket, Swallowed
<1>2. /\ IsSeq(p2c) /\ IsSeq(b2p) /\ w \in Windows(Raws(w.c2b), Raws(w.b2c)) /\ bGot' = bGot
  BY <1>0, <1>1 DEF StreamsOK, PeersKept
<1>3. /\ Range(p2c) \subseteq Range(p2c') /\ (p.type = "PUBREC" => p \in Range(p2c'))
      /\ Range(b2p) = {p} \cup Range(b2p')
  <2>1. Range(Append(p2c, p)) = Range(p2c) \cup {p} /\ Range(b2p) = {p} \cup Range(Tail(b2p))
    BY <1>0, <1>1, <1>2, AppendElements, TailElements
  <2>2. QED
    BY <1>1, <2>1
<1>4. /\ \A q \in Raws(windows'.c2b) :
           q \in Raws(w.c2b) /\ (p.type \in {"PUBACK", "PUBCOMP"} => q.id # p.id)
  <2>1. /\ p.type \in {"PUBACK", "PUBCOMP"} => Raws(track_b2c(w, p).c2b) = Others(Raws(w.c2b), p.id)
        /\ p.type \notin {"PUBACK", "PUBCOMP"} => track_b2c(w, p).c2b = w.c2b
    BY <1>2, TrackRaws
  <2>2. QED
    BY <1>1, <2>1 DEF Others
<1>5. Ordered(RawSeq(windows'.c2b)) /\ \A e \in Range(windows'.c2b) : Fits(e)
  <2>1. Ordered(RawSeq(w.c2b)) /\ \A e \in Range(w.c2b) : Fits(e)
    BY <1>0 DEF OrderInv, StageInv, Fits
  <2>2. /\ Ordered(RawSeq(track_b2c(w, p).c2b))
        /\ \A e \in Range(track_b2c(w, p).c2b) : Fits(e)
    BY <1>2, <2>1, TrackOrdered
  <2>3. QED
    BY <1>1, <2>1, <2>2
<1>6. FromClient' = FromClient /\ Unsent' = Unsent /\ FromBrokerSocket = {p} \cup FromBrokerSocket'
  BY <1>1, <1>3 DEF FromClient, Unsent, FromBrokerSocket
<1>7. OrderInv'
  BY <1>0, <1>1, <1>4, <1>5, <1>6 DEF OrderInv, AllBefore
<1>8. ASSUME Alive', NEW q \in Raws(windows'.c2b) PROVE Underway(q)'
  <2>1. Underway(q)
    BY <1>0, <1>1, <1>4, <1>8 DEF StageInv, Alive
  <2>2. CASE q.type = "PUBREL"
    <3>1. Has(Range(p2b), {"PUBREL"}, q.id) \/ Has(FromBrokerSocket, {"PUBCOMP"}, q.id)
      BY <2>1, <2>2 DEF Underway
    <3>2. Has(FromBrokerSocket, {"PUBCOMP"}, q.id) => Has(FromBrokerSocket', {"PUBCOMP"}, q.id)
      BY <1>4, <1>6 DEF Has
    <3>3. QED
      BY <1>1, <2>2, <3>1, <3>2 DEF Underway
  <2>3. CASE q.type # "PUBREL"
    <3>1. Has(FromBrokerSocket, {"PUBACK"}, q.id) => Has(FromBrokerSocket', {"PUBACK"}, q.id)
      BY <1>4, <1>6 DEF Has
    <3>2. Has(FromBrokerSocket \cup Range(p2c), {"PUBREC"}, q.id) =>
            Has(FromBrokerSocket' \cup Range(p2c'), {"PUBREC"}, q.id)
      BY <1>3, <1>6 DEF Has
    <3>3. QED
      BY <1>1, <1>2, <1>6, <2>1, <2>3, <3>1, <3>2 DEF Underway
  <2>4. QED
    BY <2>2, <2>3
<1>9. StageInv'
  BY <1>1, <1>2, <1>5, <1>6, <1>8 DEF StageInv, Fits, Alive
<1>10. QED
  BY <1>7, <1>9

\* A client packet during an outage goes to the end of the buffer or is dropped.
LEMMA OutagePasses ==
  ASSUME TypeOK, OrderInv, StageInv, PeersKept, service_outage_packet
  PROVE  OrderInv' /\ StageInv'
<1>0. PICK p, w : p = Head(c2p) /\ w = windows
  OBVIOUS
<1>1. /\ StreamsOK /\ phase = "outage" /\ c2p # << >> /\ c2p' = Tail(c2p)
      /\ UNCHANGED <<p2b, b2p, link, snap>> /\ phase' \in {"outage", "ended"}
      /\ \/ windows' = w
         \/ windows' = track_c2b(w, p) /\ p.type \in {"PUBACK", "PUBREC", "PUBCOMP"}
      /\ \/ buffer' = buffer
         \/ buffer' = Append(buffer, p) /\ (p.type = "PUBLISH" => p.qos > 0)
  BY <1>0 DEF TypeOK, service_outage_packet, Push, End
<1>2. /\ IsSeq(c2p) /\ IsSeq(buffer) /\ snap.client_buf = << >> /\ link = "none"
      /\ w \in Windows(Raws(w.c2b), Raws(w.b2c)) /\ bGot' = bGot
  BY <1>0, <1>1 DEF TypeOK, ControlOK, StreamsOK, NoSnap, PeersKept
<1>3. /\ IsSeq(Tail(c2p)) /\ Range(c2p) = {p} \cup Range(Tail(c2p))
      /\ Range(Append(buffer, p)) = Range(buffer) \cup {p}
  BY <1>0, <1>1, <1>2, TailElements, AppendElements
<1>4. \A s : IsSeq(s) => << >> \o s = s
  BY DEF IsSeq
<1>5. /\ snap.client_buf \o c2p = c2p /\ snap'.client_buf \o c2p' = Tail(c2p)
      /\ FromClient = Range(c2p) /\ FromClient' = Range(Tail(c2p))
  BY <1>1, <1>2, <1>3, <1>4, ShortSeqs DEF FromClient
<1>6. Ordered(Tail(c2p)) /\ \A q \in Range(Tail(c2p)) : Before(p, q)
  BY <1>0, <1>1, <1>2, <1>5, OrderedTail DEF OrderInv
<1>7. windows'.c2b = w.c2b
  <2>1. ~ Enters(p, w.c2b) => track_c2b(w, p).c2b = w.c2b
    BY <1>2, TrackRaws
  <2>2. p.type \in {"PUBACK", "PUBREC", "PUBCOMP"} => ~ Enters(p, w.c2b)
    BY DEF Enters
  <2>3. QED
    BY <1>1, <2>1, <2>2
<1>8. \A q \in Range(buffer') : \/ q \in Range(buffer)
                                \/ q = p /\ (q.type = "PUBLISH" => q.qos > 0)
  BY <1>1, <1>3
<1>9. \A q \in Unsent' : q \in Unsent
  BY <1>3, <1>5, <1>8 DEF Unsent
<1>10. Ordered(buffer')
  <2>1. Ordered(buffer) /\ \A q \in Range(buffer) : Before(q, p)
    BY <1>3, <1>5 DEF OrderInv, AllBefore
  <2>2. Ordered(Append(buffer, p))
    BY <1>2, <2>1, OrderedMore
  <2>3. QED
    BY <1>1, <2>1, <2>2
<1>11. \A q \in Range(buffer'), r \in FromClient' : Before(q, r)
  BY <1>3, <1>5, <1>6, <1>8 DEF OrderInv, AllBefore
<1>12. OrderInv'
  BY <1>0, <1>1, <1>5, <1>6, <1>7, <1>9, <1>10, <1>11 DEF OrderInv, AllBefore
<1>13. FromBrokerSocket' = FromBrokerSocket /\ ~ Alive'
  BY <1>1, <1>2 DEF FromBrokerSocket, Alive
<1>14. \A q \in Range(buffer') : q.type = "PUBLISH" => q.qos > 0
  BY <1>8 DEF StageInv
<1>15. StageInv'
  BY <1>0, <1>1, <1>2, <1>7, <1>9, <1>13, <1>14 DEF StageInv, Alive
<1>16. QED
  BY <1>12, <1>15

\* A PUBLISH that was not passed on has a new id for the window: an entry of its id would
\* be a PUBLISH that came before it, or the PUBREL that ends its flow.
LEMMA NotTracked ==
  ASSUME IInv, FreshInv, OrderInv, StageInv, NEW p \in Unsent, p.type = "PUBLISH", p.qos # 0
  PROVE  p.qos > 0 /\ Follows(p, windows.c2b)
<1>1. /\ windows \in Windows(Raws(windows.c2b), Raws(windows.b2c))
      /\ cIds \in 0..MaxId /\ MaxId \in Nat /\ Ids = 1..MaxId
  BY EndpointsAssumption DEF IInv, TypeOK, StreamsOK, AckInv, Ids
<1>2. ClientFlow(p)
  BY DEF IInv, AckInv, Unsent, BrokerBound
<1>3. p.qos > 0 /\ p.id \in Ids
  BY <1>1, <1>2 DEF ClientFlow
<1>4. ASSUME NEW q \in Raws(windows.c2b) PROVE q.id # p.id /\ Before(q, p)
  <2>1. Before(q, p)
    BY DEF OrderInv, AllBefore
  <2>2. q.type = "PUBLISH" \/ q.type = "PUBREL"
    <3>1. PICK i \in DOMAIN windows.c2b : q = windows.c2b[i].raw
      BY DEF Raws
    <3>2. windows.c2b[i] \in Range(windows.c2b)
      BY DEF Range
    <3>3. QED
      BY <3>1, <3>2 DEF StageInv
  <2>3. ~ Has(Raws(windows.c2b), {"PUBLISH"}, p.id)
    BY <1>3 DEF FreshInv, Has
  <2>4. QED
    BY <2>1, <2>2, <2>3 DEF Before, Has
<1>5. ~ vec_contains(windows.c2b, p.id)
  BY <1>1, <1>4, SlotRaws
<1>6. QED
  BY <1>3, <1>4, <1>5 DEF Follows

\* A client packet that is passed on goes behind what was sent before, in the socket and in
\* the window; on a connection the broker has closed it goes into the window alone.
LEMMA ForwardClientPasses ==
  ASSUME IInv, FreshInv, OrderInv, StageInv, PeersKept, ForwardClientPacket
  PROVE  OrderInv' /\ StageInv'
<1>0. PICK p, w : p = Head(c2p) /\ w = windows
  OBVIOUS
<1>1. /\ StreamsOK /\ phase = "connected" /\ c2p # << >> /\ c2p' = Tail(c2p)
      /\ UNCHANGED <<buffer, snap>> /\ p2c' = p2c \o LocalAnswer(p)
      /\ windows' = track_c2b(w, p)
      /\ \/ /\ p2b' = IF Alive THEN Append(p2b, p) ELSE p2b
            /\ UNCHANGED <<phase, link, b2p>>
         \/ ~ Alive /\ phase' = "outage" /\ link' = "none" /\ p2b' = << >> /\ b2p' = << >>
  BY <1>0 DEF IInv, TypeOK, ForwardClientPacket, DropBroker
<1>2. /\ IsSeq(c2p) /\ IsSeq(p2c) /\ IsSeq(p2b) /\ snap.client_buf = << >> /\ snap.broker_buf = << >>
      /\ w \in Windows(Raws(w.c2b), Raws(w.b2c)) /\ bGot' = bGot /\ buffer = << >>
  BY <1>0, <1>1 DEF StreamsOK, NoSnap, PeersKept, StageInv
<1>3. /\ IsSeq(Tail(c2p)) /\ Range(c2p) = {p} \cup Range(Tail(c2p)) /\ Range(<< >>) = {}
      /\ Range(Append(p2b, p)) = Range(p2b) \cup {p}
  BY <1>0, <1>1, <1>2, TailElements, AppendElements, ShortSeqs
<1>4. \A s : IsSeq(s) => << >> \o s = s
  BY DEF IsSeq
<1>5. /\ snap.client_buf \o c2p = c2p /\ snap'.client_buf \o c2p' = Tail(c2p)
      /\ FromClient = Range(c2p) /\ FromClient' = Range(Tail(c2p))
      /\ Unsent = Range(c2p) /\ Unsent' = Range(Tail(c2p))
  BY <1>1, <1>2, <1>3, <1>4 DEF FromClient, Unsent
<1>6. Ordered(Tail(c2p)) /\ \A q \in Range(Tail(c2p)) : Before(p, q)
  BY <1>0, <1>1, <1>2, <1>5, OrderedTail DEF OrderInv
<1>7. /\ Enters(p, w.c2b) => Raws(windows'.c2b) = Others(Raws(w.c2b), p.id) \cup {p}
      /\ ~ Enters(p, w.c2b) => windows'.c2b = w.c2b
  BY <1>1, <1>2, TrackRaws
<1>8. Ordered(RawSeq(windows'.c2b)) /\ \A e \in Range(windows'.c2b) : Fits(e)
  <2>1. Ordered(RawSeq(w.c2b)) /\ \A e \in Range(w.c2b) : Fits(e)
    BY <1>0 DEF OrderInv, StageInv, Fits
  <2>2. p.type = "PUBLISH" /\ p.qos # 0 => p.qos > 0 /\ Follows(p, w.c2b)
    BY <1>0, <1>3, <1>5, NotTracked
  <2>3. QED
    BY <1>1, <1>2, <2>1, <2>2, TrackOrdered
<1>9. \/ Alive /\ p2b' = Append(p2b, p) /\ UNCHANGED <<phase, link, b2p>>
      \/ /\ p2b' = << >> /\ ~ Alive' /\ link' # "syn" /\ phase' \in {"connected", "outage"}
         /\ link' = "none" => b2p' = << >> \/ (link = "none" /\ b2p' = b2p)
  BY <1>1 DEF StageInv, Alive
<1>10. /\ \A q \in Range(p2b') : q \in Range(p2b) \/ q = p
       /\ \A q \in Raws(windows'.c2b) : q \in Raws(w.c2b) \/ q = p
  BY <1>3, <1>7, <1>9 DEF Others
<1>11. OrderInv'
  <2>1. \A q \in Range(p2b) \cup Raws(w.c2b) : Before(q, p)
    BY <1>0, <1>3, <1>5 DEF OrderInv, AllBefore
  <2>2. Ordered(p2b')
    <3>1. Ordered(p2b)
      BY DEF OrderInv
    <3>2. Ordered(Append(p2b, p)) /\ Ordered(<< >>)
      BY <1>2, <2>1, <3>1, OrderedMore, OrderedShort
    <3>3. QED
      BY <1>9, <3>2
  <2>3. \A q \in Range(p2b') \cup Raws(windows'.c2b), r \in Unsent' : Before(q, r)
    BY <1>0, <1>3, <1>5, <1>6, <1>10 DEF OrderInv, AllBefore
  <2>4. ASSUME NEW q \in Range(p2b'), NEW r \in Raws(windows'.c2b), q.type = "PUBREL", r.type = "PUBLISH"
        PROVE  q.id # r.id
    <3>1. CASE q = p
      <4>1. r \in Raws(w.c2b)
        BY <1>10, <2>4, <3>1
      <4>2. r.id = p.id => vec_contains(w.c2b, p.id)
        BY <1>2, <4>1, SlotRaws
      <4>3. QED
        BY <1>7, <2>4, <3>1, <4>1, <4>2 DEF Enters, Others
    <3>2. CASE q # p /\ r = p
      BY <1>10, <2>1, <2>4, <3>2 DEF Before
    <3>3. CASE q # p /\ r # p
      BY <1>0, <1>10, <2>4, <3>3 DEF OrderInv
    <3>4. QED
      BY <3>1, <3>2, <3>3
  <2>5. Ordered(buffer') /\ \A q \in Range(buffer'), r \in FromClient' : Before(q, r)
    BY <1>1, <1>2, <1>3, OrderedShort
  <2>6. QED
    BY <1>5, <1>6, <1>8, <2>2, <2>3, <2>4, <2>5 DEF OrderInv, AllBefore
<1>12. ASSUME Alive', NEW q \in Raws(windows'.c2b) PROVE Underway(q)'
  <2>1. Alive /\ p2b' = Append(p2b, p) /\ UNCHANGED <<phase, link, b2p>>
    BY <1>9, <1>12
  <2>2. Range(p2c) \subseteq Range(p2c') /\ Range(p2b') = Range(p2b) \cup {p}
    BY <1>1, <1>2, <1>3, <2>1, LocalAnswerIs, ConcatElements
  <2>3. FromBrokerSocket' = FromBrokerSocket
    BY <1>1, <2>1 DEF FromBrokerSocket
  <2>4. CASE q = p
    <3>1. q.type = "PUBLISH" \/ q.type = "PUBREL"
      <4>1. PICK i \in DOMAIN windows'.c2b : q = windows'.c2b[i].raw
        BY DEF Raws
      <4>2. Fits(windows'.c2b[i])
        BY <1>8 DEF Range
      <4>3. QED
        BY <4>1, <4>2 DEF Fits
    <3>2. QED
      BY <2>2, <2>4, <3>1 DEF Underway, Has
  <2>5. CASE q # p
    <3>1. q \in Raws(w.c2b) /\ Underway(q)
      BY <1>0, <1>1, <1>10, <2>1, <2>5 DEF StageInv
    <3>2. q.type # "PUBREL" /\ p.type = "PUBREL" => q.id # p.id
      <4>1. q.id = p.id => vec_contains(w.c2b, p.id)
        BY <1>2, <3>1, SlotRaws
      <4>2. QED
        BY <1>7, <2>5, <4>1 DEF Enters, Others
    <3>3. \A types, id : Has(Range(p2b), types, id) => Has(Range(p2b'), types, id)
      BY <2>2 DEF Has
    <3>4. Has(FromBrokerSocket \cup Range(p2c), {"PUBREC"}, q.id) =>
            Has(FromBrokerSocket' \cup Range(p2c'), {"PUBREC"}, q.id)
      BY <2>2, <2>3 DEF Has
    <3>5. q.type # "PUBREL" /\ Has(FromClient, {"PUBREL"}, q.id) => Has(FromClient', {"PUBREL"}, q.id)
      BY <1>3, <1>5, <3>2 DEF Has
    <3>6. QED
      BY <1>2, <2>3, <3>1, <3>3, <3>4, <3>5 DEF Underway
  <2>6. QED
    BY <2>4, <2>5
<1>13. \A q \in Range(p2b') : q.type = "PUBLISH" /\ q.body \in Range(bGot') => q.dup /\ q.qos > 0
  <2>1. p.type = "PUBLISH" => p.body \notin Range(bGot)
    BY <1>3, <1>5 DEF StageInv
  <2>2. QED
    BY <1>2, <1>10, <2>1 DEF StageInv
<1>14. link' \in {"none", "syn"} => FromBrokerSocket' = {}
  BY <1>1, <1>2, <1>3, <1>9 DEF StageInv, FromBrokerSocket, Alive
<1>15. StageInv'
  <2>1. /\ ~ Alive' => p2b' = << >>
        /\ link' = "syn" => phase' \in {"connack", "ended"}
        /\ phase' \notin {"connack", "suback", "replay", "frozen"}
    BY <1>1, <1>9 DEF StageInv, Alive
  <2>2. \A q \in Unsent' : q.type = "PUBLISH" => q.body \notin Range(bGot')
    BY <1>2, <1>3, <1>5 DEF StageInv
  <2>3. Range(buffer') = {} /\ buffer' = << >>
    BY <1>1, <1>2, <1>3
  <2>4. QED
    BY <1>8, <1>12, <1>13, <1>14, <2>1, <2>2, <2>3 DEF StageInv, Fits
<1>16. QED
  BY <1>11, <1>15

\* A window keeps one packet per id.
LEMMA OneRaw ==
  ASSUME NEW w, w \in Windows(Raws(w.c2b), Raws(w.b2c)),
         NEW p \in Raws(w.c2b), NEW q \in Raws(w.c2b), p.id = q.id
  PROVE  p = q
<1>0. PICK v : v = w.c2b
  OBVIOUS
<1>1. v \in Vectors(C2BStates, Raws(v))
  BY <1>0 DEF Windows
<1>2. /\ DOMAIN v = 1..Len(v) /\ Distinct(v)
      /\ \A i \in 1..Len(v) : v[i].packet_id = v[i].raw.id
      /\ \A r \in Raws(v) : \E i \in 1..Len(v) : v[i].raw = r
  BY <1>1, EntryIds
<1>3. PICK i \in 1..Len(v), j \in 1..Len(v) : p = v[i].raw /\ q = v[j].raw
  BY <1>0, <1>2
<1>4. i = j
  BY <1>2, <1>3 DEF Distinct
<1>5. QED
  BY <1>3, <1>4

\* The packets of a window are the two that continue a flow.
LEMMA RawTypes ==
  ASSUME NEW v, \A e \in Range(v) : Fits(e), NEW q \in Raws(v)
  PROVE  (q.type = "PUBLISH" /\ q.qos > 0) \/ q.type = "PUBREL"
<1>1. PICK i \in DOMAIN v : q = v[i].raw
  BY DEF Raws
<1>2. Fits(v[i])
  BY DEF Range
<1>3. QED
  BY <1>1, <1>2 DEF Fits

\* The invariants make the outage buffer flushable.
LEMMA BufferFlushable ==
  ASSUME IInv, OrderInv, MessageInv, StageInv
  PROVE  Flushable(windows.c2b, buffer)
<1>0. PICK v : v = windows.c2b
  OBVIOUS
<1>1. /\ IsSeq(buffer) /\ cIds \in 0..MaxId /\ MaxId \in Nat /\ NoId = 0 /\ cSent \in Nat
      /\ \A p \in BrokerBound : ClientFlow(p)
  BY EndpointsAssumption DEF IInv, TypeOK, StreamsOK, AckInv, NoId
<1>2. /\ Ordered(RawSeq(v)) /\ Ordered(buffer) /\ \A e \in Range(v) : Fits(e)
      /\ \A p \in Range(buffer) : p.type = "PUBLISH" => p.qos > 0
  BY <1>0 DEF OrderInv, StageInv, Fits
<1>3. \A q \in Raws(v), p \in Range(buffer) : Before(q, p)
  BY <1>0 DEF OrderInv, AllBefore, Unsent
<1>4. \A p \in Raws(v) \cup Range(buffer) : p \in BrokerBound /\ (p.type = "PUBLISH" => p.qos > 0)
  <2>1. \A p \in Raws(v) : p.type = "PUBLISH" => p.qos > 0
    BY <1>2, RawTypes
  <2>2. QED
    BY <1>0, <1>2, <2>1 DEF BrokerBound
<1>5. ASSUME NEW p \in Raws(v) \cup Range(buffer), NEW q \in Raws(v) \cup Range(buffer),
             p.type = "PUBLISH", q.type = "PUBLISH"
      PROVE  p.body \in Nat /\ (p.id = q.id => p.body = q.body)
  <2>1. p.id # NoId
    BY <1>1, <1>4, <1>5 DEF ClientFlow
  <2>2. p.body \in 1..cSent
    BY <1>4, <1>5 DEF MessageInv
  <2>3. p.id = q.id => p.body = q.body
    BY <1>4, <1>5, <2>1 DEF MessageInv
  <2>4. QED
    BY <1>1, <2>2, <2>3
<1>6. QED
  BY <1>0, <1>1, <1>2, <1>3, <1>5 DEF Flushable

\* The replay: what the window sends again goes first, the buffer behind it, and the window
\* keeps what went out.
LEMMA ReplayPasses ==
  ASSUME IInv, OrderInv, MessageInv, StageInv, PeersKept, Replay
  PROVE  OrderInv' /\ StageInv'
<1>0. PICK w, v, u, again :
        w = windows /\ v = windows.c2b /\ u = windows'.c2b /\ again = broker_retransmits(windows)
  OBVIOUS
<1>1. /\ StreamsOK /\ phase = "replay" /\ UNCHANGED <<c2p, b2p, link, snap>> /\ buffer' = << >>
      /\ p2b' = IF Alive THEN p2b \o (again \o buffer) ELSE p2b
      /\ windows' = flush(w, buffer) /\ phase' = "connected"
  BY <1>0 DEF IInv, TypeOK, Replay, BrokerWrites
<1>2. /\ IsSeq(p2b) /\ IsSeq(buffer) /\ w \in Windows(Raws(w.c2b), Raws(w.b2c)) /\ bGot' = bGot
  BY <1>0, <1>1 DEF StreamsOK, PeersKept
<1>3. /\ Ordered(RawSeq(v)) /\ \A e \in Range(v) : Fits(e)
      /\ Ordered(p2b) /\ Ordered(buffer) /\ \A p \in Range(p2b) : p.type \notin QosTypes
  BY <1>0, <1>1 DEF OrderInv, StageInv, Fits
<1>4. /\ IsSeq(again) /\ Ordered(again)
      /\ \A p \in Range(again) :
           \E q \in Raws(v) : Same(p, q) /\ (p.type = "PUBLISH" => p.dup /\ p.qos > 0)
      /\ \A q \in Raws(v) : \E p \in Range(again) : Same(p, q)
  BY <1>0, <1>2, <1>3, BrokerRetransmits, RetransmitsOrdered
<1>5. /\ Ordered(RawSeq(u)) /\ \A e \in Range(u) : Fits(e)
      /\ \A q \in Raws(u) : q \in Raws(v) \/ q \in Range(buffer)
      /\ \A q \in Raws(u), p \in Range(buffer) : q.type = "PUBLISH" /\ p.type = "PUBREL" => q.id # p.id
  <2>1. Flushable(v, buffer)
    BY <1>0, BufferFlushable
  <2>2. Flushed(Len(buffer), u, v, buffer)
    BY <1>0, <1>1, <1>2, <2>1, FlushOrdered
  <2>3. /\ \A i \in 1..Len(buffer) : buffer[i] \in Range(buffer)
        /\ \A p \in Range(buffer) : \E i \in 1..Len(buffer) : buffer[i] = p
    BY <1>2, SeqPlaces
  <2>4. QED
    BY <2>2, <2>3 DEF Flushed
<1>6. /\ IsSeq(again \o buffer) /\ Range(again \o buffer) = Range(again) \cup Range(buffer)
  BY <1>2, <1>4, ConcatElements
<1>7. Range(p2b \o (again \o buffer)) = Range(p2b) \cup Range(again) \cup Range(buffer)
  BY <1>2, <1>6, ConcatElements
<1>8. \A p \in Range(p2b') : p \in Range(p2b) \/ p \in Range(again) \/ p \in Range(buffer)
  BY <1>1, <1>7
<1>9. \A p, q, r : Same(p, r) /\ Before(r, q) => Before(p, q)
  BY DEF Same, Before
<1>10. /\ FromClient' = FromClient /\ Unsent' = FromClient /\ Range(buffer') = {}
       /\ Unsent = FromClient \cup Range(buffer)
  BY <1>1, ShortSeqs DEF FromClient, Unsent
<1>11. \A p \in Raws(v) \cup Range(again), q \in Unsent : Before(p, q)
  BY <1>0, <1>4, <1>9 DEF OrderInv, AllBefore
<1>12. \A p \in Range(p2b) : \A q : Before(p, q)
  BY <1>3 DEF Before, QosTypes
<1>13. Ordered(p2b')
  <2>1. Ordered(again \o buffer)
    BY <1>2, <1>3, <1>4, <1>10, <1>11, OrderedConcat
  <2>2. Ordered(p2b \o (again \o buffer))
    BY <1>2, <1>3, <1>6, <1>12, <2>1, OrderedConcat
  <2>3. QED
    BY <1>1, <1>3, <2>2
<1>14. \A p \in Range(p2b') \cup Raws(u), q \in FromClient : Before(p, q)
  <2>1. \A p \in Range(buffer), q \in FromClient : Before(p, q)
    BY DEF OrderInv, AllBefore
  <2>2. QED
    BY <1>5, <1>8, <1>10, <1>11, <1>12, <2>1
<1>15. ASSUME NEW p \in Range(p2b'), NEW q \in Raws(u), p.type = "PUBREL", q.type = "PUBLISH"
       PROVE  p.id # q.id
  <2>1. CASE p \in Range(p2b)
    BY <1>3, <1>15, <2>1 DEF QosTypes
  <2>2. CASE p \in Range(buffer)
    BY <1>5, <1>15, <2>2
  <2>3. CASE p \in Range(again)
    <3>1. PICK r \in Raws(v) : Same(p, r)
      BY <1>4, <2>3
    <3>2. CASE q \in Raws(v)
      <4>1. r.id = q.id => r = q
        BY <1>0, <1>2, <3>2, OneRaw
      <4>2. QED
        BY <1>15, <3>1, <4>1 DEF Same
    <3>3. CASE q \in Range(buffer)
      <4>1. Before(r, q)
        BY <1>10, <1>11, <3>3
      <4>2. QED
        BY <1>15, <3>1, <4>1 DEF Same, Before
    <3>4. QED
      BY <1>5, <3>2, <3>3
  <2>4. QED
    BY <1>8, <2>1, <2>2, <2>3
<1>16. OrderInv'
  <2>1. Ordered(snap'.client_buf \o c2p') /\ Ordered(buffer')
    BY <1>1, OrderedShort DEF OrderInv
  <2>2. QED
    BY <1>0, <1>5, <1>10, <1>13, <1>14, <1>15, <2>1 DEF OrderInv, AllBefore
<1>17. ASSUME Alive', NEW q \in Raws(u) PROVE Underway(q)'
  <2>1. p2b' = p2b \o (again \o buffer)
    BY <1>1, <1>17 DEF Alive
  <2>2. PICK p \in Range(p2b') : p.type = q.type /\ p.id = q.id
    BY <1>4, <1>5, <1>7, <2>1 DEF Same
  <2>3. q.type = "PUBLISH" \/ q.type = "PUBREL"
    BY <1>5, RawTypes
  <2>4. QED
    BY <2>2, <2>3 DEF Underway, Has
<1>18. ASSUME NEW p \in Range(p2b'), p.type = "PUBLISH", p.body \in Range(bGot)
       PROVE  p.dup /\ p.qos > 0
  <2>1. p \notin Range(p2b) /\ p \notin Range(buffer)
    BY <1>3, <1>10, <1>18 DEF StageInv, QosTypes
  <2>2. QED
    BY <1>4, <1>8, <1>18, <2>1
<1>19. StageInv'
  <2>1. /\ ~ Alive' => p2b' = << >>
        /\ link' \in {"none", "syn"} => FromBrokerSocket' = {}
        /\ link' # "syn"
    BY <1>1 DEF StageInv, Alive, FromBrokerSocket
  <2>2. \A q \in Unsent' : q.type = "PUBLISH" => q.body \notin Range(bGot')
    BY <1>2, <1>10 DEF StageInv
  <2>3. QED
    BY <1>0, <1>1, <1>2, <1>5, <1>10, <1>17, <1>18, <2>1, <2>2 DEF StageInv, Fits
<1>20. QED
  BY <1>16, <1>19

\* Every step of the proxy.
LEMMA ProxyKeepsPassing ==
  ASSUME IInv, FreshInv, PassInv, Proxy
  PROVE  PassInv'
<1>1. TypeOK /\ OrderInv /\ MessageInv /\ StageInv /\ RoutedInOrder
  BY DEF IInv, PassInv
<1>2. StreamsOK' /\ MovesOnly
  BY <1>1, ProxyStep
<1>3. PeersKept
  BY ProxyKeepsPeers
<1>4. MessageInv' /\ RoutedInOrder'
  <2>1. bGot' = bGot
    BY <1>3 DEF PeersKept
  <2>2. QED
    BY <1>1, <1>2, <1>3, <2>1, MovesKeepMessages DEF RoutedInOrder
<1>5. OrderInv' /\ StageInv'
  BY <1>1, <1>2, <1>3, ConnectionPasses, ForwardClientPasses, ForwardBrokerPasses,
     OutagePasses, ReplayPasses, FreezePasses, Zenon DEF Proxy
<1>6. QED
  BY <1>4, <1>5 DEF PassInv

----------------------------------------------------------------------------
(* The steps of the peers.                                                 *)

\* What a step of a peer that publishes nothing has to keep of the messages.
LEMMA MessageKept ==
  ASSUME MessageInv, cSent' = cSent,
         \A p \in BrokerBound' : p.type = "PUBLISH" => p \in BrokerBound,
         \A p \in ClientBound', q \in BrokerBound' :
           p.type = "PUBCOMP" /\ q.type = "PUBLISH" /\ q.qos = 2 => p \in ClientBound \/ p.id # q.id,
         Range(bGot') \subseteq 1..cSent,
         \A p \in BrokerBound' :
           p.type = "PUBLISH" => p.body \in Range(bGot') \/ \A m \in Range(bGot') : m < p.body,
         \A id \in Ids : cOut'[id].st \in {"pub", "rel"} =>
                           cOut[id].st \in {"pub", "rel"} /\ cOut'[id].body = cOut[id].body,
         \A p \in BrokerBound : p.type = "PUBLISH" /\ p.qos = 2 => cOut'[p.id].st \in {"pub", "rel"}
  PROVE  MessageInv'
<1>1. ASSUME NEW p \in BrokerBound', p.type = "PUBLISH"
      PROVE  /\ p.body \in 1..cSent'
             /\ \A q \in BrokerBound' :
                  q.type = "PUBLISH" => /\ p.body = q.body => p.id = q.id
                                        /\ p.id = q.id => p.body = q.body \/ p.id = NoId
             /\ p.qos = 2 => /\ cOut'[p.id].st \in {"pub", "rel"}
                             /\ ~ Has(ClientBound', {"PUBCOMP"}, p.id)
  <2>1. p \in BrokerBound
    BY <1>1
  <2>2. p.body \in 1..cSent' /\ \A q \in BrokerBound' :
                  q.type = "PUBLISH" => /\ p.body = q.body => p.id = q.id
                                        /\ p.id = q.id => p.body = q.body \/ p.id = NoId
    BY <1>1, <2>1 DEF MessageInv
  <2>3. p.qos = 2 => ~ Has(ClientBound, {"PUBCOMP"}, p.id)
    BY <1>1, <2>1 DEF MessageInv
  <2>4. p.qos = 2 => ~ Has(ClientBound', {"PUBCOMP"}, p.id)
    BY <1>1, <2>3 DEF Has
  <2>5. QED
    BY <1>1, <2>1, <2>2, <2>4
<1>2. cSent' <= Len(ClientQoS) /\ Range(bGot') \subseteq 1..cSent'
  BY DEF MessageInv
<1>3. \A id \in Ids : cOut'[id].st \in {"pub", "rel"} => cOut'[id].body \in 1..cSent'
  BY DEF MessageInv
<1>4. QED
  BY <1>1, <1>2, <1>3 DEF MessageInv

\* Steps of the client put at most one packet at the end of its stream.
LEMMA ClientPasses ==
  ASSUME IInv, OrderInv, StageInv, UNCHANGED proxyVars, UNCHANGED <<p2b, b2p, link, bGot>>, NEW r,
         \/ c2p' = c2p
         \/ /\ c2p' = Append(c2p, r)
            /\ \A p \in BrokerBound : Before(p, r)
            /\ r.type = "PUBLISH" => r.body \notin Range(bGot),
         Alive /\ phase \in {"connected", "frozen"} => \A q \in Raws(windows.c2b) : Underway(q)'
  PROVE  OrderInv' /\ StageInv'
<1>1. IsSeq(c2p) /\ IsSeq(snap.client_buf)
  BY DEF IInv, TypeOK, StreamsOK
<1>2. UNCHANGED <<phase, windows, buffer, snap>>
  BY DEF proxyVars
<1>3. CASE c2p' = c2p
  <2>1. FromClient' = FromClient /\ Unsent' = Unsent /\ FromBrokerSocket' = FromBrokerSocket
    BY <1>2, <1>3 DEF FromClient, Unsent, FromBrokerSocket
  <2>2. OrderInv'
    BY <1>2, <1>3, <2>1 DEF OrderInv, AllBefore
  <2>3. StageInv'
    BY <1>2, <1>3, <2>1 DEF StageInv, Alive
  <2>4. QED
    BY <2>2, <2>3
<1>4. CASE /\ c2p' = Append(c2p, r)
           /\ \A p \in BrokerBound : Before(p, r)
           /\ r.type = "PUBLISH" => r.body \notin Range(bGot)
  <2>1. Range(c2p') = Range(c2p) \cup {r}
    BY <1>1, <1>4, AppendElements
  <2>2. /\ FromClient' = FromClient \cup {r} /\ Unsent' = Unsent \cup {r}
        /\ FromBrokerSocket' = FromBrokerSocket
    BY <1>2, <2>1 DEF FromClient, Unsent, FromBrokerSocket
  <2>3. Ordered(snap'.client_buf \o c2p')
    <3>0. PICK b, s : b = snap.client_buf /\ s = b \o c2p
      OBVIOUS
    <3>1. Ordered(s) /\ IsSeq(s) /\ Range(s) = Range(b) \cup Range(c2p)
      BY <1>1, <3>0, ConcatElements DEF OrderInv
    <3>2. \A p \in Range(s) : Before(p, r)
      BY <1>4, <3>0, <3>1 DEF BrokerBound, FromClient
    <3>3. b \o Append(c2p, r) = Append(s, r)
      <4>1. \A x, y : IsSeq(x) /\ IsSeq(y) => x \o Append(y, r) = Append(x \o y, r)
        BY AppendBehind
      <4>2. QED
        BY <1>1, <3>0, <4>1, Zenon
    <3>4. Ordered(Append(s, r))
      BY <3>1, <3>2, OrderedMore
    <3>5. QED
      BY <1>2, <1>4, <3>0, <3>3, <3>4
  <2>4. OrderInv'
    <3>1. \A p \in Range(p2b') \cup Raws(windows'.c2b), q \in Unsent' : Before(p, q)
      BY <1>2, <1>4, <2>2 DEF OrderInv, AllBefore, BrokerBound
    <3>2. \A p \in Range(buffer'), q \in FromClient' : Before(p, q)
      BY <1>2, <1>4, <2>2 DEF OrderInv, AllBefore, BrokerBound
    <3>3. QED
      BY <1>2, <2>3, <3>1, <3>2 DEF OrderInv, AllBefore
  <2>5. StageInv'
    BY <1>2, <1>4, <2>2 DEF StageInv, Alive
  <2>6. QED
    BY <2>4, <2>5
<1>5. QED
  BY <1>3, <1>4

\* What the window keeps stays underway while the client sends and reads, if a PUBREC it
\* reads is followed by the PUBREL.
LEMMA ClientUnderway ==
  ASSUME IInv, StageInv, UNCHANGED proxyVars, UNCHANGED <<p2b, b2p, link, bGot>>,
         Alive, phase \in {"connected", "frozen"}, NEW q \in Raws(windows.c2b),
         Range(c2p) \subseteq Range(c2p'),
         q.type # "PUBREL" /\ q.qos # 1 =>
           \A p \in Range(p2c) : p.type = "PUBREC" /\ p.id = q.id =>
             p \in Range(p2c') \/ Has(FromClient', {"PUBREL"}, q.id)
  PROVE  Underway(q)'
<1>1. UNCHANGED snap
  BY DEF proxyVars
<1>2. FromClient \subseteq FromClient' /\ FromBrokerSocket' = FromBrokerSocket
  BY <1>1 DEF FromClient, FromBrokerSocket
<1>3. Underway(q)
  BY DEF StageInv
<1>4. CASE q.type = "PUBREL"
  BY <1>2, <1>3, <1>4 DEF Underway
<1>5. CASE q.type # "PUBREL" /\ q.qos = 1
  BY <1>2, <1>3, <1>5 DEF Underway
<1>6. CASE q.type # "PUBREL" /\ q.qos # 1
  <2>1. Has(FromClient, {"PUBREL"}, q.id) => Has(FromClient', {"PUBREL"}, q.id)
    BY <1>2 DEF Has
  <2>2. Has(FromBrokerSocket \cup Range(p2c), {"PUBREC"}, q.id) =>
          \/ Has(FromBrokerSocket' \cup Range(p2c'), {"PUBREC"}, q.id)
          \/ Has(FromClient', {"PUBREL"}, q.id)
    BY <1>2, <1>6 DEF Has
  <2>3. QED
    BY <1>2, <1>3, <1>6, <2>1, <2>2 DEF Underway
<1>7. QED
  BY <1>4, <1>5, <1>6

\* The client reads a packet and answers with at most one, which is no PUBLISH.
LEMMA ClientTakesPasses ==
  ASSUME IInv, PassInv, UNCHANGED proxyVars, p2c # << >>,
         NEW reply, ClientTakes(reply), NEW r, reply = << >> \/ (reply = <<r>> /\ r.type # "PUBLISH"),
         \A id \in Ids : cOut'[id].st \in {"pub", "rel"} =>
                           cOut[id].st \in {"pub", "rel"} /\ cOut'[id].body = cOut[id].body,
         \A p \in BrokerBound : p.type = "PUBLISH" /\ p.qos = 2 => cOut'[p.id].st \in {"pub", "rel"},
         Head(p2c).type = "PUBREC" /\ Alive /\ phase \in {"connected", "frozen"} =>
           \A q \in Raws(windows.c2b) :
             q.type # "PUBREL" /\ q.qos # 1 /\ q.id = Head(p2c).id => Has(FromClient', {"PUBREL"}, q.id)
  PROVE  PassInv'
<1>1. /\ OrderInv /\ MessageInv /\ StageInv /\ RoutedInOrder /\ IsSeq(c2p) /\ IsSeq(p2c)
      /\ c2p' = c2p \o reply /\ p2c' = Tail(p2c)
      /\ UNCHANGED <<p2b, b2p, link, bGot, cSent>>
  BY DEF PassInv, IInv, TypeOK, StreamsOK, ClientTakes, brokerVars
<1>2. c2p \o << >> = c2p /\ c2p \o <<r>> = Append(c2p, r)
  <2>0. PICK S : S = Range(c2p) \cup {r}
    OBVIOUS
  <2>1. c2p \in Seq(S)
    BY <1>1, <2>0, SeqPlaces DEF IsSeq
  <2>2. QED
    BY <2>0, <2>1, ConcatEmptySeq, AppendIsConcat
<1>3. IsSeq(reply) /\ Range(reply) \subseteq {r}
  <2>1. IsSeq(<< >>) /\ IsSeq(<<r>>) /\ Range(<< >>) = {} /\ Range(<<r>>) = {r}
    BY ShortSeqs
  <2>2. QED
    BY <2>1
<1>4. /\ \A p \in BrokerBound' : p \in BrokerBound \/ (p = r /\ r.type # "PUBLISH")
      /\ \A p \in ClientBound' : p \in ClientBound
  <2>1. /\ \A p \in BrokerBound' : p \in BrokerBound \/ p \in Range(reply)
        /\ \A p \in ClientBound' : p \in ClientBound
    BY <1>3, ClientTakesFrame
  <2>2. reply = << >> => Range(reply) = {}
    BY ShortSeqs
  <2>3. QED
    BY <1>3, <2>1, <2>2
<1>5. MessageInv'
  <2>1. /\ \A p \in BrokerBound' : p.type = "PUBLISH" => p \in BrokerBound
        /\ Range(bGot') \subseteq 1..cSent
    BY <1>1, <1>4 DEF MessageInv
  <2>2. \A p \in BrokerBound' :
          p.type = "PUBLISH" => p.body \in Range(bGot') \/ \A m \in Range(bGot') : m < p.body
    BY <1>1, <2>1 DEF MessageInv
  <2>3. QED
    BY <1>1, <1>4, <2>1, <2>2, MessageKept
<1>6. /\ \/ c2p' = c2p
         \/ c2p' = Append(c2p, r) /\ \A p \in BrokerBound : Before(p, r)
      /\ c2p' = c2p \/ r.type # "PUBLISH"
  BY <1>1, <1>2 DEF Before
<1>7. ASSUME Alive, phase \in {"connected", "frozen"}, NEW q \in Raws(windows.c2b)
      PROVE  Underway(q)'
  <2>1. Range(c2p) \subseteq Range(c2p')
    BY <1>1, <1>3, ConcatElements
  <2>2. Range(p2c) = {Head(p2c)} \cup Range(p2c')
    BY <1>1, TailElements
  <2>3. q.type # "PUBREL" /\ q.qos # 1 =>
           \A p \in Range(p2c) : p.type = "PUBREC" /\ p.id = q.id =>
             p \in Range(p2c') \/ Has(FromClient', {"PUBREL"}, q.id)
    BY <1>7, <2>2
  <2>4. QED
    BY <1>1, <1>7, <2>1, <2>3, ClientUnderway
<1>8. OrderInv' /\ StageInv'
  BY <1>1, <1>6, <1>7, ClientPasses
<1>9. RoutedInOrder'
  BY <1>1 DEF RoutedInOrder
<1>10. QED
  BY <1>5, <1>8, <1>9 DEF PassInv

\* What the client answers a PUBLISH or PUBREL of the broker with, and what it does with
\* SUBACK, UNSUBACK, PINGRESP and DISCONNECT, is not about its own messages.
LEMMA ClientOnOthersPasses ==
  ASSUME IInv, PassInv, UNCHANGED proxyVars,
         \/ ClientOnPublish \/ ClientOnPubrel
         \/ ClientOnSuback \/ ClientOnPingresp \/ ClientOnDisconnect
  PROVE  PassInv'
<1>0. PICK p : p = Head(p2c)
  OBVIOUS
<1>1. /\ p2c # << >> /\ p.type # "PUBREC"
      /\ \/ cOut' = cOut
         \/ cOut[p.id].st \in {"sub", "unsub"} /\ cOut' = [cOut EXCEPT ![p.id] = Free]
  BY <1>0 DEF ClientOnPublish, ClientOnPubrel, ClientOnSuback, ClientOnPingresp,
              ClientOnDisconnect, HeadIs
<1>2. DOMAIN cOut = Ids /\ MessageInv
  BY DEF IInv, AckInv, PassInv
<1>3. PICK reply, r : ClientTakes(reply) /\ (reply = << >> \/ (reply = <<r>> /\ r.type # "PUBLISH"))
  <2>1. CASE ClientOnPublish
    <3>1. p.type = "PUBLISH" /\ ClientTakes(Answer(p))
      BY <1>0, <2>1 DEF ClientOnPublish, HeadIs
    <3>2. p.qos \in 0..2
      BY <1>0, <1>1, <3>1, ClientHead DEF BrokerFlow
    <3>3. /\ \A q \in Range(Answer(p)) : q.type \in {"PUBACK", "PUBREC"}
          /\ Answer(p) = << >> \/ \E q : q \in Range(Answer(p)) /\ Answer(p) = <<q>>
      BY <3>2, AnswerIs
    <3>4. QED
      BY <3>1, <3>3
  <2>2. CASE ClientOnPubrel
    <3>1. ClientTakes(<<Pkt("PUBCOMP", p.id)>>)
      BY <1>0, <2>2 DEF ClientOnPubrel
    <3>2. Pkt("PUBCOMP", p.id).type = "PUBCOMP"
      BY OwnPackets
    <3>3. QED
      BY <3>1, <3>2
  <2>3. CASE ClientOnSuback \/ ClientOnPingresp \/ ClientOnDisconnect
    BY <2>3 DEF ClientOnSuback, ClientOnPingresp, ClientOnDisconnect
  <2>4. QED
    BY <2>1, <2>2, <2>3
<1>4. ASSUME NEW id
      PROVE  /\ id \in Ids /\ cOut'[id].st \in {"pub", "rel"} => cOut'[id] = cOut[id]
             /\ cOut[id].st \in {"pub", "rel"} => cOut'[id].st \in {"pub", "rel"}
  <2>1. CASE cOut' = cOut
    BY <2>1
  <2>2. CASE cOut[p.id].st \in {"sub", "unsub"} /\ cOut' = [cOut EXCEPT ![p.id] = Free]
    <3>1. Free.st = "free"
      BY DEF Free
    <3>2. id # p.id => cOut'[id] = cOut[id]
      BY <2>2
    <3>3. id = p.id /\ id \in Ids => cOut'[id] = Free
      BY <1>2, <2>2
    <3>4. id = p.id => cOut[id].st \notin {"pub", "rel"}
      BY <2>2
    <3>5. QED
      BY <3>1, <3>2, <3>3, <3>4
  <2>3. QED
    BY <1>1, <2>1, <2>2
<1>5. \A q \in BrokerBound : q.type = "PUBLISH" /\ q.qos = 2 => cOut'[q.id].st \in {"pub", "rel"}
  BY <1>2, <1>4 DEF MessageInv
<1>6. \A id \in Ids : cOut'[id].st \in {"pub", "rel"} =>
                        cOut[id].st \in {"pub", "rel"} /\ cOut'[id].body = cOut[id].body
  BY <1>4
<1>7. QED
  BY <1>0, <1>1, <1>3, <1>5, <1>6, ClientTakesPasses

\* A PUBREC of a PUBLISH the window still keeps is answered with its PUBREL, or was
\* before, and then the PUBREL has not been read yet.
LEMMA ClientOnPubrecPasses ==
  ASSUME IInv, RetainInv, PassInv, UNCHANGED proxyVars, phase # "ended", ClientOnPubrec
  PROVE  PassInv'
<1>0. PICK p, rel : p = Head(p2c) /\ rel = Pkt("PUBREL", p.id)
  OBVIOUS
<1>1. /\ p2c # << >> /\ p.type = "PUBREC"
      /\ \/ /\ ClientTakes(<< >>) /\ cOut' = cOut
            /\ ~ (cOut[p.id].st = "pub" /\ ClientQoS[cOut[p.id].body] = 2)
         \/ /\ ClientTakes(<<rel>>)
            /\ cOut[p.id].st \in {"pub", "rel"}
            /\ cOut' = [cOut EXCEPT ![p.id] = [st |-> "rel", body |-> cOut[p.id].body]]
  BY <1>0 DEF ClientOnPubrec, HeadIs
<1>2. /\ DOMAIN cOut = Ids /\ Ids = 1..MaxId /\ cIds \in 0..MaxId /\ MaxId \in Nat
  BY <1>1, ClientHead
<1>3. /\ OrderInv /\ MessageInv /\ StageInv /\ QosInv /\ KeptInv /\ IsSeq(c2p)
      /\ windows \in Windows(Raws(windows.c2b), Raws(windows.b2c))
      /\ \A q \in BrokerBound : ClientFlow(q)
  BY DEF PassInv, RetainInv, IInv, TypeOK, StreamsOK, AckInv
<1>4. rel.type = "PUBREL" /\ rel.id = p.id
  BY <1>0, OwnPackets
<1>5. Raws(windows.c2b) \subseteq BrokerBound /\ Range(p2c) \subseteq ClientBound
  BY DEF BrokerBound, ClientBound, ToClient
<1>6. CASE /\ ClientTakes(<<rel>>)
           /\ cOut[p.id].st \in {"pub", "rel"}
           /\ cOut' = [cOut EXCEPT ![p.id] = [st |-> "rel", body |-> cOut[p.id].body]]
  <2>1. ASSUME NEW id \in Ids
        PROVE  /\ cOut'[id].body = cOut[id].body
               /\ cOut'[id].st \in {"pub", "rel"} <=> cOut[id].st \in {"pub", "rel"}
    <3>1. CASE id = p.id
      BY <1>2, <1>6, <3>1
    <3>2. CASE id # p.id
      <4>1. cOut'[id] = cOut[id]
        BY <1>2, <1>6, <3>2
      <4>2. QED
        BY <4>1
    <3>3. QED
      BY <3>1, <3>2
  <2>2. ASSUME NEW q \in BrokerBound, q.type = "PUBLISH", q.qos = 2
        PROVE  cOut'[q.id].st \in {"pub", "rel"}
    <3>1. q.id \in Ids
      BY <1>2, <1>3, <2>2 DEF ClientFlow
    <3>2. cOut[q.id].st \in {"pub", "rel"}
      BY <1>3, <2>2 DEF MessageInv
    <3>3. QED
      BY <2>1, <3>1, <3>2
  <2>3. Has(FromClient', {"PUBREL"}, p.id)
    <3>1. c2p' = c2p \o <<rel>> /\ IsSeq(<<rel>>) /\ Range(<<rel>>) = {rel}
      BY <1>6, ShortSeqs DEF ClientTakes
    <3>2. Range(c2p \o <<rel>>) = Range(c2p) \cup Range(<<rel>>)
      BY <1>3, <3>1, ConcatElements
    <3>3. rel \in Range(c2p')
      BY <3>1, <3>2
    <3>4. QED
      BY <1>4, <3>3 DEF Has, FromClient
  <2>4. rel.type # "PUBLISH"
    BY <1>4
  <2>5. QED
    BY <1>0, <1>1, <1>6, <2>1, <2>2, <2>3, <2>4, ClientTakesPasses
<1>7. CASE /\ ClientTakes(<< >>) /\ cOut' = cOut
           /\ ~ (cOut[p.id].st = "pub" /\ ClientQoS[cOut[p.id].body] = 2)
  <2>1. ASSUME Alive, phase \in {"connected", "frozen"}, NEW q \in Raws(windows.c2b),
               q.type # "PUBREL", q.qos # 1, q.id = p.id
        PROVE  Has(FromClient', {"PUBREL"}, q.id)
    <3>1. q.type = "PUBLISH" /\ q.qos > 0
      <4>1. \A e \in Range(windows.c2b) : Fits(e)
        BY <1>3 DEF StageInv, Fits
      <4>2. QED
        BY <2>1, <4>1, RawTypes
    <3>2. q.qos = 2 /\ q.id \in Ids
      BY <1>2, <1>3, <1>5, <2>1, <3>1 DEF ClientFlow
    <3>3. /\ cOut[q.id].st \in {"pub", "rel"}
          /\ ~ Has(ClientBound, {"PUBCOMP"}, q.id)
      BY <1>3, <1>5, <3>1, <3>2 DEF MessageInv
    <3>4. cOut[q.id].body = q.body
      BY <1>3, <1>5, <3>1, <3>2, <3>3 DEF ClientFlow
    <3>5. ClientQoS[q.body] = 2
      BY <1>2, <1>3, <1>5, <3>1, <3>2 DEF QosInv, QosFlow, NoId
    <3>6. cOut[q.id].st = "rel"
      BY <1>7, <2>1, <3>3, <3>4, <3>5
    <3>7. ~ Has(Range(p2c), {"PUBCOMP"}, q.id)
      BY <1>5, <3>3 DEF Has
    <3>8. Has(Unsent \cup Raws(windows.c2b), {"PUBREL"}, q.id)
      BY <1>3, <3>2, <3>6, <3>7 DEF KeptInv
    <3>9. ~ Has(Raws(windows.c2b), {"PUBREL"}, q.id)
      <4>1. ASSUME NEW o \in Raws(windows.c2b), o.type = "PUBREL", o.id = q.id PROVE FALSE
        <5>1. o = q
          BY <1>3, <2>1, <4>1, OneRaw
        <5>2. QED
          BY <2>1, <4>1, <5>1
      <4>2. QED
        BY <4>1 DEF Has
    <3>10. Range(buffer) = {}
      <4>1. link # "none"
        BY <2>1 DEF Alive
      <4>2. buffer = << >>
        BY <1>3, <2>1, <4>1 DEF StageInv
      <4>3. QED
        BY <4>2, ShortSeqs
    <3>11. Has(FromClient, {"PUBREL"}, q.id)
      BY <3>8, <3>9, <3>10 DEF Has, Unsent
    <3>12. FromClient' = FromClient
      <4>1. c2p' = c2p \o << >>
        BY <1>7 DEF ClientTakes
      <4>2. c2p' = c2p
        BY <1>3, <4>1 DEF IsSeq
      <4>3. QED
        BY <4>2 DEF FromClient, proxyVars
    <3>13. QED
      BY <3>11, <3>12
  <2>2. \A q \in BrokerBound : q.type = "PUBLISH" /\ q.qos = 2 => cOut'[q.id].st \in {"pub", "rel"}
    BY <1>3, <1>7 DEF MessageInv
  <2>3. QED
    BY <1>0, <1>1, <1>7, <2>1, <2>2, ClientTakesPasses
<1>8. QED
  BY <1>1, <1>6, <1>7

\* An acknowledgement that ends a handshake is not that of a QoS 2 PUBLISH that is still
\* on its way.
LEMMA ClientOnAckPasses ==
  ASSUME IInv, RetainInv, PassInv, UNCHANGED proxyVars, ClientOnAck
  PROVE  PassInv'
<1>0. PICK p : p = Head(p2c)
  OBVIOUS
<1>1. /\ p2c # << >> /\ (p.type = "PUBACK" \/ p.type = "PUBCOMP") /\ ClientTakes(<< >>)
      /\ \/ Completes(p) /\ cOut' = [cOut EXCEPT ![p.id] = Free]
         \/ cOut' = cOut
  BY <1>0 DEF ClientOnAck, HeadIs
<1>2. DOMAIN cOut = Ids /\ Ids = 1..MaxId /\ cIds \in 0..MaxId /\ MaxId \in Nat
  BY <1>1, ClientHead
<1>3. /\ MessageInv /\ QosInv /\ IsSeq(p2c) /\ \A q \in BrokerBound : ClientFlow(q)
  BY DEF PassInv, RetainInv, IInv, TypeOK, StreamsOK, AckInv
<1>4. p \in ClientBound
  BY <1>0, <1>1, <1>3, TailElements DEF ClientBound, ToClient
<1>5. ASSUME NEW q \in BrokerBound, q.type = "PUBLISH", q.qos = 2
      PROVE  cOut'[q.id] = cOut[q.id] /\ cOut[q.id].st \in {"pub", "rel"}
  <2>1. cOut[q.id].st \in {"pub", "rel"} /\ ~ Has(ClientBound, {"PUBCOMP"}, q.id)
    BY <1>3, <1>5 DEF MessageInv
  <2>2. q.id \in Ids /\ cOut[q.id].body = q.body
    BY <1>2, <1>3, <1>5, <2>1 DEF ClientFlow
  <2>3. ClientQoS[q.body] = 2
    BY <1>2, <1>3, <1>5, <2>2 DEF QosInv, QosFlow, NoId
  <2>4. CASE Completes(p) /\ cOut' = [cOut EXCEPT ![p.id] = Free]
    <3>1. p.id # q.id
      <4>1. p.type # "PUBCOMP" \/ p.id # q.id
        BY <1>4, <2>1 DEF Has
      <4>2. QED
        BY <2>2, <2>3, <2>4, <4>1 DEF Completes
    <3>2. QED
      BY <1>2, <2>1, <2>2, <2>4, <3>1
  <2>5. QED
    BY <1>1, <2>1, <2>4
<1>6. ASSUME NEW id \in Ids, cOut'[id].st \in {"pub", "rel"}
      PROVE  cOut'[id] = cOut[id]
  <2>1. Free.st = "free"
    BY DEF Free
  <2>2. CASE cOut' = [cOut EXCEPT ![p.id] = Free]
    BY <1>2, <1>6, <2>1, <2>2
  <2>3. QED
    BY <1>1, <2>2
<1>7. /\ \A id \in Ids : cOut'[id].st \in {"pub", "rel"} =>
                           cOut[id].st \in {"pub", "rel"} /\ cOut'[id].body = cOut[id].body
      /\ \A q \in BrokerBound : q.type = "PUBLISH" /\ q.qos = 2 => cOut'[q.id].st \in {"pub", "rel"}
  BY <1>5, <1>6
<1>8. p.type # "PUBREC"
  BY <1>1
<1>9. QED
  BY <1>0, <1>1, <1>7, <1>8, ClientTakesPasses

\* The client sends something other than a PUBLISH, or nothing.
LEMMA ClientAddsPasses ==
  ASSUME IInv, PassInv, UNCHANGED proxyVars, UNCHANGED <<p2c, p2b, b2p, link, bGot, cSent>>,
         NEW r, r.type # "PUBLISH", c2p' = c2p \/ c2p' = Append(c2p, r),
         \A id \in Ids : cOut'[id].st \in {"pub", "rel"} => cOut'[id] = cOut[id],
         \A id \in 1..cIds : cOut'[id] = cOut[id]
  PROVE  PassInv'
<1>1. /\ OrderInv /\ MessageInv /\ StageInv /\ RoutedInOrder /\ IsSeq(c2p)
      /\ cIds \in 0..MaxId /\ MaxId \in Nat /\ Ids = 1..MaxId
      /\ \A q \in BrokerBound : ClientFlow(q)
  BY EndpointsAssumption DEF PassInv, IInv, TypeOK, StreamsOK, AckInv, Ids
<1>2. UNCHANGED <<windows, buffer, snap, leftover>>
  BY DEF proxyVars
<1>3. Range(c2p) \subseteq Range(c2p') /\ Range(c2p') \subseteq Range(c2p) \cup {r}
  <2>1. Range(Append(c2p, r)) = Range(c2p) \cup {r}
    BY <1>1, AppendElements
  <2>2. Range(c2p') = Range(c2p) \/ Range(c2p') = Range(c2p) \cup {r}
    BY <2>1
  <2>3. QED
    BY <2>2
<1>4. ClientBound' = ClientBound /\ BrokerBound' \subseteq BrokerBound \cup {r}
  BY <1>2, <1>3 DEF ClientBound, ToClient, BrokerBound, FromClient
<1>5. MessageInv'
  <2>1. /\ \A p \in BrokerBound' : p.type = "PUBLISH" => p \in BrokerBound
        /\ Range(bGot') \subseteq 1..cSent
    BY <1>1, <1>4 DEF MessageInv
  <2>2. \A p \in BrokerBound' :
          p.type = "PUBLISH" => p.body \in Range(bGot') \/ \A m \in Range(bGot') : m < p.body
    BY <1>1, <2>1 DEF MessageInv
  <2>3. \A id \in Ids : cOut'[id].st \in {"pub", "rel"} =>
                          cOut[id].st \in {"pub", "rel"} /\ cOut'[id].body = cOut[id].body
    OBVIOUS
  <2>4. ASSUME NEW p \in BrokerBound, p.type = "PUBLISH", p.qos = 2
        PROVE  cOut'[p.id].st \in {"pub", "rel"}
    <3>1. p.id \in 1..cIds
      BY <1>1, <2>4 DEF ClientFlow
    <3>2. cOut[p.id].st \in {"pub", "rel"}
      BY <1>1, <2>4 DEF MessageInv
    <3>3. QED
      BY <3>1, <3>2
  <2>5. QED
    BY <1>1, <1>4, <2>1, <2>2, <2>3, <2>4, MessageKept
<1>6. \A q \in BrokerBound : Before(q, r)
  BY DEF Before
<1>7. ASSUME Alive, phase \in {"connected", "frozen"}, NEW q \in Raws(windows.c2b)
      PROVE  Underway(q)'
  BY <1>1, <1>3, <1>7, ClientUnderway
<1>8. OrderInv' /\ StageInv'
  BY <1>1, <1>6, <1>7, ClientPasses
<1>9. RoutedInOrder'
  BY <1>1 DEF RoutedInOrder
<1>10. QED
  BY <1>5, <1>8, <1>9 DEF PassInv

\* A message the client publishes is the newest, and its id, if it has one, is new.
LEMMA PublishPasses ==
  ASSUME IInv, RetainInv, PassInv, UNCHANGED proxyVars, NEW p, ClientSends(p, "pub"),
         cSent < Len(ClientQoS), cSent' = cSent + 1, p.type = "PUBLISH", p.body = cSent + 1,
         p.qos \in 0..2, p.id = IF p.qos = 0 THEN NoId ELSE cIds + 1, p.id = NoId \/ p.id \in Ids
  PROVE  PassInv'
<1>1. /\ OrderInv /\ MessageInv /\ StageInv /\ RoutedInOrder /\ IsSeq(c2p) /\ IsSeq(bGot)
      /\ cIds \in 0..MaxId /\ MaxId \in Nat /\ Ids = 1..MaxId /\ NoId = 0 /\ DOMAIN cOut = Ids
      /\ cSent \in Nat /\ QosInv
      /\ \A q \in BrokerBound : ClientFlow(q)
      /\ \A q \in ClientBound : ClientAnswer(q)
  BY EndpointsAssumption DEF PassInv, IInv, RetainInv, TypeOK, StreamsOK, AckInv, Ids, NoId
<1>2. /\ c2p' = Append(c2p, p) /\ UNCHANGED <<p2c, p2b, b2p, link, bGot>>
      /\ cOut' = IF p.id = NoId THEN cOut ELSE [cOut EXCEPT ![p.id] = [st |-> "pub", body |-> p.body]]
  BY DEF ClientSends, brokerVars
<1>3. UNCHANGED <<phase, windows, buffer, leftover, snap>>
  BY DEF proxyVars
<1>4. ASSUME NEW id
      PROVE  /\ id \in Ids /\ id # p.id => cOut'[id] = cOut[id]
             /\ id \in Ids /\ id = p.id => cOut'[id].st = "pub" /\ cOut'[id].body = p.body
  <2>1. CASE p.id = NoId
    BY <1>1, <1>2, <2>1
  <2>2. CASE p.id # NoId
    BY <1>1, <1>2, <2>2
  <2>3. QED
    BY <2>1, <2>2
<1>5. Range(c2p') = Range(c2p) \cup {p}
  BY <1>1, <1>2, AppendElements
<1>6. BrokerBound' = BrokerBound \cup {p} /\ ClientBound' = ClientBound
  BY <1>2, <1>3, <1>5 DEF FromClient, BrokerBound, ClientBound, ToClient
<1>7. \A q \in BrokerBound :
        /\ q.type = "PUBLISH" => q.id = NoId \/ q.id \in 1..cIds
        /\ q.type = "PUBREL" => q.id \in 1..cIds
  <2>1. \A q \in BrokerBound : q.type = "PUBLISH" /\ q.id # NoId => q.qos > 0
    BY <1>1 DEF QosInv, QosFlow
  <2>2. QED
    BY <1>1, <2>1 DEF ClientFlow
<1>8. \A q \in BrokerBound : q.type = "PUBLISH" => q.body \in 1..cSent
  BY <1>1 DEF MessageInv
<1>9. \A m \in Range(bGot) : m \in 1..cSent /\ m < p.body
  BY <1>1 DEF MessageInv
<1>10. p.id \notin 1..cIds
  BY <1>1
<1>11. MessageInv'
  <2>1. cSent' <= Len(ClientQoS) /\ Range(bGot') \subseteq 1..cSent'
    <3>1. Len(ClientQoS) \in Nat
      BY EndpointsAssumption
    <3>2. QED
      BY <1>1, <1>2, <1>9, <3>1
  <2>2. ASSUME NEW id \in Ids, cOut'[id].st \in {"pub", "rel"}
        PROVE  cOut'[id].body \in 1..cSent'
    <3>1. CASE id = p.id
      BY <1>1, <1>4, <3>1
    <3>2. CASE id # p.id
      <4>1. cOut[id].body \in 1..cSent
        BY <1>1, <1>4, <2>2, <3>2 DEF MessageInv
      <4>2. QED
        BY <1>1, <1>4, <3>2, <4>1
    <3>3. QED
      BY <3>1, <3>2
  <2>3. ASSUME NEW x \in BrokerBound, x.type = "PUBLISH"
        PROVE  /\ x.body \in 1..cSent'
               /\ x.body \in Range(bGot) \/ \A m \in Range(bGot) : m < x.body
               /\ x.qos = 2 => /\ cOut'[x.id].st \in {"pub", "rel"}
                               /\ ~ Has(ClientBound, {"PUBCOMP"}, x.id)
    <3>1. /\ x.body \in 1..cSent
          /\ x.body \in Range(bGot) \/ \A m \in Range(bGot) : m < x.body
          /\ x.qos = 2 => /\ cOut[x.id].st \in {"pub", "rel"}
                          /\ ~ Has(ClientBound, {"PUBCOMP"}, x.id)
      BY <1>1, <2>3 DEF MessageInv
    <3>2. x.qos = 2 => x.id \in Ids /\ x.id # p.id
      BY <1>1, <1>10, <2>3 DEF ClientFlow
    <3>3. QED
      BY <1>1, <1>4, <3>1, <3>2
  <2>4. /\ p.body \in 1..cSent'
        /\ \A m \in Range(bGot) : m < p.body
        /\ p.qos = 2 => cOut'[p.id].st \in {"pub", "rel"}
    BY <1>1, <1>4, <1>9
  <2>5. ~ Has(ClientBound, {"PUBCOMP"}, p.id)
    BY <1>1, <1>10 DEF Has, ClientAnswer
  <2>6. \A x, y \in BrokerBound : x.type = "PUBLISH" /\ y.type = "PUBLISH" =>
           /\ x.body = y.body => x.id = y.id
           /\ x.id = y.id => x.body = y.body \/ x.id = NoId
    BY <1>1 DEF MessageInv
  <2>7. \A y \in BrokerBound : y.type = "PUBLISH" =>
           p.body # y.body /\ (p.id = y.id => p.id = NoId)
    BY <1>1, <1>7, <1>8, <1>10
  <2>8. ASSUME NEW x \in BrokerBound', NEW y \in BrokerBound', x.type = "PUBLISH", y.type = "PUBLISH"
        PROVE  /\ x.body = y.body => x.id = y.id
               /\ x.id = y.id => x.body = y.body \/ x.id = NoId
    BY <1>6, <2>6, <2>7, <2>8
  <2>9. QED
    BY <1>2, <1>6, <2>1, <2>2, <2>3, <2>4, <2>5, <2>8 DEF MessageInv
<1>12. \A q \in BrokerBound : Before(q, p)
  BY <1>1, <1>7, <1>8, <1>10 DEF Before
<1>13. p.body \notin Range(bGot)
  BY <1>1, <1>9
<1>14. ASSUME Alive, phase \in {"connected", "frozen"}, NEW q \in Raws(windows.c2b)
       PROVE  Underway(q)'
  <2>1. Range(c2p) \subseteq Range(c2p')
    BY <1>5
  <2>2. QED
    BY <1>1, <1>2, <1>14, <2>1, ClientUnderway
<1>15. OrderInv' /\ StageInv'
  BY <1>1, <1>2, <1>12, <1>13, <1>14, ClientPasses
<1>16. RoutedInOrder'
  BY <1>1, <1>2 DEF RoutedInOrder
<1>17. QED
  BY <1>11, <1>15, <1>16 DEF PassInv

\* Everything the client does on its own account.
LEMMA ClientStepsPass ==
  ASSUME IInv, RetainInv, PassInv, ~ Reuse, UNCHANGED proxyVars, ClientSteps
  PROVE  PassInv'
<1>1. /\ cSent \in Nat /\ NoId = 0 /\ Ids = 1..MaxId /\ cIds \in 0..MaxId /\ MaxId \in Nat
      /\ DOMAIN cOut = Ids
  BY EndpointsAssumption DEF IInv, AckInv, NoId, Ids
<1>2. CASE ClientPublish
  <2>0. PICK m, q : m = cSent + 1 /\ q = ClientQoS[m]
    OBVIOUS
  <2>1. q \in 0..2 /\ cSent < Len(ClientQoS) /\ cSent' = cSent + 1
    <3>1. cSent < Len(ClientQoS) /\ ClientQoS \in Seq(0..2) /\ Len(ClientQoS) \in Nat
      BY <1>2, EndpointsAssumption DEF ClientPublish
    <3>2. m \in 1..Len(ClientQoS)
      BY <1>1, <2>0, <3>1
    <3>3. QED
      BY <1>2, <2>0, <3>1, <3>2 DEF ClientPublish
  <2>2. PICK id \in (IF q = 0 THEN {NoId} ELSE NextIds(cBusy, cIds)) :
          ClientSends(PublishPkt(id, q, m), "pub")
    BY <1>2, <2>0 DEF ClientPublish
  <2>3. PICK p : p = PublishPkt(id, q, m)
    OBVIOUS
  <2>4. p.type = "PUBLISH" /\ p.id = id /\ p.qos = q /\ p.body = m /\ ClientSends(p, "pub")
    BY <2>2, <2>3 DEF PublishPkt, Packet
  <2>5. q # 0 => p.id = cIds + 1 /\ p.id \in Ids
    BY <2>2, <2>4, FreshId
  <2>6. q = 0 => p.id = NoId
    BY <2>2, <2>4
  <2>7. QED
    BY <2>0, <2>1, <2>4, <2>5, <2>6, PublishPasses
<1>3. CASE ClientSubscribe \/ ClientUnsubscribe
  <2>1. /\ cSent' = cSent
        /\ \E type \in {"SUBSCRIBE", "UNSUBSCRIBE"}, st \in {"sub", "unsub"} :
             \E id \in NextIds(cBusy, cIds) : \E body : ClientSends(PktWith(type, id, body), st)
    BY <1>3 DEF ClientSubscribe, ClientUnsubscribe
  <2>2. ASSUME NEW type \in {"SUBSCRIBE", "UNSUBSCRIBE"}, NEW st \in {"sub", "unsub"},
               NEW id \in NextIds(cBusy, cIds), NEW body, ClientSends(PktWith(type, id, body), st)
        PROVE  PassInv'
    <3>1. PICK p : p = PktWith(type, id, body)
      OBVIOUS
    <3>2. p.type # "PUBLISH" /\ p.id = id /\ ClientSends(p, st)
      BY <2>2, <3>1 DEF PktWith, Packet
    <3>3. p.id = cIds + 1 /\ p.id # NoId
      BY <1>1, <3>2, FreshId
    <3>4. /\ c2p' = Append(c2p, p) /\ UNCHANGED <<p2c, p2b, b2p, link, bGot>>
          /\ cOut' = [cOut EXCEPT ![p.id] = [st |-> st, body |-> p.body]]
      BY <3>2, <3>3 DEF ClientSends, brokerVars
    <3>5. st # "pub" /\ st # "rel"
      OBVIOUS
    <3>6. \A i \in Ids : cOut'[i].st \in {"pub", "rel"} => cOut'[i] = cOut[i]
      BY <1>1, <3>4, <3>5
    <3>7. \A i \in 1..cIds : cOut'[i] = cOut[i]
      BY <1>1, <3>3, <3>4
    <3>8. QED
      BY <2>1, <3>2, <3>4, <3>6, <3>7, ClientAddsPasses
  <2>3. QED
    BY <2>1, <2>2
<1>4. CASE ClientPing
  <2>1. PICK p : p = Pkt("PINGREQ", NoId)
    OBVIOUS
  <2>2. p.type = "PINGREQ" /\ p.id = NoId /\ ClientSends(p, "free") /\ cSent' = cSent
    BY <1>4, <2>1, OwnPackets DEF ClientPing
  <2>3. c2p' = Append(c2p, p) /\ UNCHANGED <<p2c, p2b, b2p, link, bGot, cOut>>
    BY <2>2 DEF ClientSends, brokerVars
  <2>4. QED
    BY <2>2, <2>3, ClientAddsPasses
<1>5. CASE ClientLeave
  <2>1. PICK p : p = Pkt("DISCONNECT", NoId)
    OBVIOUS
  <2>2. /\ c2p' = c2p \/ c2p' = Append(c2p, p)
        /\ UNCHANGED <<p2c, p2b, b2p, link, bGot, cOut, cSent>>
    BY <1>5, <2>1 DEF ClientLeave, brokerVars
  <2>3. p.type = "DISCONNECT"
    BY <2>1, OwnPackets
  <2>4. QED
    BY <2>2, <2>3, ClientAddsPasses
<1>6. QED
  BY <1>2, <1>3, <1>4, <1>5 DEF ClientSteps

\* Steps of the broker take packets off its stream, or lose them.
LEMMA BrokerPasses ==
  ASSUME IInv, OrderInv, StageInv, UNCHANGED proxyVars, c2p' = c2p,
         Alive, link' \in {"up", "dead"}, link' = "dead" => p2b' = << >>,
         p2b' = p2b \/ (p2b # << >> /\ p2b' = Tail(p2b)) \/ p2b' = << >>,
         \A p \in Unsent : p.type = "PUBLISH" => p.body \notin Range(bGot'),
         \A p \in Range(p2b') : p.type = "PUBLISH" /\ p.body \in Range(bGot') => p.dup /\ p.qos > 0,
         link' = "up" /\ phase \in {"connected", "frozen"} =>
           \A q \in Raws(windows.c2b) : Underway(q)'
  PROVE  OrderInv' /\ StageInv'
<1>1. IsSeq(p2b)
  BY DEF IInv, TypeOK, StreamsOK
<1>2. UNCHANGED <<phase, windows, buffer, snap>>
  BY DEF proxyVars
<1>3. FromClient' = FromClient /\ Unsent' = Unsent
  BY <1>2 DEF FromClient, Unsent
<1>4. Ordered(p2b') /\ Range(p2b') \subseteq Range(p2b)
  <2>1. CASE p2b' = p2b
    BY <2>1 DEF OrderInv
  <2>2. CASE p2b # << >> /\ p2b' = Tail(p2b)
    BY <1>1, <2>2, TailElements, OrderedTail DEF OrderInv
  <2>3. CASE p2b' = << >>
    BY <2>3, OrderedShort, ShortSeqs
  <2>4. QED
    BY <2>1, <2>2, <2>3
<1>5. OrderInv'
  BY <1>2, <1>3, <1>4 DEF OrderInv, AllBefore
<1>6. /\ link # "none" /\ link' # "none" /\ link' # "syn" /\ (~ Alive' => link' = "dead")
      /\ (Alive' => link' = "up")
  BY DEF Alive
<1>7. StageInv'
  BY <1>2, <1>3, <1>4, <1>6 DEF StageInv
<1>8. QED
  BY <1>5, <1>7

\* What the window keeps stays underway if the packet the broker takes is answered.
LEMMA BrokerUnderway ==
  ASSUME IInv, StageInv, UNCHANGED proxyVars, UNCHANGED <<c2p, p2c>>,
         Alive, phase \in {"connected", "frozen"}, NEW q \in Raws(windows.c2b),
         Range(b2p) \subseteq Range(b2p'), Range(bGot) \subseteq Range(bGot'),
         \A p \in Range(p2b) :
           p.id = q.id =>
             \/ p \in Range(p2b')
             \/ p.type \notin {"PUBLISH", "PUBREL"}
             \/ p.type = "PUBLISH" /\ q.type = "PUBREL"
             \/ p.type = "PUBREL" /\ (q.type = "PUBREL" => Has(Range(b2p'), {"PUBCOMP"}, q.id))
             \/ /\ p.type = "PUBLISH" /\ q.body \in Range(bGot')
                /\ Has(Range(b2p'), {IF q.qos = 1 THEN "PUBACK" ELSE "PUBREC"}, q.id)
  PROVE  Underway(q)'
<1>1. UNCHANGED snap
  BY DEF proxyVars
<1>2. /\ FromClient' = FromClient /\ FromBrokerSocket \subseteq FromBrokerSocket'
      /\ Range(b2p') \subseteq FromBrokerSocket' /\ Range(p2c') = Range(p2c)
  BY <1>1 DEF FromClient, FromBrokerSocket
<1>3. Underway(q)
  BY DEF StageInv
<1>4. \A types, id : /\ Has(Range(b2p'), types, id) => Has(FromBrokerSocket', types, id)
                     /\ Has(FromBrokerSocket, types, id) => Has(FromBrokerSocket', types, id)
                     /\ Has(FromBrokerSocket \cup Range(p2c), types, id) =>
                          Has(FromBrokerSocket' \cup Range(p2c'), types, id)
                     /\ Has(FromBrokerSocket', types, id) =>
                          Has(FromBrokerSocket' \cup Range(p2c'), types, id)
  BY <1>2 DEF Has
<1>5. CASE q.type = "PUBREL"
  <2>1. Has(Range(p2b), {"PUBREL"}, q.id) =>
          Has(Range(p2b'), {"PUBREL"}, q.id) \/ Has(Range(b2p'), {"PUBCOMP"}, q.id)
    <3>1. SUFFICES ASSUME NEW p \in Range(p2b), p.type = "PUBREL", p.id = q.id,
                          ~ Has(Range(p2b'), {"PUBREL"}, q.id)
                   PROVE  Has(Range(b2p'), {"PUBCOMP"}, q.id)
      BY DEF Has
    <3>2. p \notin Range(p2b')
      BY <3>1 DEF Has
    <3>3. QED
      BY <1>5, <3>1, <3>2
  <2>2. QED
    BY <1>3, <1>4, <1>5, <2>1 DEF Underway
<1>6. CASE q.type # "PUBREL"
  <2>1. \/ Has(Range(p2b'), {"PUBLISH"}, q.id)
        \/ ~ Has(Range(p2b), {"PUBLISH"}, q.id)
        \/ /\ q.body \in Range(bGot')
           /\ Has(Range(b2p'), {IF q.qos = 1 THEN "PUBACK" ELSE "PUBREC"}, q.id)
    BY <1>6 DEF Has
  <2>2. CASE q.qos = 1
    BY <1>2, <1>3, <1>4, <1>6, <2>1, <2>2 DEF Underway
  <2>3. CASE q.qos # 1
    BY <1>2, <1>3, <1>4, <1>6, <2>1, <2>3 DEF Underway
  <2>4. QED
    BY <2>2, <2>3
<1>7. QED
  BY <1>5, <1>6

\* Steps of the broker that route nothing.
LEMMA BrokerMovesPasses ==
  ASSUME IInv, PassInv, UNCHANGED proxyVars, UNCHANGED <<c2p, p2c, cOut, cSent, bGot>>,
         Alive, link' \in {"up", "dead"}, link' = "dead" => p2b' = << >>,
         p2b' = p2b \/ (p2b # << >> /\ p2b' = Tail(p2b)) \/ p2b' = << >>,
         \A p \in Range(b2p') : p.type = "PUBCOMP" =>
           \/ p \in Range(b2p)
           \/ \A q \in BrokerBound' : q.type = "PUBLISH" /\ q.qos = 2 => p.id # q.id,
         link' = "up" /\ phase \in {"connected", "frozen"} =>
           \A q \in Raws(windows.c2b) : Underway(q)'
  PROVE  PassInv'
<1>1. OrderInv /\ MessageInv /\ StageInv /\ RoutedInOrder /\ IsSeq(p2b)
  BY DEF PassInv, IInv, TypeOK, StreamsOK
<1>2. UNCHANGED <<phase, windows, buffer, snap, leftover>>
  BY DEF proxyVars
<1>3. Range(p2b') \subseteq Range(p2b)
  BY <1>1, TailElements, ShortSeqs
<1>4. BrokerBound' \subseteq BrokerBound /\ ClientBound' \subseteq ClientBound \cup Range(b2p')
      /\ Range(b2p) \subseteq ClientBound
  BY <1>2, <1>3 DEF BrokerBound, ClientBound, ToClient, FromClient
<1>5. /\ \A p \in Unsent : p.type = "PUBLISH" => p.body \notin Range(bGot')
      /\ \A p \in Range(p2b') : p.type = "PUBLISH" /\ p.body \in Range(bGot') => p.dup /\ p.qos > 0
  BY <1>1, <1>3 DEF StageInv
<1>6. OrderInv' /\ StageInv'
  BY <1>1, <1>5, BrokerPasses
<1>7. MessageInv'
  <2>1. /\ \A p \in BrokerBound' : p.type = "PUBLISH" => p \in BrokerBound
        /\ Range(bGot') \subseteq 1..cSent
        /\ \A p \in BrokerBound' :
             p.type = "PUBLISH" => p.body \in Range(bGot') \/ \A m \in Range(bGot') : m < p.body
        /\ \A p \in BrokerBound : p.type = "PUBLISH" /\ p.qos = 2 => cOut'[p.id].st \in {"pub", "rel"}
    BY <1>1, <1>4 DEF MessageInv
  <2>2. \A p \in ClientBound', q \in BrokerBound' :
           p.type = "PUBCOMP" /\ q.type = "PUBLISH" /\ q.qos = 2 => p \in ClientBound \/ p.id # q.id
    BY <1>4
  <2>3. QED
    BY <1>1, <2>1, <2>2, MessageKept
<1>8. RoutedInOrder'
  BY <1>1 DEF RoutedInOrder
<1>9. QED
  BY <1>6, <1>7, <1>8 DEF PassInv

\* A broker that reads on: the connection is one of a running loop or still being set up.
LEMMA BrokerReading ==
  ASSUME IInv, StageInv, phase # "ended", link = "up", p2b # << >>, Head(p2b).type \in QosTypes
  PROVE  phase \in {"connected", "frozen"}
<1>1. IsSeq(p2b) /\ ControlOK
  BY DEF IInv, TypeOK, StreamsOK
<1>2. Head(p2b) \in Range(p2b)
  BY <1>1, TailElements
<1>3. QED
  BY <1>1, <1>2 DEF StageInv, ControlOK

\* The broker takes a packet other than PUBLISH and PUBREL.
LEMMA BrokerOthersPass ==
  ASSUME IInv, PassInv, UNCHANGED proxyVars,
         BrokerOnAck \/ BrokerOnPubrec \/ BrokerOnSubscribe \/ BrokerOnPing
  PROVE  PassInv'
<1>0. PICK p : p = Head(p2b)
  OBVIOUS
<1>1. /\ p2b # << >> /\ p.type \notin {"PUBLISH", "PUBREL"} /\ UNCHANGED bGot
      /\ \E t \in {"PUBREL", "SUBACK", "UNSUBACK", "PINGRESP"} : \E id :
           BrokerTakes(<< >>) \/ BrokerTakes(<<Pkt(t, id)>>)
  BY <1>0 DEF BrokerOnAck, BrokerOnPubrec, BrokerOnSubscribe, BrokerOnPing, HeadIs
<1>2. PICK reply, r : /\ BrokerTakes(reply) /\ r.type # "PUBCOMP"
                      /\ reply = << >> \/ reply = <<r>>
  BY <1>1, OwnPackets
<1>3. IsSeq(p2b) /\ IsSeq(b2p) /\ StageInv
  BY DEF PassInv, IInv, TypeOK, StreamsOK
<1>4. IsSeq(reply) /\ Range(reply) \subseteq {r}
  <2>1. IsSeq(<< >>) /\ IsSeq(<<r>>) /\ Range(<< >>) = {} /\ Range(<<r>>) = {r}
    BY ShortSeqs
  <2>2. QED
    BY <1>2, <2>1
<1>5. /\ link = "up" /\ p2b' = Tail(p2b) /\ b2p' = b2p \o reply
      /\ UNCHANGED <<c2p, p2c, link, cOut, cSent, bGot>>
  BY <1>1, <1>2 DEF BrokerTakes, clientVars
<1>6. /\ Range(b2p) \subseteq Range(b2p')
      /\ \A q \in Range(b2p') : q.type = "PUBCOMP" => q \in Range(b2p)
  <2>1. Range(b2p') = Range(b2p) \cup Range(reply)
    BY <1>3, <1>4, <1>5, ConcatElements
  <2>2. QED
    BY <1>2, <1>4, <2>1
<1>7. Alive /\ link' \in {"up", "dead"} /\ link' # "dead"
  BY <1>5 DEF Alive
<1>8. ASSUME phase \in {"connected", "frozen"}, NEW q \in Raws(windows.c2b)
      PROVE  Underway(q)'
  <2>1. \A x \in Range(p2b) : x = p \/ x \in Range(p2b')
    BY <1>0, <1>1, <1>3, <1>5, TailElements
  <2>2. \A x \in Range(p2b) : x \in Range(p2b') \/ x.type \notin {"PUBLISH", "PUBREL"}
    BY <1>1, <2>1
  <2>3. QED
    BY <1>3, <1>5, <1>6, <1>7, <1>8, <2>2, BrokerUnderway
<1>9. QED
  BY <1>1, <1>5, <1>6, <1>7, <1>8, BrokerMovesPasses

\* PUBCOMP answers PUBREL, and no PUBLISH of the id is left anywhere.
LEMMA BrokerOnPubrelPasses ==
  ASSUME IInv, PassInv, UNCHANGED proxyVars, BrokerOnPubrel
  PROVE  PassInv'
<1>0. PICK p, r : p = Head(p2b) /\ r = Pkt("PUBCOMP", p.id)
  OBVIOUS
<1>1. /\ p2b # << >> /\ p.type = "PUBREL" /\ UNCHANGED bGot /\ BrokerTakes(<<r>>)
  BY <1>0 DEF BrokerOnPubrel, HeadIs
<1>2. r.type = "PUBCOMP" /\ r.id = p.id
  BY <1>0, OwnPackets
<1>3. IsSeq(p2b) /\ IsSeq(b2p) /\ StageInv /\ OrderInv
  BY DEF PassInv, IInv, TypeOK, StreamsOK
<1>4. /\ link = "up" /\ p2b' = Tail(p2b) /\ b2p' = b2p \o <<r>>
      /\ UNCHANGED <<c2p, p2c, link, cOut, cSent, bGot>>
  BY <1>1 DEF BrokerTakes, clientVars
<1>5. Range(b2p') = Range(b2p) \cup {r}
  <2>1. IsSeq(<<r>>) /\ Range(<<r>>) = {r}
    BY ShortSeqs
  <2>2. QED
    BY <1>3, <1>4, <2>1, ConcatElements
<1>6. Alive /\ link' \in {"up", "dead"} /\ link' # "dead"
  BY <1>4 DEF Alive
<1>7. /\ Range(p2b) = {p} \cup Range(p2b')
      /\ \A x \in Range(p2b') : Before(p, x)
  BY <1>0, <1>1, <1>3, <1>4, TailElements, OrderedTail DEF OrderInv
<1>8. UNCHANGED <<windows, buffer, snap>>
  BY DEF proxyVars
<1>9. ASSUME NEW x \in BrokerBound', x.type = "PUBLISH" PROVE p.id # x.id
  <2>1. x \in Unsent \/ x \in Range(p2b') \/ x \in Raws(windows.c2b)
    BY <1>4, <1>8, <1>9 DEF BrokerBound, Unsent, FromClient
  <2>2. x \in Unsent => Before(p, x)
    BY <1>3, <1>7 DEF OrderInv, AllBefore
  <2>3. x \in Raws(windows.c2b) => p.id # x.id
    BY <1>1, <1>3, <1>7, <1>9 DEF OrderInv
  <2>4. QED
    BY <1>1, <1>7, <1>9, <2>1, <2>2, <2>3 DEF Before
<1>10. ASSUME phase \in {"connected", "frozen"}, NEW q \in Raws(windows.c2b)
       PROVE  Underway(q)'
  <2>1. p.id = q.id => Has(Range(b2p'), {"PUBCOMP"}, q.id)
    BY <1>2, <1>5 DEF Has
  <2>2. \A x \in Range(p2b) :
           x.id = q.id =>
             \/ x \in Range(p2b')
             \/ x.type = "PUBREL" /\ (q.type = "PUBREL" => Has(Range(b2p'), {"PUBCOMP"}, q.id))
    BY <1>1, <1>7, <2>1
  <2>3. Range(b2p) \subseteq Range(b2p')
    BY <1>5
  <2>4. QED
    BY <1>3, <1>4, <1>6, <1>10, <2>2, <2>3, BrokerUnderway
<1>11. \A x \in Range(b2p') : x.type = "PUBCOMP" =>
         \/ x \in Range(b2p)
         \/ \A q \in BrokerBound' : q.type = "PUBLISH" /\ q.qos = 2 => x.id # q.id
  BY <1>2, <1>5, <1>9
<1>12. QED
  BY <1>1, <1>4, <1>6, <1>10, <1>11, BrokerMovesPasses

\* The broker accepts a connection, closes it, or sends a message of its own.
LEMMA BrokerSidesPass ==
  ASSUME IInv, PassInv, UNCHANGED proxyVars, phase # "ended",
         BrokerOnConnect \/ BrokerOnDisconnect \/ BrokerCloses \/ BrokerPublish
  PROVE  PassInv'
<1>1. IsSeq(p2b) /\ IsSeq(b2p) /\ StageInv /\ DeliverInv
  BY DEF PassInv, IInv, TypeOK, StreamsOK
<1>2. CASE BrokerOnConnect
  <2>1. /\ link = "syn" /\ link' = "up" /\ p2b # << >> /\ p2b' = Tail(p2b)
        /\ UNCHANGED <<c2p, p2c, cOut, cSent, bGot>>
    BY <1>2 DEF BrokerOnConnect, HeadIs, clientVars
  <2>2. phase = "connack"
    BY <1>1, <2>1 DEF StageInv
  <2>3. \A x \in Range(b2p') : x.type # "PUBCOMP"
    <3>0. PICK a : a = Pkt("CONNACK", NoId)
      OBVIOUS
    <3>1. b2p' = <<a>> \/ b2p' = <<a>> \o Redelivery(bOut)
      BY <1>2, <3>0 DEF BrokerOnConnect
    <3>2. IsSeq(<<a>>) /\ Range(<<a>>) = {a} /\ a.type = "CONNACK"
      BY <3>0, ShortSeqs, OwnPackets
    <3>3. IsSeq(Redelivery(bOut)) /\ \A x \in Range(Redelivery(bOut)) : x.type # "PUBCOMP"
      BY <1>1, RedeliveryIs
    <3>4. Range(<<a>> \o Redelivery(bOut)) = Range(<<a>>) \cup Range(Redelivery(bOut))
      BY <3>2, <3>3, ConcatElements
    <3>5. QED
      BY <3>1, <3>2, <3>3, <3>4
  <2>4. Alive
    BY <2>1 DEF Alive
  <2>5. QED
    BY <2>1, <2>2, <2>3, <2>4, BrokerMovesPasses
<1>3. CASE BrokerOnDisconnect \/ BrokerCloses
  <2>1. /\ Alive /\ link' = "dead" /\ p2b' = << >>
        /\ UNCHANGED <<c2p, p2c, cOut, cSent, bGot>>
    BY <1>3 DEF BrokerOnDisconnect, BrokerCloses, Alive, clientVars
  <2>2. \A x \in Range(b2p') : x.type = "PUBCOMP" => x \in Range(b2p)
    <3>1. CASE b2p' = b2p
      BY <3>1
    <3>2. CASE \E k \in 0..Len(b2p) : b2p' = SubSeq(b2p, 1, k)
      <4>1. PICK k \in 0..Len(b2p) : b2p' = SubSeq(b2p, 1, k)
        BY <3>2
      <4>2. Range(SubSeq(b2p, 1, k)) \subseteq Range(b2p)
        <5>1. Len(b2p) \in Nat
          BY <1>1 DEF IsSeq
        <5>2. k \in Nat /\ k <= Len(b2p)
          BY <5>1
        <5>3. QED
          BY <1>1, <5>2, SubSeqElements
      <4>3. QED
        BY <4>1, <4>2
    <3>3. CASE \E cause : b2p' = Append(b2p, PktWith("DISCONNECT", NoId, cause))
      <4>1. PICK d : b2p' = Append(b2p, d) /\ d.type = "DISCONNECT"
        BY <3>3, OwnPackets
      <4>2. Range(Append(b2p, d)) = Range(b2p) \cup {d}
        BY <1>1, AppendElements
      <4>3. QED
        BY <4>1, <4>2
    <3>4. QED
      BY <1>3, <3>1, <3>2, <3>3 DEF BrokerOnDisconnect, BrokerCloses
  <2>3. QED
    BY <2>1, <2>2, BrokerMovesPasses
<1>4. CASE BrokerPublish
  <2>1. /\ link = "up" /\ link' = link /\ p2b' = p2b
        /\ UNCHANGED <<c2p, p2c, cOut, cSent, bGot>>
    BY <1>4 DEF BrokerPublish, clientVars
  <2>2. PICK d : b2p' = Append(b2p, d) /\ d.type = "PUBLISH"
    <3>1. \E id, q, m : b2p' = Append(b2p, PublishPkt(id, q, m))
      BY <1>4 DEF BrokerPublish
    <3>2. \A id, q, m : PublishPkt(id, q, m).type = "PUBLISH"
      BY DEF PublishPkt, Packet
    <3>3. QED
      BY <3>1, <3>2
  <2>3. Range(b2p') = Range(b2p) \cup {d}
    BY <1>1, <2>2, AppendElements
  <2>4. /\ Range(b2p) \subseteq Range(b2p')
        /\ \A x \in Range(b2p') : x.type = "PUBCOMP" => x \in Range(b2p)
    BY <2>2, <2>3
  <2>5. Alive
    BY <2>1 DEF Alive
  <2>6. ASSUME phase \in {"connected", "frozen"}, NEW q \in Raws(windows.c2b)
        PROVE  Underway(q)'
    BY <1>1, <2>1, <2>4, <2>5, <2>6, BrokerUnderway
  <2>7. QED
    BY <2>1, <2>4, <2>5, <2>6, BrokerMovesPasses
<1>5. QED
  BY <1>2, <1>3, <1>4

\* One more message at the end keeps the order of first deliveries if it is not new or
\* newer than all before it.
LEMMA RoutedInOrderMore ==
  ASSUME IsSeq(bGot), RoutedInOrder, NEW m, bGot' = Append(bGot, m),
         m \in Range(bGot) \/ \A n \in Range(bGot) : n < m
  PROVE  RoutedInOrder'
<1>1. /\ Len(bGot) \in Nat /\ DOMAIN bGot = 1..Len(bGot) /\ bGot \in Seq(Range(bGot))
      /\ \A i \in 1..Len(bGot) : bGot[i] \in Range(bGot)
      /\ \A n \in Range(bGot) : \E i \in 1..Len(bGot) : bGot[i] = n
  BY SeqPlaces DEF IsSeq
<1>2. /\ DOMAIN bGot' = 1..(Len(bGot) + 1) /\ bGot'[Len(bGot) + 1] = m
      /\ \A i \in 1..Len(bGot) : bGot'[i] = bGot[i]
  <2>0. PICK S : S = Range(bGot) \cup {m}
    OBVIOUS
  <2>1. bGot \in Seq(S) /\ m \in S
    BY <2>0, SeqPlaces DEF IsSeq
  <2>2. QED
    BY <1>1, <2>1
<1>3. ASSUME NEW i \in 1..(Len(bGot) + 1), NEW j \in 1..(Len(bGot) + 1), i < j,
             \A k \in 1..(j - 1) : bGot'[k] # bGot'[j]
      PROVE  bGot'[i] < bGot'[j]
  <2>1. i \in 1..Len(bGot)
    BY <1>1, <1>3
  <2>2. CASE j = Len(bGot) + 1
    <3>1. \A k \in 1..Len(bGot) : bGot[k] # m
      BY <1>1, <1>2, <1>3, <2>2
    <3>2. m \notin Range(bGot)
      BY <1>1, <3>1
    <3>3. QED
      BY <1>1, <1>2, <2>1, <2>2, <3>2
  <2>3. CASE j \in 1..Len(bGot)
    <3>1. \A k \in 1..(j - 1) : k \in 1..Len(bGot)
      BY <1>1, <2>3
    <3>2. \A k \in 1..(j - 1) : bGot[k] # bGot[j]
      BY <1>2, <1>3, <2>3, <3>1
    <3>3. QED
      BY <1>1, <1>2, <1>3, <2>1, <2>3, <3>2 DEF RoutedInOrder
  <2>4. QED
    BY <1>1, <2>2, <2>3
<1>4. QED
  BY <1>2, <1>3 DEF RoutedInOrder

\* What of the messages the broker's next PUBLISH stands before or equals.
LEMMA HeadIsLeast ==
  ASSUME IInv, RetainInv, PassInv, phase # "ended", link = "up",
         p2b # << >>, Head(p2b).type = "PUBLISH"
  PROVE  LET p == Head(p2b)
         IN  /\ \A x \in Unsent \cup Range(Tail(p2b)) :
                  x.type = "PUBLISH" => p.body < x.body
             /\ \A x \in Raws(windows.c2b) :
                  x.type = "PUBLISH" => x.body \in Range(bGot) \/ p.body <= x.body
             /\ p.body \in 1..cSent
<1>0. PICK p : p = Head(p2b)
  OBVIOUS
<1>1. /\ IsSeq(p2b) /\ OrderInv /\ MessageInv /\ StageInv /\ cSent \in Nat
      /\ \A q \in BrokerBound : ClientFlow(q)
      /\ cIds \in 0..MaxId /\ MaxId \in Nat /\ Ids = 1..MaxId
  BY EndpointsAssumption DEF PassInv, IInv, TypeOK, StreamsOK, AckInv, Ids
<1>2. Range(p2b) = {p} \cup Range(Tail(p2b)) /\ \A x \in Range(Tail(p2b)) : Before(p, x)
  BY <1>0, <1>1, TailElements, OrderedTail DEF OrderInv
<1>3. \A x \in Unsent : Before(p, x)
  BY <1>1, <1>2 DEF OrderInv, AllBefore
<1>4. \A x \in Unsent \cup Range(Tail(p2b)) : x.type = "PUBLISH" => p.body < x.body
  BY <1>0, <1>2, <1>3 DEF Before
<1>5. Range(p2b) \subseteq BrokerBound /\ Raws(windows.c2b) \subseteq BrokerBound
  BY DEF BrokerBound
<1>6. p.body \in 1..cSent
  BY <1>0, <1>1, <1>2, <1>5 DEF MessageInv
<1>7. ASSUME NEW x \in Raws(windows.c2b), x.type = "PUBLISH"
      PROVE  x.body \in Range(bGot) \/ p.body <= x.body
  <2>1. phase \in {"connected", "frozen"}
    BY <1>1, BrokerReading DEF QosTypes
  <2>2. Underway(x)
    BY <1>1, <1>7, <2>1 DEF StageInv, Alive
  <2>3. CASE Has(Range(p2b), {"PUBLISH"}, x.id)
    <3>1. PICK y \in Range(p2b) : y.type = "PUBLISH" /\ y.id = x.id
      BY <2>3 DEF Has
    <3>2. x.id # NoId
      <4>1. \A e \in Range(windows.c2b) : Fits(e)
        BY <1>1 DEF StageInv, Fits
      <4>2. x.qos > 0
        BY <1>7, <4>1, RawTypes
      <4>3. x.id \in 1..cIds
        BY <1>1, <1>5, <1>7, <4>2 DEF ClientFlow
      <4>4. QED
        BY <1>1, <4>3 DEF NoId
    <3>3. x.body = y.body /\ y.body \in 1..cSent
      BY <1>1, <1>5, <1>7, <3>1, <3>2 DEF MessageInv
    <3>4. y = p \/ p.body < y.body
      BY <1>2, <1>4, <3>1
    <3>5. QED
      BY <1>1, <1>6, <3>3, <3>4
  <2>4. QED
    BY <1>7, <2>2, <2>3 DEF Underway
<1>8. QED
  BY <1>0, <1>4, <1>6, <1>7

\* What the broker does with a PUBLISH: it routes the message, unless it remembers the id
\* of a QoS 2 message it has routed, and answers.
LEMMA BrokerOnPublishIs ==
  ASSUME IInv, RetainInv, PassInv, BrokerOnPublish
  PROVE  LET p == Head(p2b)
         IN  /\ p2b # << >> /\ p.type = "PUBLISH" /\ p.qos \in 0..2 /\ p \in BrokerBound
             /\ link = "up" /\ p2b' = Tail(p2b) /\ BrokerTakes(Answer(p))
             /\ UNCHANGED <<c2p, p2c, link, cOut, cSent, bClean>>
             /\ \/ bGot' = Append(bGot, p.body) /\ (p.qos < 2 \/ p.id \notin bRecvd)
                \/ bGot' = bGot /\ p.qos = 2 /\ p.id \in bRecvd /\ p.body \in Range(bGot)
             /\ Range(bGot') = Range(bGot) \cup {p.body}
             /\ bRecvd' = IF p.qos = 2 THEN bRecvd \cup {p.id} ELSE bRecvd
<1>0. PICK p : p = Head(p2b)
  OBVIOUS
<1>1. /\ p2b # << >> /\ p.type = "PUBLISH" /\ BrokerTakes(Answer(p))
      /\ bGot' = IF p.qos < 2 \/ p.id \notin bRecvd THEN Append(bGot, p.body) ELSE bGot
      /\ bRecvd' = IF p.qos = 2 THEN bRecvd \cup {p.id} ELSE bRecvd
  BY <1>0 DEF BrokerOnPublish, HeadIs
<1>2. /\ ClientFlow(p) /\ IsSeq(bGot) /\ \A id \in bRecvd : id \in 1..cIds /\ Routed(id)
  BY <1>0, <1>1, BrokerHead
<1>3. p.qos \in 0..2
  BY <1>1, <1>2 DEF ClientFlow
<1>4. p \in BrokerBound
  <2>1. IsSeq(p2b)
    BY DEF IInv, TypeOK, StreamsOK
  <2>2. QED
    BY <1>0, <1>1, <2>1, TailElements DEF BrokerBound
<1>5. link = "up" /\ p2b' = Tail(p2b) /\ UNCHANGED <<c2p, p2c, link, cOut, cSent, bClean>>
  BY <1>0, <1>1 DEF BrokerTakes, clientVars
<1>6. CASE p.qos < 2 \/ p.id \notin bRecvd
  <2>1. bGot' = Append(bGot, p.body)
    BY <1>1, <1>6
  <2>2. Range(bGot') = Range(bGot) \cup {p.body}
    BY <1>2, <2>1, AppendElements
  <2>3. QED
    BY <1>0, <1>1, <1>3, <1>4, <1>5, <1>6, <2>1, <2>2
<1>7. CASE p.qos = 2 /\ p.id \in bRecvd
  <2>1. bGot' = bGot
    BY <1>1, <1>7
  <2>2. cOut[p.id].st \in {"pub", "rel"}
    BY <1>1, <1>4, <1>7 DEF PassInv, MessageInv
  <2>3. cOut[p.id].body = p.body
    BY <1>1, <1>2, <1>7, <2>2 DEF ClientFlow
  <2>4. p.body \in Range(bGot)
    BY <1>2, <1>7, <2>2, <2>3 DEF Routed
  <2>5. QED
    BY <1>0, <1>1, <1>3, <1>4, <1>5, <1>7, <2>1, <2>4
<1>8. QED
  BY <1>3, <1>6, <1>7

\* The broker routes the least of the messages that are left, and its answer is underway.
LEMMA BrokerOnPublishPasses ==
  ASSUME IInv, RetainInv, PassInv, UNCHANGED proxyVars, phase # "ended", BrokerOnPublish
  PROVE  PassInv'
<1>0. PICK p : p = Head(p2b)
  OBVIOUS
<1>1. /\ p2b # << >> /\ p.type = "PUBLISH" /\ p.qos \in 0..2 /\ p \in BrokerBound
      /\ link = "up" /\ p2b' = Tail(p2b) /\ BrokerTakes(Answer(p))
      /\ UNCHANGED <<c2p, p2c, link, cOut, cSent>>
      /\ bGot' = Append(bGot, p.body) \/ bGot' = bGot
      /\ Range(bGot') = Range(bGot) \cup {p.body}
  BY <1>0, BrokerOnPublishIs
<1>2. /\ \A x \in Unsent \cup Range(p2b') : x.type = "PUBLISH" => p.body < x.body
      /\ \A x \in Raws(windows.c2b) : x.type = "PUBLISH" => x.body \in Range(bGot) \/ p.body <= x.body
      /\ p.body \in 1..cSent
  BY <1>0, <1>1, HeadIsLeast
<1>3. /\ IsSeq(p2b) /\ IsSeq(b2p) /\ IsSeq(bGot) /\ cSent \in Nat
      /\ OrderInv /\ MessageInv /\ StageInv /\ RoutedInOrder /\ QosInv
      /\ cIds \in 0..MaxId /\ MaxId \in Nat /\ \A q \in BrokerBound : ClientFlow(q)
  BY EndpointsAssumption DEF PassInv, RetainInv, IInv, TypeOK, StreamsOK, AckInv
<1>4. UNCHANGED <<phase, windows, buffer, snap, leftover>>
  BY DEF proxyVars
<1>5. /\ Range(p2b) = {p} \cup Range(p2b')
      /\ Raws(windows.c2b) \cup Unsent \cup Range(p2b) = BrokerBound
      /\ Raws(windows.c2b) \cup Unsent \cup Range(p2b') = BrokerBound'
  <2>1. Range(p2b) = {p} \cup Range(p2b')
    BY <1>0, <1>1, <1>3, TailElements
  <2>2. QED
    BY <1>1, <1>4, <2>1 DEF BrokerBound, Unsent, FromClient
<1>6. \A x \in BrokerBound : x.type = "PUBLISH" => x.body \in 1..cSent
  BY <1>3 DEF MessageInv
<1>7. /\ IsSeq(Answer(p)) /\ Range(b2p') = Range(b2p) \cup Range(Answer(p))
      /\ \A x \in Range(Answer(p)) : x.type # "PUBCOMP"
  <2>1. IsSeq(Answer(p)) /\ \A x \in Range(Answer(p)) : x.type # "PUBCOMP"
    BY <1>1, AnswerIs
  <2>2. b2p' = b2p \o Answer(p)
    BY <1>1 DEF BrokerTakes
  <2>3. QED
    BY <1>3, <2>1, <2>2, ConcatElements
<1>8. /\ p.qos = 1 => Has(Range(b2p'), {"PUBACK"}, p.id)
      /\ p.qos = 2 => Has(Range(b2p'), {"PUBREC"}, p.id)
  <2>1. p.qos = 1 => Answer(p) = <<Pkt("PUBACK", p.id)>>
    BY DEF Answer
  <2>2. p.qos = 2 => Answer(p) = <<Pkt("PUBREC", p.id)>>
    BY DEF Answer
  <2>3. \A x : Range(<<x>>) = {x}
    BY ShortSeqs
  <2>4. \A t : Pkt(t, p.id).type = t /\ Pkt(t, p.id).id = p.id
    BY OwnPackets
  <2>5. QED
    BY <1>7, <2>1, <2>2, <2>3, <2>4 DEF Has
<1>9. MessageInv'
  <2>1. Range(bGot') \subseteq 1..cSent
    BY <1>1, <1>2, <1>3 DEF MessageInv
  <2>2. \A x \in BrokerBound' : x.type = "PUBLISH" => x \in BrokerBound
    BY <1>5
  <2>3. ASSUME NEW x \in BrokerBound', x.type = "PUBLISH"
        PROVE  x.body \in Range(bGot') \/ \A m \in Range(bGot') : m < x.body
    <3>1. x.body \in Range(bGot) \/ \A m \in Range(bGot) : m < x.body
      BY <1>3, <2>2, <2>3 DEF MessageInv
    <3>2. x.body \in Range(bGot) \/ p.body <= x.body
      BY <1>2, <1>3, <1>5, <1>6, <2>2, <2>3
    <3>3. x.body \in Range(bGot) \/ p.body = x.body \/ p.body < x.body
      BY <1>2, <1>3, <1>6, <2>2, <2>3, <3>2
    <3>4. QED
      BY <1>1, <3>1, <3>3
  <2>4. \A x \in ClientBound' : x.type = "PUBCOMP" => x \in ClientBound
    BY <1>1, <1>4, <1>7 DEF ClientBound, ToClient
  <2>5. \A x \in BrokerBound : x.type = "PUBLISH" /\ x.qos = 2 => cOut'[x.id].st \in {"pub", "rel"}
    BY <1>1, <1>3 DEF MessageInv
  <2>6. QED
    BY <1>1, <1>3, <2>1, <2>2, <2>3, <2>4, <2>5, MessageKept
<1>10. ASSUME phase \in {"connected", "frozen"}, NEW q \in Raws(windows.c2b)
       PROVE  Underway(q)'
  <2>1. ASSUME q.id = p.id, q.type # "PUBREL"
        PROVE  /\ q.body \in Range(bGot')
               /\ Has(Range(b2p'), {IF q.qos = 1 THEN "PUBACK" ELSE "PUBREC"}, q.id)
    <3>1. q.type = "PUBLISH" /\ q.qos > 0 /\ q \in BrokerBound
      <4>1. \A e \in Range(windows.c2b) : Fits(e)
        BY <1>3 DEF StageInv, Fits
      <4>2. QED
        BY <1>5, <1>10, <2>1, <4>1, RawTypes
    <3>2. q.id # NoId
      BY <1>3, <3>1 DEF ClientFlow, NoId
    <3>3. q.body = p.body
      BY <1>1, <1>3, <2>1, <3>1, <3>2 DEF MessageInv
    <3>4. p.qos > 0 /\ p.qos = ClientQoS[p.body] /\ q.qos = ClientQoS[q.body]
      BY <1>1, <1>3, <2>1, <3>1, <3>2 DEF QosInv, QosFlow
    <3>5. p.qos = q.qos /\ (p.qos = 1 \/ p.qos = 2)
      BY <1>1, <3>3, <3>4
    <3>6. QED
      BY <1>1, <1>8, <2>1, <3>3, <3>5
  <2>2. \A x \in Range(p2b) : x.id = q.id =>
          \/ x \in Range(p2b')
          \/ x.type = "PUBLISH" /\ q.type = "PUBREL"
          \/ /\ x.type = "PUBLISH" /\ q.body \in Range(bGot')
             /\ Has(Range(b2p'), {IF q.qos = 1 THEN "PUBACK" ELSE "PUBREC"}, q.id)
    BY <1>1, <1>5, <2>1
  <2>3. Range(b2p) \subseteq Range(b2p') /\ Range(bGot) \subseteq Range(bGot')
    BY <1>1, <1>7
  <2>4. Alive
    BY <1>1 DEF Alive
  <2>5. QED
    BY <1>1, <1>3, <1>10, <2>2, <2>3, <2>4, BrokerUnderway
<1>11. OrderInv' /\ StageInv'
  <2>1. \A x \in Unsent : x.type = "PUBLISH" => x.body \notin Range(bGot')
    <3>1. \A x \in Unsent : x.type = "PUBLISH" => x.body # p.body
      BY <1>2, <1>3, <1>5, <1>6
    <3>2. QED
      BY <1>1, <1>3, <3>1 DEF StageInv
  <2>2. \A x \in Range(p2b') : x.type = "PUBLISH" /\ x.body \in Range(bGot') => x.dup /\ x.qos > 0
    <3>1. \A x \in Range(p2b') : x.type = "PUBLISH" => x.body # p.body
      BY <1>2, <1>3, <1>5, <1>6
    <3>2. QED
      BY <1>1, <1>3, <1>5, <3>1 DEF StageInv
  <2>3. Alive /\ link' \in {"up", "dead"} /\ link' # "dead"
    BY <1>1 DEF Alive
  <2>4. QED
    BY <1>1, <1>3, <1>10, <2>1, <2>2, <2>3, BrokerPasses
<1>12. RoutedInOrder'
  <2>1. CASE bGot' = bGot
    BY <1>3, <2>1 DEF RoutedInOrder
  <2>2. CASE bGot' = Append(bGot, p.body)
    <3>1. p.body \in Range(bGot) \/ \A m \in Range(bGot) : m < p.body
      BY <1>1, <1>3 DEF MessageInv
    <3>2. QED
      BY <1>3, <2>2, <3>1, RoutedInOrderMore
  <2>3. QED
    BY <1>1, <2>1, <2>2
<1>13. QED
  BY <1>9, <1>11, <1>12 DEF PassInv

\* Every step of a peer.
LEMMA PeersKeepPassing ==
  ASSUME IInv, RetainInv, PassInv, ~ Reuse, Peers
  PROVE  PassInv'
<1>1. UNCHANGED proxyVars /\ phase # "ended"
  BY DEF Peers
<1>2. ASSUME ClientReads PROVE PassInv'
  BY <1>1, <1>2, ClientOnOthersPasses, ClientOnPubrecPasses, ClientOnAckPasses, Zenon DEF ClientReads
<1>3. ASSUME BrokerReads PROVE PassInv'
  BY <1>1, <1>3, BrokerOnPublishPasses, BrokerOnPubrelPasses, BrokerOthersPass,
     BrokerSidesPass, Zenon DEF BrokerReads
<1>4. QED
  BY <1>1, <1>2, <1>3, ClientStepsPass, BrokerSidesPass, Zenon DEF Peers

----------------------------------------------------------------------------
(* The theorems.                                                           *)

\* A session starts with nothing on its way.
LEMMA InitPass ==
  ASSUME Init
  PROVE  PassInv
<1>1. /\ c2p = << >> /\ p2c = << >> /\ p2b = << >> /\ b2p = << >> /\ leftover = << >>
      /\ buffer = << >> /\ snap.client_buf = << >> /\ snap.broker_buf = << >>
      /\ windows.c2b = << >> /\ windows.b2c = << >> /\ cOut = [i \in Ids |-> Free]
      /\ bGot = << >> /\ cSent = 0 /\ link = "up" /\ phase = "connected"
  BY DEF Init, EndpointsInit, NoSnap, EmptyWindows
<1>2. Range(<< >>) = {} /\ Raws(<< >>) = {} /\ RawSeq(<< >>) = << >> /\ Ordered(<< >>)
  BY ShortSeqs, OrderedShort DEF Raws, RawSeq
<1>3. BrokerBound = {} /\ ClientBound = {} /\ Unsent = {} /\ FromClient = {} /\ FromBrokerSocket = {}
  BY <1>1, <1>2 DEF BrokerBound, ClientBound, ToClient, FromClient, Unsent, FromBrokerSocket
<1>4. \A id \in Ids : cOut[id].st = "free"
  BY <1>1 DEF Free
<1>5. << >> \o << >> = << >>
  OBVIOUS
<1>6. OrderInv
  BY <1>1, <1>2, <1>3, <1>5 DEF OrderInv, AllBefore
<1>7. MessageInv
  <2>1. Len(ClientQoS) \in Nat
    BY EndpointsAssumption
  <2>2. QED
    BY <1>1, <1>2, <1>3, <1>4, <2>1 DEF MessageInv
<1>8. StageInv
  BY <1>1, <1>2, <1>3 DEF StageInv, Alive
<1>9. RoutedInOrder
  BY <1>1 DEF RoutedInOrder
<1>10. QED
  BY <1>6, <1>7, <1>8, <1>9 DEF PassInv

\* A stuttering step keeps it.
LEMMA StutterPass ==
  ASSUME PassInv, UNCHANGED vars
  PROVE  PassInv'
<1>1. UNCHANGED <<c2p, p2c, p2b, b2p, link, cOut, cSent, bGot, phase, windows, buffer, leftover, snap>>
  BY DEF vars, streams, clientVars, brokerVars, proxyVars
<1>2. UNCHANGED <<FromClient, Unsent, BrokerBound, ClientBound, FromBrokerSocket, Alive>>
  BY <1>1 DEF FromClient, Unsent, BrokerBound, ClientBound, ToClient, FromBrokerSocket, Alive
<1>3. \A q : Underway(q)' = Underway(q)
  BY <1>1, <1>2 DEF Underway
<1>4. OrderInv'
  BY <1>1, <1>2 DEF PassInv, OrderInv, AllBefore
<1>5. MessageInv'
  BY <1>1, <1>2 DEF PassInv, MessageInv
<1>6. StageInv'
  BY <1>1, <1>2, <1>3 DEF PassInv, StageInv
<1>7. RoutedInOrder'
  BY <1>1 DEF PassInv, RoutedInOrder
<1>8. QED
  BY <1>4, <1>5, <1>6, <1>7 DEF PassInv

\* The invariant of the way to the broker: every stage keeps the order of the client's
\* messages and lets no PUBLISH fall behind the PUBREL of its id, a message that was not
\* routed is newer than all that were, and what the window keeps of a working connection
\* is still underway.  It holds of every session whose packet ids are not used again.
THEOREM PassInvariant ==
  ASSUME ~ Reuse
  PROVE  Spec => []PassInv
<1>1. Init => PassInv
  BY InitPass
<1>2. IInv /\ RetainInv /\ PassInv /\ [Next]_vars => PassInv'
  BY ProxyKeepsPassing, PeersKeepPassing, StutterPass, Zenon DEF Next, RetainInv
<1>3. Spec => []IInv
  BY SessionInvariant
<1>4. Spec => []RetainInv
  BY RetainedInvariant
<1>5. QED
  BY <1>1, <1>2, <1>3, <1>4, PTL DEF Spec

\* Messages reach the broker for the first time in the order the client sent them, through
\* any number of outages, replays, freezes and adoptions.
THEOREM MessagesRoutedInOrder ==
  ASSUME ~ Reuse
  PROVE  Spec => []RoutedInOrder
<1>1. PassInv => RoutedInOrder
  BY DEF PassInv
<1>2. QED
  BY <1>1, PassInvariant, PTL

\* A PUBLISH the proxy sends again to a broker that has routed it carries the DUP bit.
THEOREM RepeatsToBrokerMarked ==
  ASSUME ~ Reuse
  PROVE  Spec => []DupToBroker
<1>1. IInv /\ PassInv => DupToBroker
  <2>1. SUFFICES ASSUME IInv, PassInv, NEW i \in DOMAIN p2b,
                        p2b[i].type = "PUBLISH", p2b[i].body \in Range(bGot)
                 PROVE  p2b[i].dup
    BY DEF DupToBroker
  <2>2. IsSeq(p2b) /\ StageInv
    BY <2>1 DEF IInv, TypeOK, StreamsOK, PassInv
  <2>3. p2b[i] \in Range(p2b)
    BY <2>1, <2>2, SeqPlaces
  <2>4. QED
    BY <2>1, <2>2, <2>3 DEF StageInv
<1>2. QED
  BY <1>1, PassInvariant, SessionInvariant, PTL

\* When nothing is on its way on a working connection, the client waits for nothing and the
\* c2b window and the outage buffer are empty: no entry is left behind to be sent again for
\* ever, and no handshake is stuck.
THEOREM ClientComesToRest ==
  ASSUME ~ Reuse
  PROVE  Spec => []ClientSettled
<1>1. IInv /\ RetainInv /\ PassInv => ClientSettled
  <2>1. SUFFICES ASSUME IInv, RetainInv, PassInv, Quiet
                 PROVE  /\ \A id \in Ids : cOut[id].st \notin {"pub", "rel"}
                        /\ windows.c2b = << >> /\ buffer = << >>
    BY DEF ClientSettled
  <2>2. /\ phase = "connected" /\ link = "up" /\ c2p = << >> /\ p2c = << >>
        /\ p2b = << >> /\ b2p = << >>
    BY <2>1 DEF Quiet
  <2>3. /\ StreamsOK /\ StageInv /\ KeptInv
        /\ windows \in Windows(Raws(windows.c2b), Raws(windows.b2c))
    BY <2>1 DEF IInv, TypeOK, StreamsOK, PassInv, RetainInv
  <2>4. Range(<< >>) = {}
    BY ShortSeqs
  <2>5. Range(snap.client_buf) = {} /\ Range(snap.broker_buf) = {}
    BY <2>2, <2>3, NoReadBuffers
  <2>6. buffer = << >>
    BY <2>2, <2>3 DEF StageInv
  <2>7. FromClient = {} /\ Unsent = {} /\ FromBrokerSocket = {}
    BY <2>2, <2>4, <2>5, <2>6 DEF FromClient, Unsent, FromBrokerSocket
  <2>8. Raws(windows.c2b) = {}
    <3>1. ASSUME NEW q \in Raws(windows.c2b) PROVE FALSE
      <4>1. Underway(q)
        BY <2>2, <2>3, <3>1 DEF StageInv, Alive
      <4>2. \A types : ~ Has({}, types, q.id)
        BY DEF Has
      <4>3. Range(p2b) = {} /\ FromBrokerSocket \cup Range(p2c) = {}
        BY <2>2, <2>4, <2>7
      <4>4. QED
        BY <2>7, <4>1, <4>2, <4>3 DEF Underway
    <3>2. QED
      BY <3>1
  <2>9. windows.c2b = << >>
    <3>1. windows.c2b \in Vectors(C2BStates, Raws(windows.c2b))
      BY <2>3 DEF Windows
    <3>2. /\ Len(windows.c2b) \in Nat /\ windows.c2b \in Seq(Range(windows.c2b))
          /\ \A i \in 1..Len(windows.c2b) : windows.c2b[i].raw \in Raws(windows.c2b)
      BY <3>1, EntryIds
    <3>3. Len(windows.c2b) = 0
      <4>1. Len(windows.c2b) # 0 => 1 \in 1..Len(windows.c2b)
        BY <3>2
      <4>2. QED
        BY <2>8, <3>2, <4>1
    <3>4. QED
      BY <3>2, <3>3
  <2>10. ASSUME NEW id \in Ids PROVE cOut[id].st \notin {"pub", "rel"}
    <3>1. \A types : ~ Has(Unsent \cup Raws(windows.c2b), types, id) /\ ~ Has(Range(p2c), types, id)
      BY <2>2, <2>4, <2>7, <2>8 DEF Has
    <3>2. QED
      BY <2>2, <2>3, <3>1 DEF KeptInv
  <2>11. QED
    BY <2>6, <2>9, <2>10
<1>2. QED
  BY <1>1, PassInvariant, RetainedInvariant, SessionInvariant, PTL

----------------------------------------------------------------------------
(* Exactly once.                                                           *)

\* While the CONNECT is on its way the proxy only waits, so a CONNECT is what it was when
\* it was written.
LEMMA ProxyConnects ==
  ASSUME TypeOK, StageInv, Proxy, link' = "syn"
  PROVE  p2b' # << >> /\ Head(p2b').body = "resume"
<1>1. IsSeq(b2p)
  BY DEF TypeOK, StreamsOK
<1>2. link = "syn" => phase \in {"connack", "ended"} /\ b2p = << >>
  <2>1. link = "syn" => Range(b2p) = {}
    BY DEF StageInv, FromBrokerSocket
  <2>2. b2p # << >> => Head(b2p) \in Range(b2p)
    BY <1>1, TailElements
  <2>3. QED
    BY <2>1, <2>2 DEF StageInv
<1>3. CASE ConnectBroker
  <2>1. PICK c : c = force_session_resumption(connect_raw)
    OBVIOUS
  <2>2. c.body = "resume" /\ p2b' = <<c>>
    BY <1>3, <2>1, OwnPackets DEF ConnectBroker, force_session_resumption
  <2>3. QED
    BY <2>2
<1>4. CASE \/ ForwardClientPacket \/ ForwardBrokerPacket \/ InterceptDisconnect
           \/ BrokerEof \/ ClientGone \/ KeepaliveTimeout
  BY <1>2, <1>4 DEF ForwardClientPacket, ForwardBrokerPacket, InterceptDisconnect, BrokerEof,
     ClientGone, KeepaliveTimeout, DropBroker, streams
<1>5. CASE \/ service_outage_packet \/ RecvConnack \/ RecvSuback \/ EstablishFails \/ Replay
  BY <1>2, <1>5 DEF service_outage_packet, RecvConnack, RecvSuback, EstablishFails, Replay,
     HeadIs, streams
<1>6. CASE Freeze \/ ResumeSession \/ adopt_session
  BY <1>2, <1>6 DEF Freeze, ResumeSession, adopt_session, DropBroker
<1>7. QED
  BY <1>3, <1>4, <1>5, <1>6 DEF Proxy

\* The proxy never makes the broker forget a session it resumes.
LEMMA ProxyKeepsMemory ==
  ASSUME ~ bClean, Proxy
  PROVE  UNCHANGED <<bRecvd, bGot, bClean>>
<1>1. CASE adopt_session
  BY <1>1 DEF adopt_session, Keep
<1>2. CASE ~ adopt_session
  BY <1>2 DEF Proxy, ForwardClientPacket, ForwardBrokerPacket, InterceptDisconnect, BrokerEof,
     ClientGone, KeepaliveTimeout, service_outage_packet, ConnectBroker, RecvConnack, RecvSuback,
     EstablishFails, Replay, Freeze, ResumeSession, brokerVars
<1>3. QED
  BY <1>1, <1>2

\* What the proxy sends again of a QoS 2 message, the broker remembers.
LEMMA ProxyKeepsOnce ==
  ASSUME IInv, PassInv, OnceInv, Proxy
  PROVE  OnceInv'
<1>1. TypeOK /\ StageInv /\ ~ bClean /\ RoutedOnce
  BY DEF IInv, PassInv, OnceInv
<1>2. MovesOnly
  BY <1>1, ProxyStep
<1>3. UNCHANGED <<bRecvd, bGot, bClean>>
  BY <1>1, ProxyKeepsMemory
<1>4. link' = "syn" => p2b' # << >> /\ Head(p2b').body = "resume"
  BY <1>1, ProxyConnects
<1>5. ASSUME NEW p \in Range(p2b') \cup Raws(windows'.c2b),
             p.type = "PUBLISH", p.qos = 2, p.body \in Range(bGot)
      PROVE  p.id \in bRecvd
  <2>1. p \in BrokerBound' /\ p.type \in QosTypes
    BY <1>5 DEF BrokerBound, QosTypes
  <2>2. PICK q \in BrokerBound : Same(p, q)
    BY <1>2, <2>1 DEF MovesOnly, OnlyFrom
  <2>3. q.type = "PUBLISH" /\ q.qos = 2 /\ q.body \in Range(bGot) /\ q.id = p.id
    BY <1>5, <2>2 DEF Same
  <2>4. q \notin Unsent
    BY <1>1, <2>3 DEF StageInv
  <2>5. q \in Range(p2b) \cup Raws(windows.c2b)
    BY <2>2, <2>4 DEF BrokerBound, Unsent
  <2>6. QED
    BY <2>3, <2>5 DEF OnceInv
<1>6. RoutedOnce'
  BY <1>1, <1>3 DEF RoutedOnce
<1>7. QED
  BY <1>1, <1>3, <1>4, <1>5, <1>6 DEF OnceInv

\* Steps of a peer that leave alone what the broker remembers.
LEMMA OnceKept ==
  ASSUME OnceInv, UNCHANGED proxyVars, UNCHANGED <<bGot, bRecvd>>, ~ bClean',
         UNCHANGED <<p2b, link>> \/ (Range(p2b') \subseteq Range(p2b) /\ link' # "syn")
  PROVE  OnceInv'
<1>1. UNCHANGED windows
  BY DEF proxyVars
<1>2. Range(p2b') \subseteq Range(p2b) /\ (link' = "syn" => UNCHANGED <<p2b, link>>)
  OBVIOUS
<1>3. RoutedOnce'
  BY DEF OnceInv, RoutedOnce
<1>4. QED
  BY <1>1, <1>2, <1>3 DEF OnceInv

\* A message that is routed again is a QoS 1 message.
LEMMA RepeatIsQos1 ==
  ASSUME IInv, RetainInv, PassInv, OnceInv, NEW p \in Range(p2b), p.type = "PUBLISH",
         p.body \in Range(bGot), p.qos < 2 \/ p.id \notin bRecvd
  PROVE  ClientQoS[p.body] = 1
<1>1. /\ StageInv /\ QosInv /\ cIds \in 0..MaxId /\ MaxId \in Nat /\ p \in BrokerBound
      /\ ClientFlow(p)
  BY EndpointsAssumption DEF PassInv, RetainInv, IInv, AckInv, BrokerBound
<1>2. p.qos \in 0..2 /\ p.qos > 0
  BY <1>1 DEF StageInv, ClientFlow
<1>3. p.qos # 2
  BY DEF OnceInv
<1>4. p.id # NoId
  BY <1>1, <1>2 DEF ClientFlow, NoId
<1>5. p.qos = ClientQoS[p.body]
  BY <1>1, <1>4 DEF QosInv, QosFlow
<1>6. QED
  BY <1>2, <1>3, <1>5

\* So no QoS 2 message is, and the broker remembers what it has taken.
LEMMA BrokerOnPublishOnce ==
  ASSUME IInv, RetainInv, PassInv, OnceInv, UNCHANGED proxyVars, phase # "ended", BrokerOnPublish
  PROVE  OnceInv'
<1>0. PICK p : p = Head(p2b)
  OBVIOUS
<1>1. /\ p2b # << >> /\ p.type = "PUBLISH" /\ p.qos \in 0..2 /\ p \in BrokerBound
      /\ link = "up" /\ p2b' = Tail(p2b) /\ UNCHANGED <<link, bClean>>
      /\ \/ bGot' = Append(bGot, p.body) /\ (p.qos < 2 \/ p.id \notin bRecvd)
         \/ bGot' = bGot
      /\ Range(bGot') = Range(bGot) \cup {p.body}
      /\ bRecvd' = IF p.qos = 2 THEN bRecvd \cup {p.id} ELSE bRecvd
  BY <1>0, BrokerOnPublishIs
<1>2. /\ IsSeq(p2b) /\ IsSeq(bGot) /\ MessageInv /\ StageInv /\ QosInv
      /\ cIds \in 0..MaxId /\ MaxId \in Nat /\ \A q \in BrokerBound : ClientFlow(q)
  BY EndpointsAssumption DEF PassInv, RetainInv, IInv, TypeOK, StreamsOK, AckInv
<1>3. p \in Range(p2b) /\ Range(p2b') \subseteq Range(p2b) /\ windows' = windows
  BY <1>0, <1>1, <1>2, TailElements DEF proxyVars
<1>4. ASSUME NEW x \in Range(p2b') \cup Raws(windows.c2b),
             x.type = "PUBLISH", x.qos = 2, x.body \in Range(bGot')
      PROVE  x.id \in bRecvd'
  <2>1. x \in Range(p2b) \cup Raws(windows.c2b) /\ x \in BrokerBound
    BY <1>3, <1>4 DEF BrokerBound
  <2>2. CASE x.body \in Range(bGot)
    BY <1>1, <1>4, <2>1, <2>2 DEF OnceInv
  <2>3. CASE x.body = p.body
    <3>1. x.id = p.id
      BY <1>1, <1>2, <1>4, <2>1, <2>3 DEF MessageInv
    <3>2. x.id # NoId
      BY <1>2, <1>4, <2>1 DEF ClientFlow, NoId
    <3>3. p.qos = 2
      BY <1>1, <1>2, <1>4, <2>1, <2>3, <3>1, <3>2 DEF QosInv, QosFlow
    <3>4. QED
      BY <1>1, <3>1, <3>3
  <2>4. QED
    BY <1>1, <1>4, <2>2, <2>3
<1>5. RoutedOnce'
  <2>1. CASE bGot' = bGot
    BY <2>1 DEF OnceInv, RoutedOnce
  <2>2. CASE bGot' = Append(bGot, p.body) /\ (p.qos < 2 \/ p.id \notin bRecvd)
    <3>1. p.body \in Range(bGot) => ClientQoS[p.body] < 2
      BY <1>1, <1>3, <2>2, RepeatIsQos1
    <3>2. /\ Len(bGot) \in Nat /\ DOMAIN bGot = 1..Len(bGot)
          /\ \A i \in 1..Len(bGot) : bGot[i] \in Range(bGot)
      BY <1>2, SeqPlaces
    <3>3. /\ DOMAIN bGot' = 1..(Len(bGot) + 1) /\ bGot'[Len(bGot) + 1] = p.body
          /\ \A i \in 1..Len(bGot) : bGot'[i] = bGot[i]
      <4>0. PICK S : S = Range(bGot) \cup {p.body}
        OBVIOUS
      <4>1. bGot \in Seq(S) /\ p.body \in S
        BY <1>2, <4>0, SeqPlaces DEF IsSeq
      <4>2. QED
        BY <2>2, <3>2, <4>1
    <3>4. ASSUME NEW i \in 1..(Len(bGot) + 1), NEW j \in 1..(Len(bGot) + 1),
                 i # j, bGot'[i] = bGot'[j]
          PROVE  ClientQoS[bGot'[i]] < 2
      <4>1. CASE i \in 1..Len(bGot) /\ j \in 1..Len(bGot)
        BY <3>2, <3>3, <3>4, <4>1 DEF OnceInv, RoutedOnce
      <4>2. CASE i = Len(bGot) + 1 \/ j = Len(bGot) + 1
        <5>1. i \in 1..Len(bGot) \/ j \in 1..Len(bGot)
          BY <3>2, <3>4, <4>2
        <5>2. p.body \in Range(bGot) /\ bGot'[i] = p.body
          BY <3>2, <3>3, <3>4, <4>2, <5>1
        <5>3. QED
          BY <3>1, <5>2
      <4>3. QED
        BY <3>2, <4>1, <4>2
    <3>5. QED
      BY <3>3, <3>4 DEF RoutedOnce
  <2>3. QED
    BY <1>1, <2>1, <2>2
<1>6. link' # "syn" /\ ~ bClean'
  BY <1>1 DEF OnceInv
<1>7. QED
  BY <1>3, <1>4, <1>5, <1>6 DEF OnceInv

\* The broker forgets an id only when no PUBLISH of it can follow.
LEMMA BrokerOnPubrelOnce ==
  ASSUME IInv, PassInv, OnceInv, UNCHANGED proxyVars, BrokerOnPubrel
  PROVE  OnceInv'
<1>0. PICK p : p = Head(p2b)
  OBVIOUS
<1>1. /\ p2b # << >> /\ p.type = "PUBREL" /\ link = "up" /\ p2b' = Tail(p2b)
      /\ UNCHANGED <<link, bGot, bClean>> /\ bRecvd' = bRecvd \ {p.id}
  BY <1>0 DEF BrokerOnPubrel, BrokerTakes, HeadIs
<1>2. IsSeq(p2b) /\ OrderInv
  BY DEF PassInv, IInv, TypeOK, StreamsOK
<1>3. /\ Range(p2b) = {p} \cup Range(p2b') /\ windows' = windows
      /\ \A x \in Range(p2b') : Before(p, x)
  BY <1>0, <1>1, <1>2, TailElements, OrderedTail DEF OrderInv, proxyVars
<1>4. \A x \in Range(p2b') \cup Raws(windows.c2b) : x.type = "PUBLISH" => x.id # p.id
  BY <1>1, <1>2, <1>3 DEF OrderInv, Before
<1>5. RoutedOnce'
  BY <1>1 DEF OnceInv, RoutedOnce
<1>6. QED
  BY <1>1, <1>3, <1>4, <1>5 DEF OnceInv

\* Every step of a peer.
LEMMA PeersKeepOnce ==
  ASSUME IInv, RetainInv, PassInv, OnceInv, Peers
  PROVE  OnceInv'
<1>1. UNCHANGED proxyVars /\ phase # "ended" /\ ~ bClean /\ IsSeq(p2b)
  BY DEF Peers, OnceInv, IInv, TypeOK, StreamsOK
<1>2. /\ p2b # << >> => Range(Tail(p2b)) \subseteq Range(p2b)
      /\ Range(<< >>) \subseteq Range(p2b)
  BY <1>1, TailElements, ShortSeqs
<1>3. CASE ClientSteps \/ ClientReads
  <2>1. UNCHANGED <<p2b, link, bGot, bRecvd, bClean>>
    BY <1>3 DEF ClientSteps, ClientReads, ClientPublish, ClientSubscribe, ClientUnsubscribe,
       ClientPing, ClientLeave, ClientOnPublish, ClientOnPubrel, ClientOnPubrec, ClientOnAck,
       ClientOnSuback, ClientOnPingresp, ClientOnDisconnect, ClientSends, ClientTakes, brokerVars
  <2>2. ~ bClean'
    BY <1>1, <2>1
  <2>3. QED
    BY <1>1, <2>1, <2>2, OnceKept, SMTT(30)
<1>4. CASE BrokerOnConnect
  <2>1. /\ link = "syn" /\ p2b # << >> /\ p2b' = Tail(p2b) /\ link' = "up"
        /\ bClean' = (Head(p2b).body = "clean") /\ bGot' = bGot
        /\ Head(p2b).body = "clean" \/ bRecvd' = bRecvd
    BY <1>4 DEF BrokerOnConnect, HeadIs, Keep
  <2>2. Head(p2b).body = "resume"
    BY <2>1 DEF OnceInv
  <2>3. UNCHANGED <<bGot, bRecvd>> /\ ~ bClean'
    BY <2>1, <2>2
  <2>4. link' # "syn"
    BY <2>1
  <2>5. QED
    BY <1>1, <1>2, <2>1, <2>3, <2>4, OnceKept
<1>5. CASE BrokerOnAck \/ BrokerOnPubrec \/ BrokerOnSubscribe \/ BrokerOnPing
  <2>1. /\ p2b # << >> /\ p2b' = Tail(p2b) /\ link' # "syn" /\ UNCHANGED <<bGot, bRecvd>> /\ ~ bClean'
    BY <1>1, <1>5 DEF BrokerOnAck, BrokerOnPubrec, BrokerOnSubscribe, BrokerOnPing, BrokerTakes, HeadIs
  <2>2. QED
    BY <1>1, <1>2, <2>1, OnceKept
<1>6. CASE BrokerOnDisconnect \/ BrokerCloses
  <2>1. /\ p2b' = << >> /\ link' # "syn" /\ UNCHANGED <<bGot, bRecvd>> /\ ~ bClean'
    BY <1>1, <1>6 DEF BrokerOnDisconnect, BrokerCloses, Keep
  <2>2. QED
    BY <1>1, <1>2, <2>1, OnceKept
<1>7. CASE BrokerPublish
  <2>1. UNCHANGED <<p2b, link, bGot, bRecvd>> /\ ~ bClean'
    BY <1>1, <1>7 DEF BrokerPublish
  <2>2. QED
    BY <1>1, <2>1, OnceKept
<1>8. QED
  BY <1>1, <1>3, <1>4, <1>5, <1>6, <1>7, BrokerOnPublishOnce, BrokerOnPubrelOnce, Zenon
     DEF Peers, BrokerReads

\* Exactly once has an invariant of its own: the broker remembers the id of every QoS 2
\* PUBLISH that could come again, because the proxy's CONNECT resumes the session and its
\* PUBREL goes out behind the last copy.  It holds of every session whose client did not
\* itself ask for a clean one and whose packet ids are not used again.
THEOREM OnceInvariant ==
  ASSUME ~ Reuse, ~ CleanStart
  PROVE  Spec => []OnceInv
<1>1. Init => OnceInv
  <2>1. SUFFICES ASSUME Init PROVE OnceInv
    OBVIOUS
  <2>2. /\ ~ bClean /\ link = "up" /\ p2b = << >> /\ windows.c2b = << >> /\ bGot = << >>
    BY <2>1 DEF Init, EndpointsInit, EmptyWindows
  <2>3. Range(<< >>) = {} /\ Raws(<< >>) = {}
    BY ShortSeqs DEF Raws
  <2>4. RoutedOnce
    BY <2>2 DEF RoutedOnce
  <2>5. QED
    BY <2>2, <2>3, <2>4 DEF OnceInv
<1>2. OnceInv /\ UNCHANGED vars => OnceInv'
  <2>1. SUFFICES ASSUME OnceInv, UNCHANGED vars PROVE OnceInv'
    OBVIOUS
  <2>2. UNCHANGED proxyVars /\ UNCHANGED <<p2b, link, bGot, bRecvd, bClean>>
    BY <2>1 DEF vars, streams, brokerVars
  <2>3. ~ bClean'
    BY <2>1, <2>2 DEF OnceInv
  <2>4. QED
    BY <2>1, <2>2, <2>3, OnceKept
<1>3. IInv /\ RetainInv /\ PassInv /\ OnceInv /\ [Next]_vars => OnceInv'
  BY <1>2, ProxyKeepsOnce, PeersKeepOnce, Zenon DEF Next
<1>4. QED
  BY <1>1, <1>3, SessionInvariant, RetainedInvariant, PassInvariant, PTL DEF Spec

\* The path to the broker as a whole: no request of the client is forgotten, messages keep
\* their order, and the broker remembers what could come again (windows, outage buffer and
\* read buffers; window.rs, outage.rs, forward.rs).
THEOREM PathInvariant ==
  ASSUME ~ Reuse, ~ CleanStart
  PROVE  Spec => []PathInv
BY RetainedInvariant, PassInvariant, OnceInvariant, PTL DEF PathInv

\* No QoS 2 message is routed a second time, whatever replays and flushes the outages and
\* sheds of a session bring.
THEOREM MessagesRoutedOnce ==
  ASSUME ~ Reuse, ~ CleanStart
  PROVE  Spec => []RoutedOnce
<1>1. OnceInv => RoutedOnce
  BY DEF OnceInv
<1>2. QED
  BY <1>1, OnceInvariant, PTL

----------------------------------------------------------------------------
(* The session as a delivery service.                                      *)

\* A message is acknowledged to the client after it came out, and only if its QoS asks for
\* it.
LEMMA AckIsAcknowledge ==
  ASSUME IInv, RetainInv, PassInv, ClientOnAck
  PROVE  \/ \E m \in 1..cSent : ToBroker!Acknowledge(m)
         \/ UNCHANGED <<cSent, bGot, cAcked>>
<1>0. PICK p, m : p = Head(p2c) /\ m = cOut[p.id].body
  OBVIOUS
<1>1. /\ p2c # << >> /\ p.type \in {"PUBACK", "PUBCOMP"} /\ UNCHANGED <<cSent, bGot>>
      /\ (Completes(p) /\ cAcked' = cAcked \cup {m}) \/ UNCHANGED cAcked
  BY <1>0 DEF ClientOnAck, HeadIs, ClientTakes, brokerVars
<1>2. CASE Completes(p) /\ cAcked' = cAcked \cup {m}
  <2>1. /\ ClientAnswer(p) /\ cIds \in 0..MaxId /\ MaxId \in Nat /\ Ids = 1..MaxId /\ IsSeq(bGot)
    BY <1>0, <1>1, ClientHead
  <2>2. p.id \in Ids /\ Routed(p.id)
    BY <1>1, <2>1 DEF ClientAnswer
  <2>3. cOut[p.id].st \in {"pub", "rel"}
    BY <1>2 DEF Completes
  <2>4. m \in 1..cSent /\ m \in Range(bGot)
    BY <1>0, <2>2, <2>3 DEF PassInv, MessageInv, Routed
  <2>5. ClientQoS[m] > 0
    <3>1. cOut[p.id].st = "rel" => ClientQoS[m] = 2
      BY <1>0, <2>2 DEF RetainInv, QosInv
    <3>2. ClientQoS[m] = 1 \/ ClientQoS[m] = 2
      BY <1>0, <1>2, <3>1 DEF Completes
    <3>3. QED
      BY <3>2
  <2>6. \E i \in DOMAIN bGot : bGot[i] = m
    BY <2>1, <2>4, SeqPlaces
  <2>7. ToBroker!Acknowledge(m)
    BY <1>1, <1>2, <2>5, <2>6 DEF ToBroker!Acknowledge
  <2>8. QED
    BY <2>4, <2>7
<1>3. QED
  BY <1>1, <1>2

\* A message comes out in its turn, or again if it is a QoS 1 message.
LEMMA PublishIsDeliver ==
  ASSUME IInv, RetainInv, PassInv, OnceInv, BrokerOnPublish
  PROVE  \/ \E m \in 1..cSent : ToBroker!Deliver(m)
         \/ UNCHANGED <<cSent, bGot, cAcked>>
<1>0. PICK p : p = Head(p2b)
  OBVIOUS
<1>1. /\ p2b # << >> /\ p.type = "PUBLISH" /\ p \in BrokerBound /\ UNCHANGED cSent
      /\ \/ bGot' = Append(bGot, p.body) /\ (p.qos < 2 \/ p.id \notin bRecvd)
         \/ bGot' = bGot
  BY <1>0, BrokerOnPublishIs
<1>2. UNCHANGED cAcked
  BY DEF BrokerOnPublish, BrokerTakes, clientVars
<1>3. CASE bGot' = Append(bGot, p.body) /\ (p.qos < 2 \/ p.id \notin bRecvd)
  <2>1. IsSeq(bGot) /\ IsSeq(p2b) /\ MessageInv
    BY DEF PassInv, IInv, TypeOK, StreamsOK, AckInv
  <2>2. p \in Range(p2b)
    BY <1>0, <1>1, <2>1, TailElements
  <2>3. p.body \in 1..cSent /\ (p.body \in Range(bGot) \/ \A n \in Range(bGot) : n < p.body)
    BY <1>1, <2>1 DEF MessageInv
  <2>4. /\ DOMAIN bGot = 1..Len(bGot) /\ \A i \in 1..Len(bGot) : bGot[i] \in Range(bGot)
    BY <2>1, SeqPlaces
  <2>5. CASE \E i \in DOMAIN bGot : bGot[i] = p.body
    <3>1. p.body \in Range(bGot)
      BY <2>4, <2>5
    <3>2. ClientQoS[p.body] = 1
      BY <1>1, <1>3, <2>2, <3>1, RepeatIsQos1
    <3>3. ToBroker!Deliver(p.body)
      BY <1>1, <1>2, <1>3, <2>5, <3>2 DEF ToBroker!Deliver, ToBroker!MayRepeat
    <3>4. QED
      BY <2>3, <3>3
  <2>6. CASE ~ \E i \in DOMAIN bGot : bGot[i] = p.body
    <3>1. p.body \notin Range(bGot)
      BY <2>1, <2>4, <2>6, SeqPlaces
    <3>2. \A i \in DOMAIN bGot : bGot[i] < p.body
      BY <2>3, <2>4, <3>1
    <3>3. ToBroker!Deliver(p.body)
      BY <1>1, <1>2, <1>3, <2>6, <3>2 DEF ToBroker!Deliver
    <3>4. QED
      BY <2>3, <3>3
  <2>7. QED
    BY <2>5, <2>6
<1>4. QED
  BY <1>1, <1>2, <1>3

\* Every step of the session is one of the service, or leaves it alone.
LEMMA StepIsDelivery ==
  ASSUME IInv, RetainInv, PassInv, OnceInv, Next
  PROVE  ToBroker!Next \/ UNCHANGED <<cSent, bGot, cAcked>>
<1>1. CASE Proxy
  BY <1>1, ProxyKeepsPeers DEF PeersKept, clientVars
<1>2. CASE ClientPublish
  <2>1. ToBroker!Publish
    BY <1>2 DEF ClientPublish, ClientSends, brokerVars, ToBroker!Publish
  <2>2. QED
    BY <2>1 DEF ToBroker!Next
<1>3. CASE ClientSubscribe \/ ClientUnsubscribe \/ ClientPing \/ ClientLeave
  BY <1>3 DEF ClientSubscribe, ClientUnsubscribe, ClientPing, ClientLeave, ClientSends, brokerVars
<1>4. CASE ClientOnAck
  BY <1>4, AckIsAcknowledge DEF ToBroker!Next
<1>5. CASE \/ ClientOnPublish \/ ClientOnPubrel \/ ClientOnPubrec
           \/ ClientOnSuback \/ ClientOnPingresp \/ ClientOnDisconnect
  BY <1>5 DEF ClientOnPublish, ClientOnPubrel, ClientOnPubrec, ClientOnSuback, ClientOnPingresp,
     ClientOnDisconnect, ClientTakes, brokerVars
<1>6. CASE BrokerOnPublish
  BY <1>6, PublishIsDeliver DEF ToBroker!Next
<1>7. CASE \/ BrokerOnConnect \/ BrokerOnPubrel \/ BrokerOnAck \/ BrokerOnPubrec
           \/ BrokerOnSubscribe \/ BrokerOnPing \/ BrokerOnDisconnect
           \/ BrokerPublish \/ BrokerCloses
  BY <1>7 DEF BrokerOnConnect, BrokerOnPubrel, BrokerOnAck, BrokerOnPubrec, BrokerOnSubscribe,
     BrokerOnPing, BrokerOnDisconnect, BrokerPublish, BrokerCloses, BrokerTakes, clientVars
<1>8. QED
  BY <1>1, <1>2, <1>3, <1>4, <1>5, <1>6, <1>7, Zenon
     DEF Next, Peers, ClientSteps, ClientReads, BrokerReads

\* From the client to the broker the proxy, with any number of outages, sheds, freezes and
\* adoptions, implements the delivery service: first deliveries in order, QoS 0 at most
\* once, QoS 1 at least once, QoS 2 exactly once, and no acknowledgement before the message
\* came out.
THEOREM SessionDelivers ==
  ASSUME ~ Reuse, ~ CleanStart
  PROVE  Spec => ClientToBrokerDelivery
<1>1. Init => ToBroker!Init
  BY DEF Init, EndpointsInit, ToBroker!Init
<1>2. IInv /\ RetainInv /\ PassInv /\ OnceInv /\ [Next]_vars => [ToBroker!Next]_(ToBroker!vars)
  <2>1. SUFFICES ASSUME IInv, RetainInv, PassInv, OnceInv, [Next]_vars
                 PROVE  ToBroker!Next \/ UNCHANGED <<cSent, bGot, cAcked>>
    BY DEF ToBroker!vars
  <2>2. CASE UNCHANGED vars
    BY <2>2 DEF vars, clientVars, brokerVars
  <2>3. QED
    BY <2>1, <2>2, StepIsDelivery
<1>3. QED
  BY <1>1, <1>2, SessionInvariant, RetainedInvariant, PassInvariant, OnceInvariant, PTL
     DEF Spec, ClientToBrokerDelivery, ToBroker!Spec

----------------------------------------------------------------------------
(* Subscriptions.                                                          *)

\* p is about the filter f, and the last of s that is gives it the options o.
About(p, f) ==
  \/ p.type = "SUBSCRIBE" /\ f \in DOMAIN p.body
  \/ p.type = "UNSUBSCRIBE" /\ f \in p.body

Silent(s, f) == \A i \in DOMAIN s : ~ About(s[i], f)

Settles(s, f, o) ==
  \E i \in DOMAIN s : /\ s[i].type = "SUBSCRIBE" /\ f \in DOMAIN s[i].body /\ s[i].body[f] = o
                      /\ \A j \in DOMAIN s : i < j => ~ About(s[j], f)

\* What becomes of table when s is read ends with all that is in subs.
LeadsTo(table, s, subs) ==
  \A f \in DOMAIN subs :
    \/ Settles(s, f, subs[f])
    \/ Silent(s, f) /\ f \in DOMAIN table /\ table[f] = subs[f]

\* Why routing is restored: once the table was sent again (resubscribe_packet), the broker's
\* subscriptions and what is on the way to it lead to the table, and flushing the outage
\* buffer behind it does not lead away from it.
SubsInv ==
  phase # "ended" =>
    /\ LeadsTo(subscriptions, buffer, subscriptions)
    /\ link = "up" /\ phase # "connack" => LeadsTo(bSubs, p2b, subscriptions)

\* The places of two sequences put together.
LEMMA ConcatPlaces ==
  ASSUME NEW s, IsSeq(s), NEW t, IsSeq(t)
  PROVE  /\ Len(s) \in Nat /\ Len(t) \in Nat
         /\ DOMAIN s = 1..Len(s) /\ DOMAIN t = 1..Len(t)
         /\ DOMAIN (s \o t) = 1..(Len(s) + Len(t)) /\ Len(s \o t) = Len(s) + Len(t)
         /\ \A i \in 1..Len(s) : (s \o t)[i] = s[i]
         /\ \A i \in 1..Len(t) : (s \o t)[Len(s) + i] = t[i]
<1>1. PICK S : s \in Seq(S) /\ t \in Seq(S)
  <2>1. s \in Seq(Range(s) \cup Range(t)) /\ t \in Seq(Range(s) \cup Range(t))
    BY SeqPlaces DEF IsSeq
  <2>2. QED
    BY <2>1
<1>2. s \o t \in Seq(S) /\ Len(s \o t) = Len(s) + Len(t)
  BY <1>1
<1>3. QED
  BY <1>1, <1>2

\* What a sequence says of a filter when another one follows.
LEMMA ConcatSettles ==
  ASSUME NEW s, IsSeq(s), NEW t, IsSeq(t), NEW f, NEW o
  PROVE  /\ Settles(t, f, o) => Settles(s \o t, f, o)
         /\ Silent(t, f) /\ Settles(s, f, o) => Settles(s \o t, f, o)
         /\ Silent(t, f) /\ Silent(s, f) => Silent(s \o t, f)
<1>0. PICK u, m, n : u = s \o t /\ m = Len(s) /\ n = Len(t)
  OBVIOUS
<1>1. /\ m \in Nat /\ n \in Nat /\ DOMAIN s = 1..m /\ DOMAIN t = 1..n /\ DOMAIN u = 1..(m + n)
      /\ \A i \in 1..m : u[i] = s[i]
      /\ \A i \in 1..n : u[m + i] = t[i]
  BY <1>0, ConcatPlaces
<1>2. \A j \in 1..(m + n) : j \in 1..m \/ (j - m \in 1..n /\ m + (j - m) = j)
  BY <1>1
<1>3. ASSUME NEW i \in 1..n, \A j \in 1..n : i < j => ~ About(t[j], f)
      PROVE  \A j \in 1..(m + n) : m + i < j => ~ About(u[j], f)
  <2>1. SUFFICES ASSUME NEW j \in 1..(m + n), m + i < j PROVE ~ About(u[j], f)
    OBVIOUS
  <2>2. j - m \in 1..n /\ m + (j - m) = j /\ i < j - m
    BY <1>1, <2>1
  <2>3. u[j] = t[j - m]
    BY <1>1, <2>2
  <2>4. QED
    BY <1>3, <2>2, <2>3
<1>4. Settles(t, f, o) => Settles(u, f, o)
  <2>1. SUFFICES ASSUME NEW i \in 1..n,
                        t[i].type = "SUBSCRIBE", f \in DOMAIN t[i].body, t[i].body[f] = o,
                        \A j \in 1..n : i < j => ~ About(t[j], f)
                 PROVE  Settles(u, f, o)
    BY <1>1 DEF Settles
  <2>2. m + i \in DOMAIN u /\ u[m + i] = t[i]
    BY <1>1
  <2>3. \A j \in DOMAIN u : m + i < j => ~ About(u[j], f)
    BY <1>1, <1>3, <2>1
  <2>4. QED
    BY <2>1, <2>2, <2>3 DEF Settles
<1>5. Silent(t, f) /\ Settles(s, f, o) => Settles(u, f, o)
  <2>1. SUFFICES ASSUME NEW i \in 1..m, Silent(t, f),
                        s[i].type = "SUBSCRIBE", f \in DOMAIN s[i].body, s[i].body[f] = o,
                        \A j \in 1..m : i < j => ~ About(s[j], f)
                 PROVE  Settles(u, f, o)
    BY <1>1 DEF Settles
  <2>2. i \in DOMAIN u /\ u[i] = s[i]
    BY <1>1
  <2>3. ASSUME NEW j \in DOMAIN u, i < j PROVE ~ About(u[j], f)
    BY <1>1, <1>2, <2>1, <2>3 DEF Silent
  <2>4. QED
    BY <2>1, <2>2, <2>3 DEF Settles
<1>6. Silent(t, f) /\ Silent(s, f) => Silent(u, f)
  <2>1. SUFFICES ASSUME Silent(t, f), Silent(s, f), NEW j \in DOMAIN u PROVE ~ About(u[j], f)
    BY DEF Silent
  <2>2. QED
    BY <1>1, <1>2, <2>1 DEF Silent
<1>7. QED
  BY <1>0, <1>4, <1>5, <1>6

\* One packet more: the table takes it in as the broker will.
LEMMA TrackLeads ==
  ASSUME NEW table, NEW s, IsSeq(s), NEW subs, LeadsTo(table, s, subs), NEW p
  PROVE  LeadsTo(table, Append(s, p), track(subs, p))
<1>1. IsSeq(<<p>>) /\ Append(s, p) = s \o <<p>>
  BY ShortSeqs, AppendIsConcat DEF IsSeq
<1>2. SUFFICES ASSUME NEW f \in DOMAIN track(subs, p)
               PROVE  \/ Settles(s \o <<p>>, f, track(subs, p)[f])
                      \/ /\ Silent(s \o <<p>>, f) /\ f \in DOMAIN table
                         /\ table[f] = track(subs, p)[f]
  BY <1>1 DEF LeadsTo
<1>3. CASE About(p, f)
  <2>1. p.type # "UNSUBSCRIBE"
    BY <1>2, <1>3 DEF About, track, remove, Without
  <2>2. p.type = "SUBSCRIBE" /\ f \in DOMAIN p.body
    BY <1>3, <2>1 DEF About
  <2>3. track(subs, p)[f] = p.body[f]
    BY <1>2, <2>2 DEF track, upsert, Override
  <2>4. Settles(<<p>>, f, p.body[f])
    BY <2>2 DEF Settles
  <2>5. QED
    BY <1>1, <2>3, <2>4, ConcatSettles
<1>4. CASE ~ About(p, f)
  <2>1. f \in DOMAIN subs /\ track(subs, p)[f] = subs[f]
    BY <1>2, <1>4 DEF About, track, upsert, remove, Override, Without
  <2>2. Silent(<<p>>, f)
    BY <1>4 DEF Silent
  <2>3. \/ Settles(s, f, subs[f])
        \/ Silent(s, f) /\ f \in DOMAIN table /\ table[f] = subs[f]
    BY <2>1 DEF LeadsTo
  <2>4. QED
    BY <1>1, <2>1, <2>2, <2>3, ConcatSettles
<1>5. QED
  BY <1>3, <1>4

\* The broker reads the first packet.
LEMMA ReadLeads ==
  ASSUME NEW table, NEW s, IsSeq(s), s # << >>, NEW subs, LeadsTo(table, s, subs)
  PROVE  LeadsTo(track(table, Head(s)), Tail(s), subs)
<1>0. PICK n, p, t : n = Len(s) /\ p = Head(s) /\ t = Tail(s)
  OBVIOUS
<1>1. /\ n \in Nat \ {0} /\ DOMAIN s = 1..n /\ p = s[1]
      /\ DOMAIN t = 1..(n - 1) /\ \A i \in 1..(n - 1) : t[i] = s[i + 1]
  <2>1. s \in Seq(Range(s))
    BY DEF IsSeq
  <2>2. QED
    BY <1>0, <2>1
<1>2. SUFFICES ASSUME NEW f \in DOMAIN subs
               PROVE  \/ Settles(t, f, subs[f])
                      \/ /\ Silent(t, f) /\ f \in DOMAIN track(table, p)
                         /\ track(table, p)[f] = subs[f]
  BY <1>0 DEF LeadsTo
<1>3. CASE Settles(s, f, subs[f])
  <2>1. PICK i \in 1..n : /\ s[i].type = "SUBSCRIBE" /\ f \in DOMAIN s[i].body /\ s[i].body[f] = subs[f]
                          /\ \A j \in 1..n : i < j => ~ About(s[j], f)
    BY <1>1, <1>3 DEF Settles
  <2>2. ASSUME NEW j \in 1..(n - 1), i - 1 < j PROVE ~ About(t[j], f)
    BY <1>1, <2>1, <2>2
  <2>3. CASE i = 1
    <3>1. Silent(t, f)
      BY <1>1, <2>2, <2>3 DEF Silent
    <3>2. f \in DOMAIN track(table, p) /\ track(table, p)[f] = p.body[f]
      BY <1>1, <2>1, <2>3 DEF track, upsert, Override
    <3>3. QED
      BY <1>1, <2>1, <2>3, <3>1, <3>2
  <2>4. CASE i # 1
    <3>1. i - 1 \in DOMAIN t /\ t[i - 1] = s[i]
      BY <1>1, <2>4
    <3>2. QED
      BY <1>1, <2>1, <2>2, <3>1 DEF Settles
  <2>5. QED
    BY <2>3, <2>4
<1>4. CASE Silent(s, f) /\ f \in DOMAIN table /\ table[f] = subs[f]
  <2>1. Silent(t, f) /\ ~ About(p, f)
    BY <1>1, <1>4 DEF Silent
  <2>2. f \in DOMAIN track(table, p) /\ track(table, p)[f] = table[f]
    BY <1>4, <2>1 DEF About, track, upsert, remove, Override, Without
  <2>3. QED
    BY <1>4, <2>1, <2>2
<1>5. QED
  BY <1>3, <1>4 DEF LeadsTo

\* Nothing on the way, and a re-SUBSCRIBE at the end of what is.
LEMMA ResubscribeLeads ==
  ASSUME NEW table, NEW s, IsSeq(s)
  PROVE  /\ LeadsTo(table, << >>, table)
         /\ \A any : table # NoSubs => LeadsTo(any, s \o resubscribe_packet(table), table)
<1>1. ASSUME NEW f PROVE Silent(<< >>, f)
  BY DEF Silent
<1>2. LeadsTo(table, << >>, table)
  BY <1>1 DEF LeadsTo
<1>3. ASSUME NEW any, table # NoSubs, NEW f \in DOMAIN table
      PROVE  Settles(s \o resubscribe_packet(table), f, table[f])
  <2>1. PICK p : /\ p.type = "SUBSCRIBE" /\ p.body = table
                 /\ resubscribe_packet(table) = <<p>>
    BY <1>3, OwnPackets DEF resubscribe_packet
  <2>2. Settles(<<p>>, f, table[f])
    BY <2>1 DEF Settles
  <2>3. QED
    BY <2>1, <2>2, ShortSeqs, ConcatSettles
<1>4. QED
  BY <1>2, <1>3 DEF LeadsTo

\* Packets of messages in between, and a sequence that keeps to the table at the end.
LEMMA FlushLeads ==
  ASSUME NEW table, NEW subs, NEW s, IsSeq(s), NEW t, IsSeq(t), NEW u, IsSeq(u),
         LeadsTo(table, s, subs), LeadsTo(subs, u, subs),
         \A p \in Range(t) : p.type \notin {"SUBSCRIBE", "UNSUBSCRIBE"}
  PROVE  LeadsTo(table, s \o (t \o u), subs)
<1>1. SUFFICES ASSUME NEW f \in DOMAIN subs
               PROVE  \/ Settles(s \o (t \o u), f, subs[f])
                      \/ /\ Silent(s \o (t \o u), f) /\ f \in DOMAIN table
                         /\ table[f] = subs[f]
  BY DEF LeadsTo
<1>2. Silent(t, f)
  BY SeqPlaces DEF Silent, About
<1>3. /\ Settles(s, f, subs[f]) \/ (Silent(s, f) /\ f \in DOMAIN table /\ table[f] = subs[f])
      /\ Settles(u, f, subs[f]) \/ Silent(u, f)
  BY DEF LeadsTo
<1>4. Settles(t \o u, f, subs[f]) \/ Silent(t \o u, f)
  BY <1>2, <1>3, ConcatSettles
<1>5. IsSeq(t \o u)
  BY ConcatElements
<1>6. QED
  BY <1>3, <1>4, <1>5, ConcatSettles

\* A step that leaves the table and the buffer alone, and of the broker's side all or nothing.
LEMMA SubsFrame ==
  ASSUME SubsInv, phase # "ended", UNCHANGED <<subscriptions, buffer>>,
         \/ phase' = "ended" \/ phase' = "connack" \/ link' # "up"
         \/ phase # "connack" /\ UNCHANGED <<link, p2b, bSubs>>
  PROVE  SubsInv'
BY DEF SubsInv

\* Every step of the proxy keeps the broker on its way to the table.
LEMMA ProxyKeepsSubs ==
  ASSUME IInv, PassInv, SubsInv, Proxy
  PROVE  SubsInv'
<1>1. IsSeq(p2b) /\ IsSeq(buffer) /\ TypeOK
  BY DEF IInv, TypeOK, StreamsOK
<1>2. phase # "ended"
  BY DEF Proxy, ForwardClientPacket, ForwardBrokerPacket, InterceptDisconnect, BrokerEof,
     ClientGone, KeepaliveTimeout, service_outage_packet, ConnectBroker, RecvConnack, RecvSuback,
     EstablishFails, Replay, Freeze, ResumeSession, adopt_session
<1>3. /\ LeadsTo(subscriptions, buffer, subscriptions)
      /\ link = "up" /\ phase # "connack" => LeadsTo(bSubs, p2b, subscriptions)
  BY <1>2 DEF SubsInv
<1>4. \A table : LeadsTo(table, << >>, table) /\ LeadsTo(table, << >>, NoSubs)
  <2>1. DOMAIN NoSubs = {}
    BY DEF NoSubs
  <2>2. \A table : LeadsTo(table, << >>, NoSubs)
    BY <2>1 DEF LeadsTo
  <2>3. QED
    BY <2>2, <1>1, ResubscribeLeads
<1>5. ASSUME ForwardClientPacket PROVE SubsInv'
  <2>1. PICK p : /\ phase = "connected" /\ subscriptions' = track(subscriptions, p)
                 /\ UNCHANGED <<buffer, bSubs>>
                 /\ \/ p2b' = (IF Alive THEN Append(p2b, p) ELSE p2b) /\ UNCHANGED <<phase, link>>
                    \/ phase' = "outage" /\ link' = "none"
    BY <1>5 DEF ForwardClientPacket, DropBroker, brokerVars
  <2>2. buffer = << >>
    BY <2>1 DEF PassInv, StageInv
  <2>3. LeadsTo(subscriptions', buffer', subscriptions')
    BY <1>4, <2>1, <2>2
  <2>4. CASE link' # "up"
    BY <2>3, <2>4 DEF SubsInv
  <2>5. CASE link' = "up"
    <3>1. p2b' = Append(p2b, p) /\ link = "up"
      BY <2>1, <2>5 DEF Alive
    <3>2. LeadsTo(bSubs', p2b', subscriptions')
      BY <1>1, <1>3, <2>1, <3>1, TrackLeads
    <3>3. QED
      BY <2>3, <3>2 DEF SubsInv
  <2>6. QED
    BY <2>4, <2>5
<1>6. ASSUME service_outage_packet PROVE SubsInv'
  <2>1. PICK p : /\ phase = "outage" /\ subscriptions' = track(subscriptions, p)
                 /\ UNCHANGED <<link, bSubs, p2b>>
                 /\ \/ buffer' = Append(buffer, p)
                    \/ phase' = "ended"
                    \/ UNCHANGED buffer /\ p.type \notin {"SUBSCRIBE", "UNSUBSCRIBE"}
    BY <1>6 DEF service_outage_packet, Push, End, brokerVars
  <2>2. link' # "up"
    BY <1>1, <2>1 DEF TypeOK, ControlOK
  <2>3. CASE buffer' = Append(buffer, p)
    <3>1. LeadsTo(subscriptions, buffer', subscriptions')
      BY <1>1, <1>3, <2>1, <2>3, TrackLeads
    <3>2. LeadsTo(subscriptions', buffer', subscriptions')
      BY <3>1 DEF LeadsTo
    <3>3. QED
      BY <2>2, <3>2 DEF SubsInv
  <2>4. CASE phase' = "ended"
    BY <2>4 DEF SubsInv
  <2>5. CASE UNCHANGED buffer /\ p.type \notin {"SUBSCRIBE", "UNSUBSCRIBE"}
    <3>1. subscriptions' = subscriptions
      BY <2>1, <2>5 DEF track
    <3>2. QED
      BY <1>2, <2>2, <2>5, <3>1, SubsFrame
  <2>6. QED
    BY <2>1, <2>3, <2>4, <2>5
<1>7. ASSUME RecvConnack PROVE SubsInv'
  <2>1. /\ UNCHANGED <<subscriptions, buffer, link, bSubs>>
        /\ p2b' = IF Alive THEN p2b \o resubscribe_packet(subscriptions) ELSE p2b
    BY <1>7 DEF RecvConnack, brokerVars
  <2>2. CASE link # "up"
    BY <1>2, <2>1, <2>2, SubsFrame
  <2>3. CASE link = "up"
    <3>1. p2b' = p2b \o resubscribe_packet(subscriptions)
      BY <2>1, <2>3 DEF Alive
    <3>2. CASE subscriptions = NoSubs
      <4>1. DOMAIN subscriptions = {}
        BY <3>2 DEF NoSubs
      <4>2. LeadsTo(bSubs', p2b', subscriptions')
        BY <2>1, <4>1 DEF LeadsTo
      <4>3. QED
        BY <1>3, <2>1, <4>2 DEF SubsInv
    <3>3. CASE subscriptions # NoSubs
      <4>1. LeadsTo(bSubs, p2b', subscriptions)
        BY <1>1, <3>1, <3>3, ResubscribeLeads
      <4>2. QED
        BY <1>3, <2>1, <4>1 DEF SubsInv
    <3>4. QED
      BY <3>2, <3>3
  <2>4. QED
    BY <2>2, <2>3
<1>8. ASSUME Replay PROVE SubsInv'
  <2>1. /\ phase = "replay" /\ UNCHANGED <<subscriptions, link, bSubs>> /\ buffer' = << >>
        /\ p2b' = IF Alive THEN p2b \o BrokerWrites ELSE p2b
    BY <1>8 DEF Replay, brokerVars
  <2>2. LeadsTo(subscriptions', buffer', subscriptions')
    BY <1>4, <2>1
  <2>3. CASE link # "up"
    BY <2>1, <2>2, <2>3 DEF SubsInv
  <2>4. CASE link = "up"
    <3>0. PICK r : r = broker_retransmits(windows)
      OBVIOUS
    <3>1. p2b' = p2b \o (r \o buffer)
      BY <2>1, <2>4, <3>0 DEF Alive, BrokerWrites
    <3>2. /\ IsSeq(r)
          /\ \A p \in Range(r) : \E q \in Raws(windows.c2b) : p = q \/ p = with_dup(q)
      <4>1. windows \in Windows(Raws(windows.c2b), Raws(windows.b2c))
        BY <1>1 DEF TypeOK, StreamsOK
      <4>2. QED
        BY <3>0, <4>1, BrokerRetransmits
    <3>3. \A q \in Raws(windows.c2b) : q.type \in {"PUBLISH", "PUBREL"} /\ with_dup(q).type = q.type
      <4>1. \A q : with_dup(q).type = q.type
        BY DEF with_dup, Packet
      <4>2. \A e \in Range(windows.c2b) : Fits(e)
        BY DEF PassInv, StageInv, Fits
      <4>3. QED
        BY <4>1, <4>2, RawTypes
    <3>4. \A p \in Range(r) : p.type \notin {"SUBSCRIBE", "UNSUBSCRIBE"}
      BY <3>2, <3>3
    <3>5. LeadsTo(bSubs, p2b', subscriptions)
      BY <1>1, <1>3, <2>1, <2>4, <3>1, <3>2, <3>4, FlushLeads
    <3>6. QED
      BY <2>1, <2>2, <3>5 DEF SubsInv
  <2>5. QED
    BY <2>3, <2>4
<1>9. ASSUME \/ ForwardBrokerPacket \/ InterceptDisconnect \/ BrokerEof \/ ClientGone
             \/ KeepaliveTimeout
      PROVE  SubsInv'
  <2>1. /\ UNCHANGED <<subscriptions, buffer, bSubs>> /\ phase \in {"connected", "outage"}
        /\ phase' = "ended" \/ link' # "up" \/ UNCHANGED <<link, p2b>>
    BY <1>9 DEF ForwardBrokerPacket, InterceptDisconnect, BrokerEof, ClientGone, KeepaliveTimeout,
       DropBroker, End, brokerVars, streams
  <2>2. QED
    BY <1>2, <2>1, SubsFrame
<1>10. ASSUME ConnectBroker \/ RecvSuback \/ EstablishFails
      PROVE  SubsInv'
  <2>1. /\ UNCHANGED <<subscriptions, buffer, bSubs>>
        /\ \/ phase' = "ended" \/ phase' = "connack"
           \/ phase # "connack" /\ UNCHANGED <<link, p2b>>
    BY <1>10 DEF ConnectBroker, RecvSuback, EstablishFails, End, brokerVars
  <2>2. QED
    BY <1>2, <2>1, SubsFrame
<1>11. ASSUME Freeze \/ ResumeSession \/ adopt_session
      PROVE  SubsInv'
  <2>1. /\ UNCHANGED <<subscriptions, buffer>> /\ phase # "connack"
        /\ link' # "up" \/ UNCHANGED <<link, p2b, bSubs>>
    BY <1>1, <1>11 DEF Freeze, ResumeSession, adopt_session, DropBroker, TypeOK, StreamsOK, brokerVars
  <2>2. QED
    BY <1>2, <2>1, SubsFrame
<1>12. QED
  BY <1>5, <1>6, <1>7, <1>8, <1>9, <1>10, <1>11, Zenon DEF Proxy

\* So does every step of a peer: the broker takes in what it reads as the table did.
LEMMA PeersKeepSubs ==
  ASSUME IInv, PassInv, SubsInv, Peers
  PROVE  SubsInv'
<1>1. IsSeq(p2b) /\ phase # "ended" /\ UNCHANGED <<phase, subscriptions, buffer>>
  BY DEF IInv, TypeOK, StreamsOK, Peers, proxyVars
<1>2. ASSUME ClientSteps \/ ClientReads PROVE SubsInv'
  <2>1. UNCHANGED <<link, p2b, bSubs>>
    BY <1>2 DEF ClientSteps, ClientPublish, ClientSubscribe, ClientUnsubscribe, ClientPing,
       ClientLeave, ClientSends, ClientReads, ClientOnPublish, ClientOnPubrel, ClientOnPubrec,
       ClientOnAck, ClientOnSuback, ClientOnPingresp, ClientOnDisconnect, ClientTakes, brokerVars
  <2>2. QED
    BY <1>1, <2>1, SubsFrame, SMTT(30)
<1>3. ASSUME BrokerPublish \/ BrokerCloses \/ BrokerOnDisconnect PROVE SubsInv'
  <2>1. link' # "up" \/ UNCHANGED <<link, p2b, bSubs>>
    BY <1>3 DEF BrokerPublish, BrokerCloses, BrokerOnDisconnect
  <2>2. QED
    BY <1>1, <2>1, SubsFrame
<1>4. ASSUME BrokerOnConnect PROVE SubsInv'
  <2>1. phase = "connack"
    BY <1>1, <1>4 DEF BrokerOnConnect, PassInv, StageInv
  <2>2. QED
    BY <1>1, <2>1, SubsFrame
<1>5. ASSUME \/ BrokerOnPublish \/ BrokerOnPubrel \/ BrokerOnAck \/ BrokerOnPubrec
             \/ BrokerOnSubscribe \/ BrokerOnPing
      PROVE  SubsInv'
  <2>1. /\ p2b # << >> /\ link = "up" /\ p2b' = Tail(p2b) /\ link' = link
        /\ \/ /\ Head(p2b).type \notin {"SUBSCRIBE", "UNSUBSCRIBE"} /\ bSubs' = bSubs
           \/ Head(p2b).type = "SUBSCRIBE" /\ bSubs' = Override(bSubs, Head(p2b).body)
           \/ Head(p2b).type = "UNSUBSCRIBE" /\ bSubs' = Without(bSubs, Head(p2b).body)
    BY <1>5 DEF BrokerOnPublish, BrokerOnPubrel, BrokerOnAck, BrokerOnPubrec, BrokerOnSubscribe,
       BrokerOnPing, BrokerTakes, HeadIs
  <2>2. bSubs' = track(bSubs, Head(p2b))
    BY <2>1 DEF track, upsert, remove
  <2>3. LeadsTo(bSubs, p2b, subscriptions) => LeadsTo(bSubs', p2b', subscriptions)
    BY <1>1, <2>1, <2>2, ReadLeads
  <2>4. QED
    BY <1>1, <2>1, <2>3 DEF SubsInv
<1>6. QED
  BY <1>2, <1>3, <1>4, <1>5, Zenon DEF Peers, BrokerReads

\* Whatever a session goes through, and whatever is on the way, the broker's subscriptions
\* lead to the client's: when it comes to rest, every filter of the client is there, with the
\* options of the last SUBSCRIBE.  The re-SUBSCRIBE of establish_broker comes before what the
\* outage buffer flushes.
THEOREM SubscriptionsRestored ==
  ASSUME ~ Reuse
  PROVE  Spec => []SubsRestored
<1>1. Init => SubsInv
  <2>1. SUFFICES ASSUME Init PROVE SubsInv
    OBVIOUS
  <2>2. /\ subscriptions = NoSubs /\ bSubs = NoSubs /\ buffer = << >> /\ p2b = << >>
    BY <2>1 DEF Init, EndpointsInit
  <2>3. LeadsTo(NoSubs, << >>, NoSubs)
    BY ShortSeqs, ResubscribeLeads
  <2>4. QED
    BY <2>2, <2>3 DEF SubsInv
<1>2. IInv /\ PassInv /\ SubsInv /\ [Next]_vars => SubsInv'
  <2>1. SUFFICES ASSUME IInv, PassInv, SubsInv, [Next]_vars PROVE SubsInv'
    OBVIOUS
  <2>2. CASE UNCHANGED vars
    <3>1. UNCHANGED <<phase, link, p2b, bSubs, subscriptions, buffer>>
      BY <2>2 DEF vars, streams, brokerVars, proxyVars
    <3>2. QED
      BY <2>1, <3>1 DEF SubsInv
  <2>3. QED
    BY <2>1, <2>2, PeersKeepSubs, ProxyKeepsSubs DEF Next
<1>3. SubsInv => SubsRestored
  <2>1. SUFFICES ASSUME SubsInv, Quiet, NEW f \in DOMAIN subscriptions
                 PROVE  f \in DOMAIN bSubs /\ bSubs[f] = subscriptions[f]
    BY DEF SubsRestored
  <2>2. LeadsTo(bSubs, << >>, subscriptions)
    BY <2>1 DEF SubsInv, Quiet
  <2>3. ~ Settles(<< >>, f, subscriptions[f])
    BY DEF Settles
  <2>4. QED
    BY <2>2, <2>3 DEF LeadsTo
<1>4. QED
  BY <1>1, <1>2, <1>3, SessionInvariant, PassInvariant, PTL DEF Spec
=============================================================================
