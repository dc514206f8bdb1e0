----------------------- MODULE InflightWindowsProofs -----------------------
(***************************************************************************)
(* What the operations on the windows keep, for vectors of any length, and *)
(* the facts about sequences this takes.                                   *)
(***************************************************************************)
EXTENDS InflightWindows, NatLemmas, TLAPS

(* Sequences and their elements.                                           *)

\* A sequence over a set is one over its own elements, which are in the set.
LEMMA SeqOver ==
  ASSUME NEW S, NEW s \in Seq(S)
  PROVE  IsSeq(s) /\ Range(s) \subseteq S
<1>1. Len(s) \in Nat /\ DOMAIN s = 1..Len(s) /\ s = [i \in 1..Len(s) |-> s[i]]
  OBVIOUS
<1>2. \A i \in 1..Len(s) : s[i] \in Range(s) /\ s[i] \in S
  BY <1>1 DEF Range
<1>3. s \in Seq(Range(s))
  BY <1>1, <1>2
<1>4. QED
  BY <1>2, <1>3 DEF IsSeq, Range

\* The elements of the empty sequence and of a sequence of one.
LEMMA ShortSeqs ==
  /\ IsSeq(<< >>) /\ Range(<< >>) = {}
  /\ \A e : IsSeq(<<e>>) /\ Range(<<e>>) = {e}
<1>1. << >> \in Seq({}) /\ \A e : <<e>> \in Seq({e})
  OBVIOUS
<1>2. IsSeq(<< >>) /\ \A e : IsSeq(<<e>>)
  BY <1>1, SeqOver
<1>3. Range(<< >>) = {}
  BY DEF Range
<1>4. ASSUME NEW e PROVE Range(<<e>>) = {e}
  BY DEF Range
<1>5. QED
  BY <1>2, <1>3, <1>4

\* A sequence has its length and its places.
LEMMA SeqPlaces ==
  ASSUME NEW s, IsSeq(s)
  PROVE  /\ Len(s) \in Nat /\ DOMAIN s = 1..Len(s)
         /\ \A i \in 1..Len(s) : s[i] \in Range(s)
         /\ \A e \in Range(s) : \E i \in 1..Len(s) : s[i] = e
BY DEF IsSeq, Range

\* Append adds one element.
LEMMA AppendElements ==
  ASSUME NEW s, IsSeq(s), NEW e
  PROVE  IsSeq(Append(s, e)) /\ Range(Append(s, e)) = Range(s) \cup {e}
<1> DEFINE t == Append(s, e)
<1>1. s \in Seq(Range(s) \cup {e})
  BY SeqPlaces DEF IsSeq
<1>2. t \in Seq(Range(s) \cup {e})
  BY <1>1
<1>3. IsSeq(t) /\ Range(t) \subseteq Range(s) \cup {e}
  BY <1>2, SeqOver
<1>4. DOMAIN t = 1..(Len(s) + 1) /\ t[Len(s) + 1] = e
  BY <1>1
<1>5. \A i \in 1..Len(s) : t[i] = s[i]
  BY <1>1
<1>6. e \in Range(t)
  BY <1>1, <1>4 DEF Range
<1>7. Range(s) \subseteq Range(t)
  BY <1>1, <1>4, <1>5 DEF Range
<1>8. QED
  BY <1>3, <1>6, <1>7

\* Concatenation puts the elements together.
LEMMA ConcatElements ==
  ASSUME NEW s, IsSeq(s), NEW t, IsSeq(t)
  PROVE  IsSeq(s \o t) /\ Range(s \o t) = Range(s) \cup Range(t)
<1> DEFINE S == Range(s) \cup Range(t)
<1>1. s \in Seq(S) /\ t \in Seq(S)
  BY SeqPlaces DEF IsSeq
<1>2. s \o t \in Seq(S)
  BY <1>1
<1>3. IsSeq(s \o t) /\ Range(s \o t) \subseteq S
  BY <1>2, SeqOver
<1>4. DOMAIN (s \o t) = 1..(Len(s) + Len(t))
  BY <1>1
<1>5. \A i \in 1..Len(s) : (s \o t)[i] = s[i]
  BY <1>1
<1>6. \A i \in 1..Len(t) : (s \o t)[Len(s) + i] = t[i]
  BY <1>1
<1>7. Range(s) \subseteq Range(s \o t)
  BY <1>1, <1>4, <1>5 DEF Range
<1>8. ASSUME NEW e \in Range(t) PROVE e \in Range(s \o t)
  <2>1. PICK i \in 1..Len(t) : t[i] = e
    BY SeqPlaces
  <2>2. Len(s) + i \in 1..(Len(s) + Len(t)) /\ (s \o t)[Len(s) + i] = e
    BY <1>1, <1>6, <2>1
  <2>3. QED
    BY <1>4, <2>2 DEF Range
<1>9. QED
  BY <1>3, <1>7, <1>8

\* Taking the head off.
LEMMA TailElements ==
  ASSUME NEW s, IsSeq(s), s # << >>
  PROVE  /\ IsSeq(Tail(s)) /\ Head(s) \in Range(s)
         /\ Range(s) = {Head(s)} \cup Range(Tail(s))
<1>1. s \in Seq(Range(s)) /\ Len(s) # 0
  BY DEF IsSeq
<1>2. Tail(s) \in Seq(Range(s)) /\ Head(s) = s[1]
  BY <1>1
<1>3. IsSeq(Tail(s)) /\ Range(Tail(s)) \subseteq Range(s)
  BY <1>2, SeqOver
<1>4. Head(s) \in Range(s)
  BY <1>1, <1>2 DEF Range
<1>5. ASSUME NEW e \in Range(s), e # Head(s) PROVE e \in Range(Tail(s))
  <2>1. PICK i \in 1..Len(s) : s[i] = e
    BY SeqPlaces
  <2>2. i # 1 /\ i - 1 \in 1..Len(Tail(s)) /\ Tail(s)[i - 1] = e
    BY <1>1, <1>2, <1>5, <2>1
  <2>3. DOMAIN Tail(s) = 1..Len(Tail(s))
    BY <1>2
  <2>4. QED
    BY <2>2, <2>3 DEF Range
<1>6. QED
  BY <1>3, <1>4, <1>5

\* A part of a sequence has no other elements.
LEMMA SubSeqElements ==
  ASSUME NEW s, IsSeq(s), NEW i \in Nat, NEW j \in Nat, 1 <= i, j <= Len(s)
  PROVE  IsSeq(SubSeq(s, i, j)) /\ Range(SubSeq(s, i, j)) \subseteq Range(s)
<1>1. s \in Seq(Range(s))
  BY DEF IsSeq
<1>2. SubSeq(s, i, j) \in Seq(Range(s))
  BY <1>1
<1>3. QED
  BY <1>2, SeqOver

\* What is left when one place is taken out: the places before it, and those
\* behind it one further on.
LEMMA RemoveAtPlaces ==
  ASSUME NEW S, NEW s \in Seq(S), NEW k \in 1..Len(s)
  PROVE  /\ RemoveAt(s, k) \in Seq(S)
         /\ Len(RemoveAt(s, k)) = Len(s) - 1
         /\ \A i \in 1..(Len(s) - 1) :
              RemoveAt(s, k)[i] = IF i < k THEN s[i] ELSE s[i + 1]
<1> DEFINE a == SubSeq(s, 1, k - 1)
           b == SubSeq(s, k + 1, Len(s))
<1>1. a \in Seq(S) /\ Len(a) = k - 1 /\ \A i \in 1..(k - 1) : a[i] = s[i]
  OBVIOUS
<1>2. b \in Seq(S) /\ Len(b) = Len(s) - k
  OBVIOUS
<1>3. \A i \in 1..(Len(s) - k) : b[i] = s[k + i]
  OBVIOUS
<1>4. RemoveAt(s, k) = a \o b
  BY DEF RemoveAt
<1> HIDE DEF a, b
<1>5. a \o b \in Seq(S) /\ Len(a \o b) = Len(s) - 1
  BY <1>1, <1>2
<1>6. ASSUME NEW i \in 1..(Len(s) - 1)
      PROVE  (a \o b)[i] = IF i < k THEN s[i] ELSE s[i + 1]
  <2>1. CASE i < k
    <3>1. (a \o b)[i] = a[i] /\ a[i] = s[i]
      BY <1>1, <1>2, <2>1
    <3>2. QED
      BY <3>1, <2>1
  <2>2. CASE ~ (i < k)
    <3>1. (a \o b)[i] = b[i - (k - 1)]
      BY <1>1, <1>2, <2>2
    <3>2. i - (k - 1) \in 1..(Len(s) - k)
      BY <2>2
    <3>3. b[i - (k - 1)] = s[k + (i - (k - 1))]
      BY <1>3, <3>2
    <3>4. k + (i - (k - 1)) = i + 1
      OBVIOUS
    <3>5. QED
      BY <3>1, <3>3, <3>4, <2>2
  <2>3. QED
    BY <2>1, <2>2
<1>7. QED
  BY <1>4, <1>5, <1>6

----------------------------------------------------------------------------
(* The vectors.                                                            *)

\* A slot that is looked for and there is found.
LEMMA SlotFound ==
  ASSUME NEW v, NEW id, vec_contains(v, id)
  PROVE  SlotOf(v, id) \in DOMAIN v /\ v[SlotOf(v, id)].packet_id = id
BY DEF vec_contains, SlotOf

\* vec_insert keeps the packet ids of a vector distinct, and adds no entry but
\* the one it is given.
LEMMA InsertKeeps ==
  ASSUME NEW E, NEW v \in Seq(E), NEW e \in E, Distinct(v)
  PROVE  vec_insert(v, e) \in Seq(E) /\ Distinct(vec_insert(v, e))
<1>1. CASE vec_contains(v, e.packet_id)
  <2> DEFINE k == SlotOf(v, e.packet_id)
             u == [v EXCEPT ![k] = e]
  <2>1. k \in DOMAIN v /\ v[k].packet_id = e.packet_id
    BY <1>1, SlotFound
  <2>2. vec_insert(v, e) = u
    BY <1>1 DEF vec_insert
  <2> HIDE DEF k
  <2>3. u \in Seq(E) /\ DOMAIN u = DOMAIN v
    BY <2>1
  <2>4. \A i \in DOMAIN v : u[i].packet_id = v[i].packet_id
    BY <2>1
  <2>5. Distinct(u)
    BY <2>3, <2>4 DEF Distinct
  <2>6. QED
    BY <2>2, <2>3, <2>5
<1>2. CASE ~ vec_contains(v, e.packet_id)
  <2> DEFINE u == Append(v, e)
  <2>1. vec_insert(v, e) = u
    BY <1>2 DEF vec_insert
  <2>2. u \in Seq(E) /\ DOMAIN u = 1..(Len(v) + 1) /\ u[Len(v) + 1] = e
    OBVIOUS
  <2>3. \A i \in 1..Len(v) : u[i] = v[i] /\ i \in DOMAIN v
    OBVIOUS
  <2>4. \A i \in 1..Len(v) : u[i].packet_id # e.packet_id
    BY <1>2, <2>3 DEF vec_contains
  <2> HIDE DEF u
  <2>5. ASSUME NEW i \in DOMAIN u, NEW j \in DOMAIN u, u[i].packet_id = u[j].packet_id
        PROVE  i = j
    <3>1. CASE i \in 1..Len(v) /\ j \in 1..Len(v)
      BY <2>3, <2>5, <3>1 DEF Distinct
    <3>2. CASE i = Len(v) + 1 \/ j = Len(v) + 1
      BY <2>2, <2>4, <2>5, <3>2
    <3>3. QED
      BY <2>2, <3>1, <3>2
  <2>6. QED
    BY <2>1, <2>2, <2>5 DEF Distinct
<1>3. QED
  BY <1>1, <1>2

\* So does vec_remove.
LEMMA RemoveKeeps ==
  ASSUME NEW E, NEW v \in Seq(E), NEW id, Distinct(v)
  PROVE  vec_remove(v, id) \in Seq(E) /\ Distinct(vec_remove(v, id))
<1>1. CASE vec_contains(v, id)
  <2> DEFINE k == SlotOf(v, id)
             u == RemoveAt(v, k)
  <2>1. k \in 1..Len(v)
    BY <1>1, SlotFound
  <2>2. vec_remove(v, id) = u
    BY <1>1 DEF vec_remove
  <2> HIDE DEF k
  <2>3. /\ u \in Seq(E) /\ Len(u) = Len(v) - 1
        /\ \A i \in 1..(Len(v) - 1) : u[i] = IF i < k THEN v[i] ELSE v[i + 1]
    BY <2>1, RemoveAtPlaces
  <2> HIDE DEF u
  <2>4. ASSUME NEW i \in DOMAIN u, NEW j \in DOMAIN u, u[i].packet_id = u[j].packet_id
        PROVE  i = j
    <3> DEFINE Old(m) == IF m < k THEN m ELSE m + 1
    <3>1. \A m \in 1..(Len(v) - 1) : Old(m) \in DOMAIN v /\ u[m] = v[Old(m)]
      BY <2>1, <2>3
    <3>2. i \in 1..(Len(v) - 1) /\ j \in 1..(Len(v) - 1)
      BY <2>3, <2>4
    <3>3. Old(i) = Old(j)
      <4> HIDE DEF Old
      <4>1. QED
        BY <2>4, <3>1, <3>2 DEF Distinct
    <3>4. QED
      BY <2>1, <3>2, <3>3
  <2>5. QED
    BY <2>2, <2>3, <2>4 DEF Distinct
<1>2. CASE ~ vec_contains(v, id)
  BY <1>2 DEF vec_remove
<1>3. QED
  BY <1>1, <1>2

----------------------------------------------------------------------------
(* The windows.                                                            *)

\* The operations on a vector, for a vector of packets of S.
LEMMA VectorOps ==
  ASSUME NEW states, NEW S, NEW v \in Vectors(states, S)
  PROVE  /\ \A p \in S, s \in states :
              vec_insert(v, WindowEntry(p.id, s, p)) \in Vectors(states, S)
         /\ \A id : vec_remove(v, id) \in Vectors(states, S)
<1> DEFINE E == {WindowEntry(p.id, s, p) : p \in S, s \in states}
<1>1. \A u : u \in Vectors(states, S) <=> u \in Seq(E) /\ Distinct(u)
  BY DEF Vectors
<1>2. \A p \in S, s \in states : WindowEntry(p.id, s, p) \in E
  OBVIOUS
<1> HIDE DEF E
<1>3. QED
  BY <1>1, <1>2, InsertKeeps, RemoveKeeps

\* A vector over fewer packets is one over more.
LEMMA VectorsGrow ==
  ASSUME NEW states, NEW S, NEW T, S \subseteq T
  PROVE  Vectors(states, S) \subseteq Vectors(states, T)
<1> DEFINE E(U) == {WindowEntry(p.id, s, p) : p \in U, s \in states}
<1>1. E(S) \subseteq E(T)
  OBVIOUS
<1> HIDE DEF E
<1>2. Seq(E(S)) \subseteq Seq(E(T))
  BY <1>1
<1>3. QED
  BY <1>2 DEF Vectors, E

\* What a vector keeps is of the set it is over, and it is over what it keeps.
LEMMA VectorRaws ==
  ASSUME NEW states, NEW S, NEW v \in Vectors(states, S)
  PROVE  Raws(v) \subseteq S /\ v \in Vectors(states, Raws(v)) /\ IsSeq(v)
<1> DEFINE E(U) == {WindowEntry(p.id, s, p) : p \in U, s \in states}
<1>1. v \in Seq(E(S)) /\ Distinct(v)
  BY DEF Vectors
<1>2. ASSUME NEW i \in 1..Len(v)
      PROVE  v[i].raw \in S /\ v[i] \in E(Raws(v))
  <2>1. v[i] \in E(S)
    BY <1>1
  <2>2. PICK p \in S, s \in states : v[i] = WindowEntry(p.id, s, p)
    BY <2>1
  <2>3. v[i].raw = p
    BY <2>2 DEF WindowEntry
  <2>4. p \in Raws(v)
    BY <1>1, <2>3 DEF Raws
  <2>5. QED
    BY <2>2, <2>3, <2>4
<1> HIDE DEF E
<1>3. Raws(v) \subseteq S
  <2>1. DOMAIN v = 1..Len(v)
    BY <1>1
  <2>2. ASSUME NEW r \in Raws(v) PROVE r \in S
    <3>1. PICK i \in DOMAIN v : r = v[i].raw
      BY DEF Raws
    <3>2. QED
      BY <1>2, <2>1, <3>1
  <2>3. QED
    BY <2>2
<1>4. v \in Seq(E(Raws(v)))
  BY <1>1, <1>2
<1>5. QED
  BY <1>1, <1>3, <1>4, SeqOver DEF Vectors, E

\* One vector of the windows is replaced.
LEMMA SetVector ==
  ASSUME NEW C, NEW B, NEW w \in Windows(C, B)
  PROVE  /\ w.c2b \in Vectors(C2BStates, C) /\ w.b2c \in Vectors(B2CStates, B)
         /\ \A v \in Vectors(C2BStates, C) : [w EXCEPT !.c2b = v] \in Windows(C, B)
         /\ \A v \in Vectors(B2CStates, B) : [w EXCEPT !.b2c = v] \in Windows(C, B)
<1>1. w = [c2b |-> w.c2b, b2c |-> w.b2c]
  BY DEF Windows
<1>2. w.c2b \in Vectors(C2BStates, C) /\ w.b2c \in Vectors(B2CStates, B)
  BY DEF Windows
<1>3. ASSUME NEW v
      PROVE  /\ [w EXCEPT !.c2b = v] = [c2b |-> v, b2c |-> w.b2c]
             /\ [w EXCEPT !.b2c = v] = [c2b |-> w.c2b, b2c |-> v]
  <2>1. [w EXCEPT !.c2b = v] = [c2b |-> v, b2c |-> w.b2c]
    BY <1>1
  <2>2. [w EXCEPT !.b2c = v] = [c2b |-> w.c2b, b2c |-> v]
    BY <1>1
  <2>3. QED
    BY <2>1, <2>2, Zenon
<1>4. \A v \in Vectors(C2BStates, C) : [c2b |-> v, b2c |-> w.b2c] \in Windows(C, B)
  BY <1>2 DEF Windows
<1>5. \A v \in Vectors(B2CStates, B) : [c2b |-> w.c2b, b2c |-> v] \in Windows(C, B)
  BY <1>2 DEF Windows
<1>6. QED
  BY <1>2, <1>3, <1>4, <1>5, Zenon

\* Windows over fewer packets are windows over more.
LEMMA WindowsGrow ==
  ASSUME NEW C, NEW B, NEW D, NEW F, C \subseteq D, B \subseteq F
  PROVE  Windows(C, B) \subseteq Windows(D, F)
BY VectorsGrow DEF Windows

\* The steps of track_c2b and track_b2c, one by one.
LEMMA WindowOps ==
  ASSUME NEW C, NEW B, NEW w \in Windows(C, B)
  PROVE  /\ \A p \in C : c2b_insert(w, p) \in Windows(C, B)
         /\ \A p \in B : b2c_insert(w, p) \in Windows(C, B)
         /\ \A p \in C : c2b_transition(w, p) \in Windows(C, B)
         /\ \A p : b2c_transition(w, p) \in Windows(C, B)
         /\ \A id : c2b_remove(w, id) \in Windows(C, B) /\ b2c_remove(w, id) \in Windows(C, B)
         /\ \A p \in C, s \in C2BStates : insert_c2b_raw(w, p.id, s, p) \in Windows(C, B)
<1> DEFINE Entry(p, s) == WindowEntry(p.id, s, p)
           VC == Vectors(C2BStates, C)
           VB == Vectors(B2CStates, B)
<1>1. w.c2b \in VC /\ w.b2c \in VB
  BY SetVector, Zenon
<1>2. /\ \A v \in VC : [w EXCEPT !.c2b = v] \in Windows(C, B)
      /\ \A v \in VB : [w EXCEPT !.b2c = v] \in Windows(C, B)
  BY SetVector, Zenon
<1>3. /\ "C2BPublishSent" \in C2BStates /\ "C2BPubrelSent" \in C2BStates
      /\ "B2CPublishSent" \in B2CStates /\ "B2CPubrecForwarded" \in B2CStates
  BY DEF C2BStates, B2CStates
<1>4. /\ \A p \in C, s \in C2BStates : vec_insert(w.c2b, Entry(p, s)) \in VC
      /\ \A id : vec_remove(w.c2b, id) \in VC
  BY <1>1, VectorOps
<1>5. /\ \A p \in B, s \in B2CStates : vec_insert(w.b2c, Entry(p, s)) \in VB
      /\ \A id : vec_remove(w.b2c, id) \in VB
  BY <1>1, VectorOps
<1>6. ASSUME NEW p, vec_contains(w.b2c, p.id)
      PROVE  LET raw == w.b2c[SlotOf(w.b2c, p.id)].raw IN raw \in B /\ raw.id = p.id
  <2> DEFINE k == SlotOf(w.b2c, p.id)
  <2>1. k \in DOMAIN w.b2c /\ w.b2c[k].packet_id = p.id
    BY <1>6, SlotFound
  <2> HIDE DEF k
  <2>2. w.b2c \in Seq({WindowEntry(q.id, s, q) : q \in B, s \in B2CStates})
    BY <1>1 DEF Vectors
  <2>3. PICK q \in B, s \in B2CStates : w.b2c[k] = WindowEntry(q.id, s, q)
    BY <2>1, <2>2
  <2>4. w.b2c[k].raw = q /\ q.id = p.id
    BY <2>1, <2>3 DEF WindowEntry
  <2>5. QED
    BY <2>4 DEF k
<1> HIDE DEF VC, VB
<1>7. \A p \in C : c2b_insert(w, p) \in Windows(C, B)
  BY <1>2, <1>3, <1>4, Zenon DEF c2b_insert
<1>8. \A p \in B : b2c_insert(w, p) \in Windows(C, B)
  BY <1>2, <1>3, <1>5, Zenon DEF b2c_insert
<1>9. \A p \in C : c2b_transition(w, p) \in Windows(C, B)
  BY <1>2, <1>3, <1>4, Zenon DEF c2b_transition
<1>10. ASSUME NEW p PROVE b2c_transition(w, p) \in Windows(C, B)
  <2> DEFINE raw == w.b2c[SlotOf(w.b2c, p.id)].raw
  <2>1. CASE vec_contains(w.b2c, p.id)
    <3>1. raw \in B /\ raw.id = p.id
      BY <1>6, <2>1
    <3>2. vec_insert(w.b2c, WindowEntry(p.id, "B2CPubrecForwarded", raw)) \in VB
      <4> HIDE DEF raw
      <4>1. QED
        BY <1>3, <1>5, <3>1
    <3>3. QED
      BY <1>2, <2>1, <3>2, Zenon DEF b2c_transition
  <2>2. CASE ~ vec_contains(w.b2c, p.id)
    BY <2>2, Zenon DEF b2c_transition
  <2>3. QED
    BY <2>1, <2>2
<1>11. \A id : c2b_remove(w, id) \in Windows(C, B) /\ b2c_remove(w, id) \in Windows(C, B)
  BY <1>2, <1>4, <1>5, Zenon DEF c2b_remove, b2c_remove
<1>12. \A p \in C, s \in C2BStates : insert_c2b_raw(w, p.id, s, p) \in Windows(C, B)
  BY <1>2, <1>4, Zenon DEF insert_c2b_raw
<1>13. QED
  BY <1>7, <1>8, <1>9, <1>10, <1>11, <1>12, Zenon

\* Tracking a packet keeps the windows windows, and adds no packet but this one.
LEMMA TrackKeeps ==
  ASSUME NEW C, NEW B, NEW w \in Windows(C, B), NEW p
  PROVE  /\ track_c2b(w, p) \in Windows(C \cup {p}, B)
         /\ track_b2c(w, p) \in Windows(C, B \cup {p})
<1>1. track_c2b(w, p) \in Windows(C \cup {p}, B)
  <2>1. w \in Windows(C \cup {p}, B)
    BY WindowsGrow
  <2>2. /\ c2b_insert(w, p) \in Windows(C \cup {p}, B)
        /\ c2b_transition(w, p) \in Windows(C \cup {p}, B)
        /\ b2c_transition(w, p) \in Windows(C \cup {p}, B)
        /\ b2c_remove(w, p.id) \in Windows(C \cup {p}, B)
    BY <2>1, WindowOps
  <2>3. QED
    BY <2>1, <2>2 DEF track_c2b
<1>2. track_b2c(w, p) \in Windows(C, B \cup {p})
  <2>1. w \in Windows(C, B \cup {p})
    BY WindowsGrow
  <2>2. /\ b2c_insert(w, p) \in Windows(C, B \cup {p})
        /\ c2b_remove(w, p.id) \in Windows(C, B \cup {p})
    BY <2>1, WindowOps
  <2>3. QED
    BY <2>1, <2>2 DEF track_b2c
<1>3. QED
  BY <1>1, <1>2

----------------------------------------------------------------------------
(* Replay.                                                                 *)

\* What goes to the broker again is what the c2b window keeps, with or without
\* DUP.
LEMMA BrokerRetransmits ==
  ASSUME NEW C, NEW B, NEW w \in Windows(C, B)
  PROVE  /\ IsSeq(broker_retransmits(w))
         /\ \A p \in Range(broker_retransmits(w)) : \E q \in C : p = q \/ p = with_dup(q)
<1> DEFINE R == C \cup {with_dup(q) : q \in C}
           n == Len(w.c2b)
<1>1. w.c2b \in Vectors(C2BStates, C)
  BY SetVector, Zenon
<1>2. /\ n \in Nat /\ DOMAIN w.c2b = 1..n
      /\ \A i \in 1..n : w.c2b[i].raw \in C
  <2>1. Raws(w.c2b) \subseteq C /\ IsSeq(w.c2b)
    BY <1>1, VectorRaws
  <2>2. n \in Nat /\ DOMAIN w.c2b = 1..n
    BY <2>1, SeqPlaces
  <2>3. QED
    BY <2>1, <2>2 DEF Raws
<1>3. broker_retransmits(w) \in Seq(R)
  BY <1>2 DEF broker_retransmits
<1>4. QED
  BY <1>3, SeqOver

\* What goes to the client again is what the b2c window keeps, with DUP.
LEMMA ClientRetransmits ==
  ASSUME NEW C, NEW B, NEW w \in Windows(C, B)
  PROVE  /\ IsSeq(client_retransmits(w))
         /\ \A p \in Range(client_retransmits(w)) : \E q \in B : p = with_dup(q)
<1> DEFINE R == {with_dup(q) : q \in B}
           W == Seq(R)
           v == w.b2c
           n == Len(v)
           Again(s, i) == IF v[i].state = "B2CPublishSent"
                          THEN Append(s, with_dup(v[i].raw)) ELSE s
           Rec(g) == [i \in 0..n |-> IF i = 0 THEN << >> ELSE Again(g[i - 1], i)]
           step == [i \in 1..n |-> [s \in W |-> Again(s, i)]]
<1>1. v \in Vectors(B2CStates, B)
  BY SetVector, Zenon
<1>2. n \in Nat /\ \A i \in 1..n : with_dup(v[i].raw) \in R
  <2>1. Raws(v) \subseteq B /\ IsSeq(v)
    BY <1>1, VectorRaws
  <2>2. n \in Nat /\ DOMAIN v = 1..n
    BY <2>1, SeqPlaces
  <2>3. \A i \in 1..n : v[i].raw \in B
    BY <2>1, <2>2 DEF Raws
  <2>4. QED
    BY <2>2, <2>3
<1>3. client_retransmits(w) = (CHOOSE g : g = Rec(g))[n]
  BY DEF client_retransmits
<1> HIDE DEF R, v, n
<1>4. << >> \in W /\ \A i \in 1..n, s \in W : Again(s, i) \in W
  BY <1>2
<1> HIDE DEF W, Again
<1>5. step \in [1..n -> [W -> W]]
  BY <1>4
<1>6. \A i \in 1..n, s \in W : step[i][s] = Again(s, i)
  OBVIOUS
<1> HIDE DEF step
<1>7. PICK f : Iterates(f, W, << >>, step, n)
  BY <1>2, <1>4, <1>5, IteratesExist
<1>8. f \in [0..n -> W] /\ f[0] = << >> /\ \A i \in 1..n : f[i] = Again(f[i - 1], i)
  <2>1. f \in [0..n -> W] /\ f[0] = << >> /\ \A i \in 1..n : f[i] = step[i][f[i - 1]]
    BY <1>7 DEF Iterates
  <2>2. \A i \in 1..n : i - 1 \in 0..n
    BY <1>2
  <2>3. QED
    BY <1>6, <2>1, <2>2
<1>9. f = Rec(f)
  BY <1>2, <1>8
<1> DEFINE sent == CHOOSE g : g = Rec(g)
<1>10. sent = Rec(sent)
  BY <1>9
<1>11. sent[0] = f[0] /\ \A i \in 1..n : sent[i] = Again(sent[i - 1], i)
  <2> HIDE DEF sent
  <2>1. QED
    BY <1>2, <1>8, <1>10
<1>12. sent[n] = f[n]
  <2> HIDE DEF sent
  <2>1. \A i \in 1..n : sent[i - 1] = f[i - 1] => sent[i] = f[i]
    BY <1>8, <1>11
  <2>2. QED
    BY <1>2, <1>11, <2>1, IteratesAgree
<1>13. client_retransmits(w) \in Seq(R)
  BY <1>2, <1>3, <1>8, <1>12 DEF W
<1>14. QED
  BY <1>13, SeqOver DEF R

----------------------------------------------------------------------------
(* The snapshot.                                                           *)

\* Inserting the entries of a vector one by one gives it back, up to each entry.
LEMMA PrefixInsert ==
  ASSUME NEW E, NEW v \in Seq(E), Distinct(v), NEW i \in 1..Len(v)
  PROVE  vec_insert(SubSeq(v, 1, i - 1), v[i]) = SubSeq(v, 1, i)
<1> DEFINE u == SubSeq(v, 1, i - 1)
<1>1. u \in Seq(E) /\ Len(u) = i - 1 /\ \A j \in 1..(i - 1) : u[j] = v[j]
  OBVIOUS
<1>2. ~ vec_contains(u, v[i].packet_id)
  <2>1. SUFFICES ASSUME NEW j \in DOMAIN u, u[j].packet_id = v[i].packet_id PROVE FALSE
    BY DEF vec_contains
  <2>2. j \in 1..(i - 1) /\ j \in DOMAIN v /\ i \in DOMAIN v /\ u[j] = v[j]
    BY <1>1
  <2> HIDE DEF u
  <2>3. j = i
    BY <2>1, <2>2 DEF Distinct
  <2>4. QED
    BY <2>2, <2>3
<1>3. Append(u, v[i]) = SubSeq(v, 1, i)
  <2>1. Append(u, v[i]) \in Seq(E) /\ SubSeq(v, 1, i) \in Seq(E)
    BY <1>1
  <2>2. Len(Append(u, v[i])) = i /\ Len(SubSeq(v, 1, i)) = i
    BY <1>1
  <2>3. \A j \in 1..i : Append(u, v[i])[j] = v[j] /\ SubSeq(v, 1, i)[j] = v[j]
    BY <1>1
  <2>4. QED
    BY <2>1, <2>2, <2>3
<1>4. QED
  BY <1>2, <1>3 DEF vec_insert

\* snapshot, then from_snapshot (window.rs): a session that is handed over has
\* the windows it had, entry by entry and in the same order, although the
\* snapshot is one list and the two vectors are built from it by insertion.
THEOREM SnapshotRoundTrip ==
  ASSUME NEW C, NEW B, NEW w \in Windows(C, B)
  PROVE  from_snapshot(snapshot(w)) = w
<1> DEFINE c == w.c2b
           b == w.b2c
           k == Len(c)
           n == Len(c) + Len(b)
           s == c \o b
           Upto(i) == IF i <= k THEN [c2b |-> SubSeq(c, 1, i), b2c |-> << >>]
                                ELSE [c2b |-> c, b2c |-> SubSeq(b, 1, i - k)]
           Rec(g) == [i \in 0..Len(s) |-> IF i = 0 THEN EmptyWindows ELSE restore(g[i - 1], s[i])]
<1> DEFINE EC == {WindowEntry(p.id, t, p) : p \in C, t \in C2BStates}
           EB == {WindowEntry(p.id, t, p) : p \in B, t \in B2CStates}
<1>1. /\ c \in Seq(EC) /\ Distinct(c) /\ b \in Seq(EB) /\ Distinct(b)
      /\ w = [c2b |-> c, b2c |-> b]
  BY DEF Windows, Vectors
<1>2. /\ \A e \in EC : e.state \in C2BStates
      /\ \A e \in EB : e.state \notin C2BStates
  BY DEF WindowEntry, C2BStates, B2CStates
<1>3. from_snapshot(snapshot(w)) = (CHOOSE g : g = Rec(g))[Len(s)]
  BY DEF from_snapshot, snapshot
<1> HIDE DEF c, b, EC, EB
<1>4. Len(s) = n /\ n \in Nat /\ k \in Nat /\ Len(b) \in Nat
  BY <1>1
<1>5. /\ \A i \in 1..k : s[i] = c[i] /\ c[i] \in EC
      /\ \A i \in (k + 1)..n : s[i] = b[i - k] /\ i - k \in 1..Len(b) /\ b[i - k] \in EB
  BY <1>1, <1>4
<1> HIDE DEF s
<1>6. Upto(0) = EmptyWindows
  BY <1>1, <1>4 DEF EmptyWindows
<1>7. ASSUME NEW x, NEW y, NEW e
      PROVE  /\ e.state \in C2BStates =>
                  restore([c2b |-> x, b2c |-> y], e) = [c2b |-> vec_insert(x, e), b2c |-> y]
             /\ e.state \notin C2BStates =>
                  restore([c2b |-> x, b2c |-> y], e) = [c2b |-> x, b2c |-> vec_insert(y, e)]
  BY DEF restore
<1>8. ASSUME NEW i \in 1..n PROVE restore(Upto(i - 1), s[i]) = Upto(i)
  <2>1. CASE i <= k
    <3>1. Upto(i - 1) = [c2b |-> SubSeq(c, 1, i - 1), b2c |-> << >>] /\ i \in 1..k
      BY <1>4, <2>1
    <3>2. vec_insert(SubSeq(c, 1, i - 1), c[i]) = SubSeq(c, 1, i)
      BY <1>1, <3>1, PrefixInsert
    <3>3. s[i] = c[i] /\ s[i].state \in C2BStates
      BY <1>2, <1>5, <3>1
    <3>4. restore(Upto(i - 1), s[i]) = [c2b |-> vec_insert(SubSeq(c, 1, i - 1), s[i]), b2c |-> << >>]
      <4> DEFINE x == SubSeq(c, 1, i - 1)
                 e == s[i]
                 u == Upto(i - 1)
      <4>1. u = [c2b |-> x, b2c |-> << >>] /\ e.state \in C2BStates
        BY <3>1, <3>3
      <4> HIDE DEF x, e, u
      <4>2. restore([c2b |-> x, b2c |-> << >>], e) = [c2b |-> vec_insert(x, e), b2c |-> << >>]
        BY <1>7, <4>1
      <4>3. restore(u, e) = [c2b |-> vec_insert(x, e), b2c |-> << >>]
        BY <4>1, <4>2
      <4>4. QED
        BY <4>3 DEF x, e, u
    <3>5. QED
      BY <2>1, <3>2, <3>3, <3>4
  <2>2. CASE ~ (i <= k)
    <3> DEFINE j == i - k
    <3>1. j \in 1..Len(b) /\ s[i] = b[j] /\ s[i].state \notin C2BStates
      BY <1>2, <1>4, <1>5, <2>2
    <3>2. Upto(i - 1) = [c2b |-> c, b2c |-> SubSeq(b, 1, j - 1)]
      <4>1. CASE i - 1 = k
        <5>1. SubSeq(c, 1, i - 1) = c /\ SubSeq(b, 1, j - 1) = << >>
          BY <1>1, <1>4, <4>1
        <5>2. Upto(i - 1) = [c2b |-> SubSeq(c, 1, i - 1), b2c |-> << >>]
          BY <1>4, <4>1
        <5> HIDE DEF Upto
        <5>3. QED
          BY <5>1, <5>2
      <4>2. CASE i - 1 # k
        <5>1. ~ (i - 1 <= k) /\ (i - 1) - k = j - 1
          BY <1>4, <2>2, <4>2
        <5>2. QED
          BY <5>1
      <4>3. QED
        BY <4>1, <4>2
    <3>3. vec_insert(SubSeq(b, 1, j - 1), b[j]) = SubSeq(b, 1, j)
      BY <1>1, <3>1, PrefixInsert
    <3> HIDE DEF j
    <3>4. restore(Upto(i - 1), s[i]) = [c2b |-> c, b2c |-> vec_insert(SubSeq(b, 1, j - 1), s[i])]
      <4> DEFINE y == SubSeq(b, 1, j - 1)
                 e == s[i]
                 u == Upto(i - 1)
      <4>1. u = [c2b |-> c, b2c |-> y] /\ e.state \notin C2BStates
        BY <3>1, <3>2
      <4> HIDE DEF y, e, u
      <4>2. restore([c2b |-> c, b2c |-> y], e) = [c2b |-> c, b2c |-> vec_insert(y, e)]
        BY <1>7, <4>1
      <4>3. restore(u, e) = [c2b |-> c, b2c |-> vec_insert(y, e)]
        BY <4>1, <4>2
      <4>4. QED
        BY <4>3 DEF y, e, u
    <3>5. QED
      BY <2>2, <3>1, <3>3, <3>4 DEF j
  <2>3. QED
    BY <2>1, <2>2
<1>9. Upto(n) = w
  <2>1. CASE Len(b) = 0
    <3>1. SubSeq(c, 1, n) = c /\ b = << >> /\ n <= k
      BY <1>1, <1>4, <2>1
    <3>2. QED
      BY <1>1, <3>1
  <2>2. CASE Len(b) # 0
    <3>1. ~ (n <= k) /\ SubSeq(b, 1, n - k) = b
      BY <1>1, <1>4, <2>2
    <3>2. QED
      BY <1>1, <3>1
  <2>3. QED
    BY <2>1, <2>2
<1> HIDE DEF Upto, n
<1> DEFINE h == [i \in 0..n |-> Upto(i)]
<1>10. h[0] = EmptyWindows /\ \A i \in 1..n : h[i] = restore(h[i - 1], s[i])
  <2>1. \A i \in 1..n : i - 1 \in 0..n /\ i \in 0..n
    BY <1>4
  <2>2. 0 \in 0..n
    BY <1>4
  <2>3. QED
    BY <1>6, <1>8, <2>1, <2>2
<1>11. h = Rec(h)
  <2>1. h = [i \in 0..n |-> h[i]]
    OBVIOUS
  <2> HIDE DEF h
  <2>2. QED
    BY <1>4, <1>10, <2>1
<1> DEFINE f == CHOOSE g : g = Rec(g)
<1>12. f = Rec(f)
  <2> HIDE DEF h
  <2>1. QED
    BY <1>11
<1> HIDE DEF f
<1>13. f[n] = h[n]
  <2> HIDE DEF h
  <2> HIDE DEF k, Rec
  <2>1. f[0] = h[0]
    BY <1>4, <1>10, <1>12 DEF Rec
  <2>2. \A i \in 1..n : f[i - 1] = h[i - 1] => f[i] = h[i]
    BY <1>4, <1>10, <1>12 DEF Rec
  <2>3. n \in Nat
    BY <1>4
  <2>4. \A i \in 0..n : f[i] = h[i]
    BY <2>1, <2>2, <2>3, IteratesAgree
  <2>5. QED
    BY <2>3, <2>4
<1>14. h[n] = w
  BY <1>4, <1>9
<1>15. QED
  BY <1>3, <1>4, <1>13, <1>14 DEF f
=============================================================================
