-------------------------- MODULE InflightWindows --------------------------
(***************************************************************************)
(* The QoS bookkeeping of one session (src/src/window.rs): two insertion-  *)
(* ordered vectors, c2b for packets forwarded to the broker and b2c for    *)
(* packets forwarded to the client, keyed by packet id.                    *)
(*                                                                         *)
(* A packet is a record [type, id, qos, dup, body].  MQTT 3.1.1 and 5.0    *)
(* packets take the same path through every match arm, so the protocol     *)
(* version is left out.  The raw encoding kept in an entry is the packet   *)
(* itself; the one thing done to the bytes, setting the DUP bit, is        *)
(* with_dup.                                                               *)
(*                                                                         *)
(* A definition named after another with a suffix (with_dup_unset)         *)
(* is a faulty variant of it.  No specification uses it; the mutation runs *)
(* put it in the place of the right one to show that a property can fail.  *)
(***************************************************************************)
EXTENDS Naturals, Sequences, SequencesExt

NoId   == 0          \* a packet that carries no packet id (QoS 0, PING, ...)
NoBody == 0

Packet(type, id, qos, dup, body) ==
  [type |-> type, id |-> id, qos |-> qos, dup |-> dup, body |-> body]

\* Of a packet other than PUBLISH, SUBSCRIBE and UNSUBSCRIBE its type and id are
\* all that anyone looks at.
Pkt(type, id) == Packet(type, id, 0, FALSE, NoBody)

PktWith(type, id, body) == Packet(type, id, 0, FALSE, body)

PublishPkt(id, qos, msg) == Packet("PUBLISH", id, qos, FALSE, msg)

with_dup_unset(raw) == raw

with_dup(raw) == Packet(raw.type, raw.id, raw.qos, TRUE, raw.body)

C2BStates == {"C2BPublishSent", "C2BPubrelSent"}
B2CStates == {"B2CPublishSent", "B2CPubrecForwarded"}

WindowEntry(id, state, raw) == [packet_id |-> id, state |-> state, raw |-> raw]

----------------------------------------------------------------------------
(* The vectors.                                                            *)

IsSeq(s) == s \in Seq(Range(s))

vec_contains(v, id) == \E i \in DOMAIN v : v[i].packet_id = id

SlotOf(v, id) == CHOOSE i \in DOMAIN v : v[i].packet_id = id

vec_insert_pushes(v, entry) == Append(v, entry)

\* Replace in place, or push: an id that is still tracked keeps its position.
vec_insert(v, entry) ==
  IF vec_contains(v, entry.packet_id)
  THEN [v EXCEPT ![SlotOf(v, entry.packet_id)] = entry]
  ELSE Append(v, entry)

\* retain(|k| k != id).  vec_insert keeps the keys distinct, so retain drops
\* one slot at most (Distinct).
vec_remove(v, id) ==
  IF vec_contains(v, id) THEN RemoveAt(v, SlotOf(v, id)) ELSE v

EmptyWindows == [c2b |-> << >>, b2c |-> << >>]

\* No packet id has two slots.
Distinct(v) == \A i, j \in DOMAIN v : v[i].packet_id = v[j].packet_id => i = j

\* The packets a vector keeps, and the windows that keep packets of C and B,
\* each under its own id.
Raws(v) == {v[i].raw : i \in DOMAIN v}

Vectors(states, S) ==
  {v \in Seq({WindowEntry(p.id, s, p) : p \in S, s \in states}) : Distinct(v)}

Windows(C, B) == [c2b : Vectors(C2BStates, C), b2c : Vectors(B2CStates, B)]

----------------------------------------------------------------------------
(* Accounting for a packet about to be forwarded.                          *)

c2b_insert_any_qos(w, p) ==
  [w EXCEPT !.c2b = vec_insert(@, WindowEntry(p.id, "C2BPublishSent", p))]

c2b_insert(w, p) ==
  IF p.qos = 0 THEN w
  ELSE [w EXCEPT !.c2b = vec_insert(@, WindowEntry(p.id, "C2BPublishSent", p))]

b2c_insert_any_qos(w, p) ==
  [w EXCEPT !.b2c = vec_insert(@, WindowEntry(p.id, "B2CPublishSent", p))]

b2c_insert(w, p) ==
  IF p.qos = 0 THEN w
  ELSE [w EXCEPT !.b2c = vec_insert(@, WindowEntry(p.id, "B2CPublishSent", p))]

c2b_transition_missing(w, p) == w

\* PUBREL replaces the PUBLISH, only if the id is tracked.
c2b_transition(w, p) ==
  IF vec_contains(w.c2b, p.id)
  THEN [w EXCEPT !.c2b = vec_insert(@, WindowEntry(p.id, "C2BPubrelSent", p))]
  ELSE w

b2c_transition_replaces(w, p) ==
  IF vec_contains(w.b2c, p.id)
  THEN [w EXCEPT !.b2c = vec_insert(@, WindowEntry(p.id, "B2CPubrecForwarded", p))]
  ELSE w

\* PUBREC changes the state and keeps the raw PUBLISH.
b2c_transition(w, p) ==
  IF vec_contains(w.b2c, p.id)
  THEN LET raw == w.b2c[SlotOf(w.b2c, p.id)].raw
       IN  [w EXCEPT !.b2c = vec_insert(@, WindowEntry(p.id, "B2CPubrecForwarded", raw))]
  ELSE w

c2b_remove(w, id) == [w EXCEPT !.c2b = vec_remove(@, id)]
b2c_remove(w, id) == [w EXCEPT !.b2c = vec_remove(@, id)]

track_c2b_ignores_puback(w, p) ==
  CASE p.type = "PUBLISH" -> c2b_insert(w, p)
    [] p.type = "PUBREL"  -> c2b_transition(w, p)
    [] p.type = "PUBCOMP" -> b2c_remove(w, p.id)
    [] p.type = "PUBREC"  -> b2c_transition(w, p)
    [] OTHER              -> w

track_c2b(w, p) ==
  CASE p.type = "PUBLISH"              -> c2b_insert(w, p)
    [] p.type = "PUBREL"               -> c2b_transition(w, p)
    [] p.type \in {"PUBACK", "PUBCOMP"} -> b2c_remove(w, p.id)
    [] p.type = "PUBREC"               -> b2c_transition(w, p)
    [] OTHER                           -> w

track_b2c_ignores_pubcomp(w, p) ==
  CASE p.type = "PUBLISH" -> b2c_insert(w, p)
    [] p.type = "PUBACK"  -> c2b_remove(w, p.id)
    [] OTHER              -> w

\* The PUBREC of the broker and its PUBREL leave the windows alone.
track_b2c(w, p) ==
  CASE p.type = "PUBLISH"              -> b2c_insert(w, p)
    [] p.type \in {"PUBACK", "PUBCOMP"} -> c2b_remove(w, p.id)
    [] OTHER                           -> w

insert_c2b_raw_missing(w, id, state, raw) == w

insert_c2b_raw(w, id, state, raw) ==
  [w EXCEPT !.c2b = vec_insert(@, WindowEntry(id, state, raw))]

----------------------------------------------------------------------------
(* Replay and snapshot.                                                    *)

broker_retransmits_none(w) == << >>

broker_retransmits(w) ==
  [i \in DOMAIN w.c2b |-> IF w.c2b[i].state = "C2BPublishSent"
                          THEN with_dup(w.c2b[i].raw)
                          ELSE w.c2b[i].raw]

client_retransmits_plain(w) ==
  LET sent == SelectSeq(w.b2c, LAMBDA e : e.state = "B2CPublishSent")
  IN  [i \in DOMAIN sent |-> sent[i].raw]

client_retransmits(w) ==
  LET sent[i \in 0..Len(w.b2c)] ==
        IF i = 0 THEN << >>
        ELSE IF w.b2c[i].state = "B2CPublishSent"
             THEN Append(sent[i - 1], with_dup(w.b2c[i].raw))
             ELSE sent[i - 1]
  IN  sent[Len(w.b2c)]

snapshot(w) == w.c2b \o w.b2c

\* An entry goes into the vector its state belongs to.
restore(w, e) ==
  IF e.state \in C2BStates THEN [w EXCEPT !.c2b = vec_insert(@, e)]
                           ELSE [w EXCEPT !.b2c = vec_insert(@, e)]

\* The entries are inserted one by one.
from_snapshot(entries) ==
  LET w[i \in 0..Len(entries)] ==
        IF i = 0 THEN EmptyWindows ELSE restore(w[i - 1], entries[i])
  IN  w[Len(entries)]
=============================================================================
