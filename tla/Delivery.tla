------------------------------ MODULE Delivery ------------------------------
(***************************************************************************)
(* What a pair of MQTT peers may expect of the path between them, whatever *)
(* happens on it: messages 1, 2, ... are published in order, come out in   *)
(* that order when they come out for the first time, come out again only   *)
(* if their QoS allows it, and are acknowledged to the publisher only      *)
(* after they came out.                                                    *)
(***************************************************************************)
EXTENDS Naturals, Sequences

CONSTANTS
  QoS,          \* the QoS of each message, a sequence of 0, 1 and 2
  ExactlyOnce   \* QoS 2 messages come out once; if FALSE they may be repeated

VARIABLES
  published,    \* how many messages were published
  out,          \* the messages that came out, in order
  acked         \* the messages the publisher was told about

vars == <<published, out, acked>>

Init == published = 0 /\ out = << >> /\ acked = {}

Publish ==
  /\ published < Len(QoS)
  /\ published' = published + 1
  /\ UNCHANGED <<out, acked>>

MayRepeat(m) == QoS[m] = 1 \/ (QoS[m] = 2 /\ ~ ExactlyOnce)

Deliver(m) ==
  /\ IF \E i \in DOMAIN out : out[i] = m
     THEN MayRepeat(m)
     ELSE \A i \in DOMAIN out : out[i] < m
  /\ out' = Append(out, m)
  /\ UNCHANGED <<published, acked>>

Acknowledge(m) ==
  /\ QoS[m] > 0
  /\ \E i \in DOMAIN out : out[i] = m
  /\ acked' = acked \cup {m}
  /\ UNCHANGED <<published, out>>

Next == Publish \/ \E m \in 1..published : Deliver(m) \/ Acknowledge(m)

Spec == Init /\ [][Next]_vars
=============================================================================
