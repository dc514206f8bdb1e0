--------------------------- MODULE SessionTimers ---------------------------
(***************************************************************************)
(* The clocks of one session: the client's keepalive deadline              *)
(* (session/keepalive.rs), the connect attempts and the backoff of the     *)
(* outage phase (OutageStep in session/forward.rs), and the stretches in   *)
(* which the loop looks at none of them because it is inside               *)
(* establish_broker or frozen.  What the packets say is left to Session.   *)
(*                                                                         *)
(* Time is counted in ticks, from events and not from the start, so the    *)
(* state is finite.  A tick passes only when no arm of select! is ready:   *)
(* the work of the loop itself takes no time.                              *)
(*                                                                         *)
(* A definition named after another with a suffix (Deadline_half)          *)
(* is a faulty variant of it.  No specification uses it; the mutation runs *)
(* put it in the place of the right one to show that a property can fail.  *)
(***************************************************************************)
EXTENDS Integers

CONSTANTS
  KeepAlive,        \* of the client's CONNECT; 0: no keepalive
  ServerKeepAlive,  \* assigned by the broker in CONNACK (v5), or NotAssigned
  RetryInitial,     \* BROKER_RETRY_INITIAL
  RetryMax,         \* BROKER_RETRY_MAX
  ConnectTime,      \* ticks a connect attempt takes
  Answers,          \* the broker answers or drops a new connection in time
  MaxBlock,         \* bound: ticks frozen, or until that answer
  MinGap,           \* the client's packets are at least this far apart
  MaxDrops,         \* bound: times the broker goes down
  MaxFreezes,       \* bound: freeze requests
  Horizon           \* clocks stop counting here

\* server_keepalive_sec is None; Some(0) turns the keepalive off.
NotAssigned == -1

\* The interval the client keeps to: it has seen the CONNACK.
Agreed == IF ServerKeepAlive # NotAssigned THEN ServerKeepAlive ELSE KeepAlive

ASSUME TimersAssumption ==
  /\ Answers \in BOOLEAN
  /\ ServerKeepAlive \in Nat \cup {NotAssigned}
  /\ {KeepAlive, ConnectTime, MaxBlock, MaxDrops, MaxFreezes} \subseteq Nat
  /\ {RetryInitial, RetryMax, MinGap} \subseteq Nat \ {0}
  /\ RetryInitial <= RetryMax
  /\ Agreed # 0 => MinGap <= Agreed
  /\ Horizon \in Nat
  /\ \A t \in {2 * KeepAlive, 2 * ServerKeepAlive, RetryMax, ConnectTime, MinGap} : t < Horizon

VARIABLES
  phase,       \* connected, outage, establish, frozen, ended
  was,         \* the phase a frozen session goes back to
  why,         \* what ended the session
  keep_alive,  \* the interval the proxy enforces
  idle,        \* time since last_client_activity
  step,        \* OutageStep: 0 is Connect, d > 0 is Backoff(d)
  backoff,
  elapsed,     \* age of the future the outage phase waits on
  blocked,     \* time inside establish_broker, or frozen
  fails,       \* connect attempts that failed in a row
  up,          \* the broker can be reached
  unread,      \* a packet of the client waits in its socket
  silent,      \* time since the client sent one
  asleep,      \* the client has stopped sending for good
  drops, freezes

loopVars   == <<phase, was, why, keep_alive, idle, step, backoff, elapsed, blocked, fails>>
clientVars == <<unread, silent, asleep>>
vars == <<loopVars, clientVars, up, drops, freezes>>

Later(t) == IF t < Horizon THEN t + 1 ELSE t

AtMost(a, b) == IF a <= b THEN a ELSE b

----------------------------------------------------------------------------
(* The world around the loop.                                              *)

ClientSends ==
  /\ phase # "ended" /\ ~ asleep /\ silent >= MinGap
  /\ unread' = TRUE /\ silent' = 0
  /\ UNCHANGED <<loopVars, asleep, up, drops, freezes>>

ClientFallsAsleep ==
  /\ phase # "ended" /\ ~ asleep
  /\ asleep' = TRUE
  /\ UNCHANGED <<loopVars, unread, silent, up, drops, freezes>>

BrokerDown ==
  /\ phase # "ended" /\ up /\ drops < MaxDrops
  /\ up' = FALSE /\ drops' = drops + 1
  /\ UNCHANGED <<loopVars, clientVars, freezes>>

BrokerUp ==
  /\ phase # "ended" /\ ~ up
  /\ up' = TRUE
  /\ UNCHANGED <<loopVars, clientVars, drops, freezes>>

----------------------------------------------------------------------------
(* The arms of the two select!s.                                           *)

Looping == phase \in {"connected", "outage"}

\* The outage phase is entered, or its select! starts over: the future it
\* waits on is made anew from step.
NewWait == elapsed' = 0

Deadline_half == keep_alive # 0 /\ idle >= keep_alive

\* client_deadline: 1.5 times the interval after the last packet was read; an
\* interval of 0 puts it a year away.
Deadline == keep_alive # 0 /\ 2 * idle >= 3 * keep_alive

\* client.next(): in the connected phase the packet is forwarded, which is one
\* way to notice that the broker is gone.
ReadClient ==
  /\ Looping /\ unread
  /\ unread' = FALSE
  /\ idle' = 0
  /\ \/ UNCHANGED phase
     \/ phase = "connected" /\ ~ up /\ phase' = "outage"
  /\ NewWait
  /\ UNCHANGED <<was, why, keep_alive, step, backoff, blocked, fails,
                 silent, asleep, up, drops, freezes>>

BrokerEof ==
  /\ phase = "connected" /\ ~ up
  /\ phase' = "outage"
  /\ NewWait
  /\ UNCHANGED <<was, why, keep_alive, idle, step, backoff, blocked, fails,
                 clientVars, up, drops, freezes>>

KeepaliveTimeout_connected_only ==
  /\ phase = "connected" /\ Deadline
  /\ phase' = "ended" /\ why' = "keepalive"
  /\ UNCHANGED <<was, keep_alive, idle, step, backoff, elapsed, blocked, fails,
                 clientVars, up, drops, freezes>>

\* The deadline arm.  select! takes any arm that is ready, this one also when a
\* packet of the client is ready too.
KeepaliveTimeout ==
  /\ Looping /\ Deadline
  /\ phase' = "ended" /\ why' = "keepalive"
  /\ UNCHANGED <<was, keep_alive, idle, step, backoff, elapsed, blocked, fails,
                 clientVars, up, drops, freezes>>

ConnectSucceeds ==
  /\ phase = "outage" /\ step = 0 /\ elapsed >= ConnectTime /\ up
  /\ phase' = "establish" /\ blocked' = 0
  /\ UNCHANGED <<was, why, keep_alive, idle, step, backoff, elapsed, fails,
                 clientVars, up, drops, freezes>>

ConnectFails_uncapped ==
  /\ phase = "outage" /\ step = 0 /\ elapsed >= ConnectTime /\ ~ up
  /\ step' = backoff
  /\ backoff' = 2 * backoff
  /\ fails' = AtMost(fails + 1, Horizon)
  /\ NewWait
  /\ UNCHANGED <<phase, was, why, keep_alive, idle, blocked,
                 clientVars, up, drops, freezes>>

ConnectFails ==
  /\ phase = "outage" /\ step = 0 /\ elapsed >= ConnectTime /\ ~ up
  /\ step' = backoff
  /\ backoff' = AtMost(2 * backoff, RetryMax)
  /\ fails' = AtMost(fails + 1, Horizon)
  /\ NewWait
  /\ UNCHANGED <<phase, was, why, keep_alive, idle, blocked,
                 clientVars, up, drops, freezes>>

BackoffOver_sleeps_on ==
  /\ phase = "outage" /\ step > 0 /\ elapsed >= step
  /\ NewWait
  /\ UNCHANGED <<phase, was, why, keep_alive, idle, step, backoff, blocked, fails,
                 clientVars, up, drops, freezes>>

BackoffOver ==
  /\ phase = "outage" /\ step > 0 /\ elapsed >= step
  /\ step' = 0
  /\ NewWait
  /\ UNCHANGED <<phase, was, why, keep_alive, idle, backoff, blocked, fails,
                 clientVars, up, drops, freezes>>

Established_keeps_backoff ==
  /\ phase = "establish" /\ up
  /\ phase' = "connected"
  /\ keep_alive' = IF ServerKeepAlive # NotAssigned THEN ServerKeepAlive ELSE keep_alive
  /\ step' = 0 /\ fails' = 0
  /\ UNCHANGED <<was, why, idle, elapsed, blocked, backoff, clientVars, up, drops, freezes>>

\* establish_broker returns; the CONNACK may assign an interval.
Established ==
  /\ phase = "establish" /\ up
  /\ phase' = "connected"
  /\ keep_alive' = IF ServerKeepAlive # NotAssigned THEN ServerKeepAlive ELSE keep_alive
  /\ backoff' = RetryInitial /\ step' = 0 /\ fails' = 0
  /\ UNCHANGED <<was, why, idle, elapsed, blocked, clientVars, up, drops, freezes>>

\* The connection ends, or brings something else than a CONNACK: the error goes
\* through forward_loop and ends the session.
EstablishFails ==
  /\ phase = "establish"
  /\ phase' = "ended" /\ why' = "establish"
  /\ UNCHANGED <<was, keep_alive, idle, step, backoff, elapsed, blocked, fails,
                 clientVars, up, drops, freezes>>

Freeze ==
  /\ Looping /\ freezes < MaxFreezes
  /\ freezes' = freezes + 1
  /\ was' = phase /\ phase' = "frozen" /\ blocked' = 0
  /\ UNCHANGED <<why, keep_alive, idle, step, backoff, elapsed, fails, clientVars, up, drops>>

\* Rolled back: the clocks went on meanwhile.
Resume ==
  /\ phase = "frozen"
  /\ phase' = was
  /\ NewWait
  /\ UNCHANGED <<was, why, keep_alive, idle, step, backoff, blocked, fails,
                 clientVars, up, drops, freezes>>

\* A loop of its own in the child: new clocks, and the interval of the CONNECT
\* in the snapshot (from_snapshot_version), whatever a CONNACK has assigned.
adopt_session ==
  /\ phase = "frozen"
  /\ phase' = "outage"
  /\ keep_alive' = KeepAlive /\ idle' = 0
  /\ step' = 0 /\ backoff' = RetryInitial /\ fails' = 0
  /\ NewWait
  /\ UNCHANGED <<was, why, blocked, clientVars, up, drops, freezes>>

----------------------------------------------------------------------------
(* Time.                                                                   *)

\* An arm of select! is ready.  A refused connect attempt is not one: it may
\* take its time.
Ready ==
  \/ Looping /\ (unread \/ Deadline)
  \/ phase = "outage" /\ step = 0 /\ elapsed >= ConnectTime /\ up
  \/ phase = "outage" /\ step > 0 /\ elapsed >= step

\* A client that is not asleep keeps to the agreed interval.  establish_broker
\* waits for the broker without a timeout: its time is bounded only if the broker
\* Answers.
Tick ==
  /\ phase # "ended" /\ ~ Ready
  /\ phase = "frozen" \/ (phase = "establish" /\ Answers) => blocked < MaxBlock
  /\ ~ asleep /\ Agreed # 0 => silent < Agreed
  /\ idle' = Later(idle) /\ elapsed' = Later(elapsed) /\ silent' = Later(silent)
  /\ blocked' = IF Looping THEN blocked ELSE AtMost(blocked + 1, MaxBlock)
  /\ UNCHANGED <<phase, was, why, keep_alive, step, backoff, fails,
                 unread, asleep, up, drops, freezes>>

----------------------------------------------------------------------------
\* A session that has just been established; the client keeps to what the
\* first CONNACK said.
Init ==
  /\ phase = "connected" /\ was = "connected" /\ why = "none"
  /\ keep_alive = Agreed /\ idle = 0
  /\ step = 0 /\ backoff = RetryInitial /\ elapsed = 0 /\ blocked = 0 /\ fails = 0
  /\ unread = FALSE /\ silent = 0 /\ asleep = FALSE
  /\ up = TRUE /\ drops = 0 /\ freezes = 0

World == ClientSends \/ ClientFallsAsleep \/ BrokerDown \/ BrokerUp

Loop ==
  \/ ReadClient \/ BrokerEof \/ KeepaliveTimeout
  \/ ConnectSucceeds \/ ConnectFails \/ BackoffOver

\* What ends the wait in establish_broker: a step of the broker's making.
Answer == Established \/ EstablishFails

Coordinator == Freeze \/ Resume \/ adopt_session

Next == World \/ Loop \/ Answer \/ Coordinator \/ Tick

\* The task is polled when something is ready, the coordinator answers a frozen
\* session, time goes on, and a client that is awake sends when its interval is
\* over.  The broker need not be reachable; it owes an answer to a connection it
\* has accepted only if it Answers.
Fairness ==
  /\ WF_vars(Tick) /\ WF_vars(Loop)
  /\ WF_vars(Answers /\ Answer)
  /\ WF_vars(Resume \/ adopt_session)
  /\ WF_vars(ClientSends /\ silent = Agreed)

Spec == Init /\ [][Next]_vars /\ Fairness

----------------------------------------------------------------------------
(* Properties.                                                             *)

\* Phases, clocks within the horizon, a delay that is never above the cap.
TypeOK ==
  /\ phase \in {"connected", "outage", "establish", "frozen", "ended"}
  /\ was \in {"connected", "outage"}
  /\ why \in {"none", "keepalive", "establish"}
  /\ keep_alive \in {KeepAlive, Agreed}
  /\ idle \in 0..Horizon /\ elapsed \in 0..Horizon
  /\ silent \in 0..Horizon /\ fails \in 0..Horizon
  /\ blocked \in 0..MaxBlock
  /\ step \in 0..RetryMax /\ backoff \in RetryInitial..RetryMax
  /\ up \in BOOLEAN /\ unread \in BOOLEAN /\ asleep \in BOOLEAN
  /\ drops \in 0..MaxDrops /\ freezes \in 0..MaxFreezes

\* The stalls a session has been charged for, one for each freeze and for each
\* drop of the broker, less the establish_broker that is still to come.
Stalls ==
  freezes + drops
  - (IF phase = "outage" \/ (phase = "frozen" /\ was = "outage")
        \/ (phase \in {"connected", "frozen"} /\ ~ up) THEN 1 ELSE 0)

\* Why the deadline does not fire on a client that keeps to its interval: what the
\* loop has read is no older than what the client has sent, so only a packet that
\* came in during a stall counts as silence, and no longer than the stalls last
\* (which only a broker that Answers bounds).
IdleInv ==
  /\ Stalls >= IF phase \in {"establish", "frozen"} THEN 1 ELSE 0
  /\ Agreed # 0 /\ ~ asleep => silent <= Agreed
  /\ ~ unread => idle <= silent
  /\ Answers /\ Agreed # 0 /\ unread =>
       idle + (IF phase \in {"establish", "frozen"} THEN MaxBlock - blocked ELSE 0)
         <= Agreed + MaxBlock * Stalls

\* The broker answers, the stalls add up to less than half an interval, and an
\* interval the broker assigns is not longer than the one asked for, which an
\* adopted session goes back to.
ShortStalls ==
  /\ Answers
  /\ Agreed # 0 => 2 * (MaxBlock * (MaxDrops + MaxFreezes)) < Agreed
  /\ KeepAlive # 0 => 0 < Agreed /\ Agreed <= KeepAlive

\* "A client that sends nothing for 1.5 times its keepalive interval is
\* disconnected" (design.md), and no other: when the deadline arm fires, the
\* client really was silent that long, although the loop measures from when it
\* read a packet and may have been kept from reading.  A client that keeps to its
\* interval is therefore never dropped.  This needs ShortStalls.
DroppedOnlyIfSilent == why = "keepalive" => Agreed # 0 /\ 2 * silent >= 3 * Agreed

\* RetryInitial, doubled n times.
Doubled[n \in Nat] == IF n = 0 THEN RetryInitial ELSE 2 * Doubled[n - 1]

\* The delay after the n-th failed attempt in a row is RetryInitial doubled
\* n - 1 times, up to RetryMax, and starts over after a success: as a function of
\* n what backoff and step compute one attempt at a time.
BackoffSchedule ==
  step > 0 => fails > 0 /\ step = AtMost(Doubled[fails - 1], RetryMax)

\* The next delay is the next of the schedule.
BackoffInv == BackoffSchedule /\ backoff = AtMost(Doubled[fails], RetryMax)

\* The invariant the proofs rest on; a session with a cause of death is dead.
IInv == TypeOK /\ IdleInv /\ BackoffInv /\ (why # "none" => phase = "ended")

\* "A client that sends nothing for 1.5 times its keepalive interval is
\* disconnected" (design.md): one that has stopped sending for good does not keep
\* its session, in whatever phase it is and whether or not the broker can be
\* reached; the deadline is watched in the outage phase too.  This needs a broker
\* that Answers: inside establish_broker nothing watches the deadline.
SilentDropped == (asleep /\ KeepAlive # 0 /\ Agreed # 0) ~> (phase = "ended")

\* "The proxy retries the broker ... indefinitely" (design.md): once the broker
\* stays reachable, a session in the outage phase leaves it.
Reconnects == (<>[]up) => []<>(phase \in {"connected", "ended"})
=============================================================================
