# traffic-director: TLA+ specifications

traffic-director is an MQTT proxy that stays out of the way of maintenance on
either side: when the broker goes away the client keeps its connection, and when
the proxy itself is upgraded the client's socket is handed to the next process.
These modules model the parts of it that make that work, check them with TLC on
small instances, and prove with TLAPS, for every value of the constants, the safety
of the handoff and that it implements an abstract transfer of ownership, the chain of
acknowledgements through a session, that a session delivers the client's messages to
the broker in order and exactly once, and the broker's messages to the client in order and
at least once, that both sides come to rest and subscriptions are restored, the keepalive
deadline and the backoff, and the life of the generations of processes under td-init.

## The system

| Part | State | Operations | Source |
| --- | --- | --- | --- |
| In-flight windows | two insertion-ordered vectors of (packet id, state, raw packet), one per direction | account for a forwarded packet, retransmit, snapshot, restore | `window.rs` |
| Forward loop | phase, windows, subscriptions, outage buffer, leftover of the last broker connection | forward both ways, intercept DISCONNECT, reconnect and replay, freeze, resume, adopt | `session/forward.rs`, `session/outage.rs` |
| Subscription table | filter -> options | upsert, remove, re-SUBSCRIBE | `session/subscriptions.rs` |
| Keepalive | last client activity, interval | local PINGRESP, 1.5x timeout | `session/keepalive.rs` |
| Reconnect timers | step (connect or back off), next delay | attempt, double the delay, start over | `session/forward.rs` |
| Handshake | protocol version, CONNECT bytes | read CONNECT, clear the clean bit | `session/handshake.rs` |
| Registry | id -> control channel (capacity one) | register, unregister, freeze_all, resume | `registry.rs` |
| Handoff | batch, number sent | send_sessions, recv_sessions | `migrate.rs` |
| Server | acceptor, registry, drain tracker | accept; SIGUSR2 in drain or migrate mode; stop | `server.rs` |
| td-init | one pending signal, child pid | forward signals, reap generations | `bin/td-init.rs` |

A session is one task. It talks to its client over one TCP connection for its
whole life and to the broker over one connection at a time. The coordinator (the
signal loop of `server::run`) reaches it only through the control channel of the
registry: a freeze request carries a reply channel and a resume channel. A frozen
session is resumed with its own snapshot, or finds its resume channel closed and
exits, because the child process has its socket and its snapshot.

What is hard about it:

* a broker connection can break at every step of a QoS 1 or QoS 2 handshake,
  and what is sent again on the next one must neither lose, double nor reorder
  messages; packet ids are reused;
* the broker redelivers on its own, next to the proxy's retransmissions;
* a freeze cuts through a session at any packet boundary, with bytes in four
  places (both sockets, both read buffers), and a second one may follow;
* the coordinator gives up on sessions that are busy, which may answer anyway;
* the handoff may stop half way, with some sessions on each side;
* the loop measures silence from when it read a packet, but is kept from reading
  while it talks to a new broker connection or is frozen;
* signals reach several processes at once, some of which are starting and some
  of which are leaving, through an init with one slot for them;
* a process counts its sessions while they end on other threads.

`PROJECT.json` lists these hazards at their lines with the properties that watch
them.

## Modules

```
InflightWindows --> MqttEndpoints --> Session --> SessionProperties --> MCSession
      |                                                |    | implements
      v                                                |    v
InflightWindowsProofs --------> SessionProofs <--------'  Delivery
                                     |
                                     v
                        SessionToBrokerProofs --> SessionToClientProofs

Shed --> MCShed                 Generations --> TdInit --> TdInitProofs
  |  --> ShedProofs             SessionTimers --> SessionTimersProofs
  v implements
Ownership                       NatLemmas (used by the last two Proofs and the windows')
```

**InflightWindows** is `window.rs` as operators: each function of the code has a
definition of its name. A packet is a record of type, id, QoS, DUP flag and body.
The loops over a window or a snapshot (`from_snapshot`, `client_retransmits`, `flush`
of the outage buffer) are folds, written as recursive functions over the positions.
MQTT 3.1.1 and 5.0 packets take the same way through every `match`, so the
version is left out; the raw bytes in an entry are the packet.

**MqttEndpoints** has the two peers and the four byte streams as packet
sequences. Nothing of it is under `src/`: the peers follow the protocol the way
the fake brokers of `src/tests` and the comments of the code expect. The client
sends any mix of publishes, subscriptions and pings, and may leave. The broker
keeps the session across connections (unless the client's own CONNECT was a clean
one), answers in order, redelivers unacknowledged messages right after CONNACK,
and may close a connection at any time, so that only a prefix of what it sent
arrives, or close it with a v5 DISCONNECT.

**Session** is the forward loop. `phase` says where the task is; each arm of the
two `select!`s is an action:

| Action | Code |
| --- | --- |
| `ForwardClientPacket`, `ForwardBrokerPacket`, `InterceptDisconnect`, `BrokerEof`, `ClientGone`, `KeepaliveTimeout` | connected phase of `forward_loop` |
| `service_outage_packet` | outage phase, with the buffer's limit |
| `ConnectBroker`, `RecvConnack`, `RecvSuback`, `Replay`, `EstablishFails` | `establish_broker`, one action between each two `await`s that can see the other side move |
| `Freeze`, `ResumeSession`, `adopt_session` | `handle_freeze` and the start of the loop in the child |

`Freeze` picks how much of either socket had been read, so every split between
read buffer and socket occurs. A write to a connection the broker has closed may
succeed, into the void, or fail. A refused connect attempt and the backoff after it
change nothing the properties see and are not steps. `Peers` stop when the session
has ended.

**SessionProperties** states what a session owes its peers, and its fairness. It
maps the history of a session to **Delivery** in each direction: messages published,
messages that came out, messages acknowledged. Delivery says what a publisher may
expect of a path (in order at first, repeated only if the QoS allows it, acknowledged
only after it came out) and knows nothing of connections, windows or sheds.

**Shed** is one upgrade in migrate mode: tasks of the parent, the coordinator,
the datagram channel and the child. What a snapshot contains is left to Session,
whose `ResumeSession` and `adopt_session` are the two ways out of `"frozen"`.

| Action | Code |
| --- | --- |
| `Accept`, `register`, `unregister`, `Wedge`, `handle_freeze` | a session task; `Wedge` enters and leaves `establish_broker`, where the control channel is not looked at |
| `BeginShed`, `AskNext`, `SendRequest`, `TakeReply`, `FreezeTimeout`, `DropRequest`, `FreezeDone` | the migrate arm and `freeze_all`; the timeout is two steps because the session may reply between the last poll and the drop of the channels |
| `UpgradeFails`, `UpgradeOk` | `ecdysis.upgrade()` |
| `SendSession`, `RecvAck`, `SendEnd`, `HandoffFails`, `ParentExit` | `send_sessions` and what follows it |
| `ChildRecv`, `ChildFails`, `ChildEnd`, `ChildAdopt`, `ChildSessionEnds` | `recv_sessions` and the adopting task |

Sessions of `Big` have a snapshot that does not fit a datagram: it may fail to be
sent, or be cut short on arrival.

**Ownership** is what the shed promises, without its machinery: a connection is new,
with the parent, in transit, with the child, or gone, and may move only along arrows
that lead from the parent through transit to the child.
`OwnerOf` at the end of Shed reads the owner off the state of both processes.

**SessionTimers** is the same loop seen by its clocks. Time advances in ticks, only
when no arm of `select!` is ready; all clocks count from their last event. `step` is
`OutageStep`, `elapsed` the age of the future the outage phase waits on, which
`NewWait` starts again whenever the loop goes round.

| Action | Code |
| --- | --- |
| `ReadClient`, `BrokerEof`, `KeepaliveTimeout` | arms of both `select!`s |
| `ConnectSucceeds`, `ConnectFails`, `BackoffOver` | the `wait` arm of the outage phase |
| `Established`, `EstablishFails` | the end of `establish_broker`, during which no clock is looked at and which has no timeout of its own: both are steps of the broker's making (`Answer`) |
| `Freeze`, `Resume`, `adopt_session` | the control arm; an adopted session has new clocks and the interval of its CONNECT |

**Generations** is `server::run` as processes that start one another: functions of
the generation hold the program counter of a process (`pc[g]`), the signals it has not
taken, its acceptor, and its `DrainTracker` (`tracked[g]` is the set of counted guards,
`calling[g]` those that brought the count to zero and have yet to notify). **TdInit** composes it with PID 1.

| Action | Code |
| --- | --- |
| `Accept`, `track`, `AcceptorStops`, `SessionEnds`, `DropGuard`, `notify_waiters` | `spawn_acceptor` and `SessionGuard`; `fetch_sub` and `notify_waiters` are two steps |
| `Setsid`, `BootFails`, `Ready`, `spawn_acceptor`, `Serve` | the start of a process up to its signal handlers, which come after the acceptor |
| `Upgrade`, `UpgradeOk`, `UpgradeErr`, `HandOver`, `HandoffFails`, `Stop` | the signal loop; a migrate handoff is one step that moves some of the sessions, and one that breaks off loses those that were sent |
| `Load`, `Notified`, `DrainTimeout` | `wait_drained`; the load and `notified()` are two steps |
| `record`, `Swap`, `Killpg`, `Reap`, `Sleep`, `NobodyLeft` | the handler and the loop of `td-init` |

A process before `Serve` dies of any signal (default disposition) with what it has accepted, one that has left
its loop ignores them, and the first process is in no group before `Setsid`. An
aborted acceptor may be in the middle of a poll (`"last"`) and finish it.

**ShedProofs**, **TdInitProofs**, **SessionTimersProofs**, **InflightWindowsProofs**,
**SessionProofs**, **SessionToBrokerProofs** and **SessionToClientProofs** have the
theorems. Of the last three the first has the invariant of the session as a whole and the
chain of acknowledgements, the second the path from the client to the broker with the
subscriptions, the third the path back with PINGRESP and SUBACK. **NatLemmas** has what
they need of the natural numbers: a least element, iterates of an operator, doubling. MCSession and MCShed hold what TLC
needs besides the constants in the `.cfg` files.

## What the runs show

All runs say `CHECK_DEADLOCK FALSE`: a session ends, a parent exits, and a session
whose bounded traffic is used up rests.

| Run | Instance | Properties |
| --- | --- | --- |
| `session_c2b` | client messages of QoS 2, 1, 0; two broken connections, one shed; two packets of outage buffer | `IInv` and `PathInv` (the invariants of the proofs; `PathInv` is `RetainInv`, `PassInv` and `OnceInv`); `NoFalseAck` (the client is told only what the broker routed); `Retained` (an unanswered request is always somewhere in the proxy, or its answer is on the way); `RoutedOnce`, `RoutedInOrder`, `DupToBroker`; `ClientSettled` (at rest nothing waits); `ClientToBrokerDelivery` (implements Delivery, QoS 2 exactly once) |
| `session_b2c` | broker messages of QoS 2, 0, 1; one broken connection, one shed | `IInv` and `ReturnInv` (the invariants of the proofs; `ReturnInv` is `ArriveInv` and `AnswerInv`); `NoFalseBrokerAck`, `DeliveredInOrder`, `DupToClient`, `BrokerSettled`; `ProxyMovesOnly` (no step of the proxy makes a packet of a QoS flow); `BrokerToClientDelivery` (implements Delivery, QoS 2 may be repeated) |
| `session_subs` | any three (un)subscriptions over two filters and two options; two broken connections, one shed | `SubsRestored` (at rest the broker has what the table has), `NoForeignSuback` |
| `session_live` | QoS 1 and QoS 2 message, a ping, one broken connection of every kind, one freeze, one place in the outage buffer, a client that may leave; fairness | `EventuallyAcked`; before the first freeze `PingAnsweredOnce`, `AdminDisconnectHidden` |
| `shed` | three sessions, one oversized, each liable to be stuck | `IInv`, `AtMostOneServer`, `HandoffComplete`, `RollbackComplete`, `SentNeverResumed`, `FrozenKept`, `FrozenReleased`; `TransfersOwnership` (implements Ownership) |
| `timers` | keepalive 10 asked for and 8 assigned, delays 1, 2, 3, two outages, one freeze, a broker that answers or drops what it accepts, stalls of one tick; fairness | `IInv`; `DroppedOnlyIfSilent` (a client that keeps its interval is never dropped); `BackoffSchedule` (delays in closed form); `SilentDropped` (one that has stopped sending is dropped); `Reconnects` |
| `generations` | up to three processes in either mode, two connections, two signals of a careful operator; fairness | `IInv`; `ExitsLast`; `StaysUp` (somebody accepts, or is about to); `GracefulExit` (a drained process cut off no session that was counted); `StopStops` |

The bounds. Two broken connections and a shed let a QoS 2 handshake be cut at
one step and cut again while it is being repaired, and let what the first repair left
behind be carried through a shed. Three messages, one of each QoS, put both handshakes in one
session with a message that is never repeated, and let one be dropped in the outage; a
fourth of QoS 2 behind them (1.8 million states) gives the same verdicts. Two places in the outage buffer make both the flush in order and the
overflow happen. Three sessions let one be handed over, one be on the wire and one
be waiting when the handoff fails. Two outages let the backoff of the first show
in the second, and with a freeze give three stalls, which at one tick each stay
below half of the interval of 8; `MinGap` is above `RetryMax`, so no client packet
can restart every delay. Three processes let one drain behind one that is itself
being replaced; two connections let the count go from two to zero with a third party
reading it. `Calm` makes the operator wait until td-init sleeps in `waitpid`, every
process has taken its signals and, before a shed, the last shed is complete (the last is
what the header of `td-init.rs` asks of operators); a stop may come in the middle of a
shed. In the session runs each message has a packet id of
its own (`Reuse = FALSE`) and sessions are persistent; what happens otherwise is
under known deviations.

Fairness. In `session_live` every action of the session task, the peers' reading,
and the coordinator's answer to a frozen session are weakly fair: the task is
polled by tokio whenever one of its sources is ready, the client sends finitely
many packets, so a connect attempt is not restarted for ever, and every path of
the migrate arm resumes or drops the batch. The broker owes nothing beyond
reading what it is sent on a connection it keeps. In `Shed` the coordinator, its
timers and the child's receiver are weakly fair, and a session that comes back to
its `select!` again and again takes the request (strong fairness: `select!`
polls its arms in random order). `Wedge` is not fair: nothing makes a broker
answer CONNECT. In SessionTimers the loop, the clock and the coordinator are weakly
fair, and a client that is awake sends when its interval is over. The broker comes and
goes as it likes, and nothing makes it answer a connection it has accepted unless the
constant `Answers` says so: then it answers or drops it within `MaxBlock` ticks, and
`Answer` is weakly fair. The code gives no such bound: `timers` assumes it, and without it
`SilentDropped` fails (known deviations). In TdInit one weak fairness condition covers td-init and all
processes and tasks: none of them can go on for ever, so it is enough that somebody
runs while somebody can. Clients need not leave, and the operator need not signal.

### Where the code does not do what is said of it

Five runs look for a violation, and TLC finds it:

| Run | What happens |
| --- | --- |
| `found_establish_error` | a broker that closes the new connection before CONNACK ends the session instead of being tried again |
| `found_shed_orphans` | a handoff that fails after some sessions leaves those with a child that has discarded them |
| `found_reconnect_starved` | every packet of the client restarts the connect attempt or the backoff, so a client that sends often enough keeps the session in the outage phase with the broker up |
| `found_stop_lost` | a SIGTERM between `swap` and `waitpid` is recorded and never forwarded |
| `found_drain_adopted` | a child that is told to stop does not wait for the sessions it adopted, which are not counted |

One disagreement is shown by a property that holds. Several comments say that publishes
during an outage are acked locally (`outage.rs:2` and `:19-20`, `registry.rs:34-35` and `:60`,
`session/mod.rs:11`, `docs/plans/2026-09-07-zero-downtime-restart-design.md:155-156`, the header
of `tests/broker_down_e2e.rs`). The code withholds every such acknowledgement
(`outage.rs:53-57`), as `design.md:180-183` says it should: a local ack would violate
`NoFalseAck`, which `session_c2b` checks and `ClientAcksAreTrue` proves.

Known deviations without a run of their own; each is a behaviour of the model as
it stands, under the constants given:

* `NoFalseAck` fails with `Reuse = TRUE`, two QoS 1 messages and one freeze: a PUBACK
  replayed from the leftover is not entered in the window, the message is sent and
  acknowledged again, and a client that reused the id takes that for the next
  message (`forward.rs:109`).
* `BrokerSettled` fails with a subscription and a QoS 1 message of the broker: a
  redelivered PUBLISH that comes before the SUBACK of the re-SUBSCRIBE is discarded in
  its place (`forward.rs:89`), and the real SUBACK reaches the client
  (`NoForeignSuback`). `DeliveredInOrder` fails for the same reason, with two
  subscriptions, two QoS 1 messages of the broker and two broken connections: the PUBLISH
  that was discarded comes again on the next connection, behind a newer one.
* A SUBSCRIBE or UNSUBSCRIBE in flight when the connection breaks is in neither window
  nor buffer and is never answered (`forward.rs:148`).
* `FrozenReleased` fails with two sheds: a session stuck in `establish_broker` keeps the
  request of a rolled-back shed in its channel, and the next `freeze_all` waits for
  room without a timeout while others are frozen (`registry.rs:156`).
* `Retained` fails with `Reuse = TRUE` and two QoS 2 messages: a second PUBCOMP
  removes the entry of the message that took over the id (`window.rs:141`).
* `NoFalseBrokerAck` fails with `Reuse = TRUE` and two QoS 1 messages: the client
  acknowledges both the retransmission and the redelivery.
* A QoS 2 message of the broker can reach the application twice: a redelivered
  PUBLISH sets the b2c entry back after PUBREC was forwarded (`window.rs:187`).
* `RoutedOnce` fails with `CleanStart = TRUE`: session-present is not looked at
  (`forward.rs:63`).
* `PingAnsweredOnce` and `AdminDisconnectHidden` would fail without their
  `freezes = 0`: leftovers are not filtered (`forward.rs:109`).
* An UNSUBSCRIBE the broker had not read is not repeated: the resumed session keeps
  the subscription (`subscriptions.rs:30`).
* A second freeze before the broker connection is established drops the leftover
  (`forward.rs:186`).
* A session that replies just as `freeze_all` gives up on it exits (`FrozenKept`
  has the exception), and one that finishes its handshake after `freeze_all` has
  copied the list dies with the parent (`server.rs:224`).
* `DroppedOnlyIfSilent` fails with `MaxBlock = 2` (stalls between two reads of half an
  interval or more: `select!` may take the timer although a packet waits,
  `forward.rs:424`), and with `ServerKeepAlive` above `KeepAlive`: an adopted session
  enforces the interval of the CONNECT (`handshake.rs:84`).
* `SilentDropped` fails with `Answers = FALSE`: a broker that accepts the connection and
  never sends CONNACK keeps the session in `establish_broker`, which has no timeout
  (`forward.rs:62`), and nothing watches the deadline there, although "a client that sends
  nothing for 1.5× its keepalive interval is disconnected" (`design.md:175-176`).
  `Reconnects` fails with it, and `EventuallyAcked` rests on the same answer: the broker of
  Session reads the CONNECT on a connection it keeps, and answers it.
* `Reconnects` fails as soon as `MinGap` is not above `RetryMax`.
* A session that ends between the load and `notified()` is not noticed: the process
  waits with the count at zero until its timeout (`server.rs:63`).
* `StaysUp` fails with `Calm = FALSE`: a SIGUSR2 that meets a process before its
  handlers kills it, also when its parent has already let go (`server.rs:137`).
* `StopStops` also fails when a TERM joins a USR2 that a process has not taken: the
  child it starts has never seen the TERM (`server.rs:180`).
* A connection accepted while the acceptor is being aborted may be cut off by the
  exit before it was counted (`server.rs:263`).
* td-init exits with the status of the process it forked, not "the last exit status"
  (`td-init.rs:13`), and with 0 if that process died of a signal.

## What is proved

Each theorem holds for every value of the constants that meets the assumption of its
module (`ShedAssumption`, `GenerationsAssumption`, `TdInitAssumption`,
`TimersAssumption`, `EndpointsAssumption`, `SessionAssumption`: sets and numbers are of
the right kind, the bounds are natural numbers, and in SessionTimers the first delay is
not above the cap, the client can keep its interval, and `Horizon` is beyond every
deadline), and the hypotheses given here. In each module `IInv` is the
inductive invariant, and a run checks it as well.

### The handoff (`ShedProofs`)

For every set of sessions, every choice of oversized ones and any number of sheds:

| Theorem | States |
| --- | --- |
| `ShedInvariant` | `Spec => []IInv` |
| `ShedTypeOK` | `Spec => []TypeOK` |
| `OneServer` | parent and child never serve the same client socket |
| `CompleteHandoff` | when the child starts adopting it has the whole batch |
| `CompleteRollback` | after a failed upgrade or handoff nothing is frozen |
| `SentStaysSent` | the parent never serves again what the child acknowledged |
| `FrozenStaysKept` | a frozen session ends only when sent, or in the race with the timeout |
| `ShedTransfers` | `Spec => TransfersOwnership`: the shed implements Ownership |

None of these is inductive as it stands. `AtMostOneServer`, for one, needs to know
that the child adopts only after the end marker, that the end marker is sent only
when the batch was acknowledged as a whole, and that the parent will resume none of
an acknowledged batch. `IInv` adds that in three parts: `FreezeInv` (a session is
frozen exactly while the batch, or the reply in its channel, accounts for it),
`WireInv` (one datagram at a time; the end marker means `sent = frozen`) and
`ChildInv` (the child has only what it was sent, and has everything it
acknowledged). The induction goes group by group: `TasksInv`, `FreezingInv`,
`HandoffInv`, `ChildInvLemma`, put together in `NextInv`. The two action
properties follow from `IInv` and a look at each action. For the refinement,
`OwnerType` gives each connection an owner, and `OwnerMoves` shows action by action
that the owner stays or moves along an arrow; it needs `IInv` to know that the
parent has let go (`gone`) of whatever the child serves.

### The session (`InflightWindowsProofs`, `SessionProofs`, `SessionToBrokerProofs`, `SessionToClientProofs`)

For any traffic of both peers, any number of broken connections, replays, freezes and
adoptions, and any size of the buffer:

| Theorem | States | Hypothesis |
| --- | --- | --- |
| `SnapshotRoundTrip` | `from_snapshot(snapshot(w)) = w` for windows of any size with distinct ids | |
| `SessionInvariant` | `Spec => []IInv` | `~ Reuse` |
| `ClientAcksAreTrue` | the client is told only what the broker routed (`NoFalseAck`) | `~ Reuse` |
| `BrokerAcksAreTrue` | the broker is told only what the client received (`NoFalseBrokerAck`) | `~ Reuse` |
| `AdminDisconnectsHidden` | until a first freeze the client sees no administrative DISCONNECT | `~ Reuse` |
| `ProxyOnlyMoves` | no step of the proxy makes a PUBLISH or an acknowledgement (`ProxyMovesOnly`) | `~ Reuse` |
| `RetainedInvariant` | `Spec => []RetainInv` | `~ Reuse` |
| `NothingForgotten` | a request the client waits for is in the proxy, or its answer is on the way (`Retained`) | `~ Reuse` |
| `PassInvariant` | `Spec => []PassInv` | `~ Reuse` |
| `MessagesRoutedInOrder` | messages reach the broker for the first time in the client's order (`RoutedInOrder`) | `~ Reuse` |
| `RepeatsToBrokerMarked` | what the broker has routed comes again only with DUP (`DupToBroker`) | `~ Reuse` |
| `ClientComesToRest` | when all is quiet the client waits for nothing and the c2b window is empty (`ClientSettled`) | `~ Reuse` |
| `OnceInvariant` | `Spec => []OnceInv` | `~ Reuse`, `~ CleanStart` |
| `MessagesRoutedOnce` | the broker routes a QoS 2 message once (`RoutedOnce`) | `~ Reuse`, `~ CleanStart` |
| `PathInvariant` | `Spec => []PathInv` | `~ Reuse`, `~ CleanStart` |
| `SessionDelivers` | `Spec => ClientToBrokerDelivery`: the session implements Delivery from client to broker | `~ Reuse`, `~ CleanStart` |
| `SubscriptionsRestored` | when all is quiet the broker has every subscription of the table, with its options (`SubsRestored`) | `~ Reuse` |
| `ArriveInvariant` | `Spec => []ArriveInv` | `~ Reuse` |
| `RepeatsToClientMarked` | what the client has handed on comes again only with DUP (`DupToClient`) | `~ Reuse` |
| `MessagesDeliveredInOrder` | messages reach the client for the first time in the broker's order (`DeliveredInOrder`) | `~ Reuse`, `MaxSubOps = 0` |
| `SessionDeliversToClient` | `Spec => BrokerToClientDelivery`: the session implements Delivery from broker to client | `~ Reuse`, `MaxSubOps = 0` |
| `PingsAnsweredOnce` | until a first freeze every PINGREQ has one PINGRESP (`PingAnsweredOnce`) | `~ Reuse` |
| `NoForeignSubacks` | the SUBACK of a re-SUBSCRIBE never reaches the client (`NoForeignSuback`) | `~ Reuse`, `Len(BrokerQoS) = 0` |
| `AnswerInvariant`, `ReturnInvariant` | `Spec => []AnswerInv`, `Spec => []ReturnInv` | `~ Reuse`, `~ CleanStart`, `MaxSubOps = 0` |
| `BrokerComesToRest` | when all is quiet the broker waits for nothing and the b2c window is empty (`BrokerSettled`) | `~ Reuse`, `~ CleanStart`, `MaxSubOps = 0` |

`MaxSubOps = 0` is a session that does not subscribe on this connection: the broker has its
subscriptions from before. `Len(BrokerQoS) = 0` is one that is sent nothing. Both are there
because `establish_broker` takes the first packet after its re-SUBSCRIBE for the SUBACK: the
properties fail when subscriptions and messages of the broker meet (known deviations above).

`NoFalseAck` is about two histories at opposite ends. What links them is that every
packet in between is true to what the client has in flight, wherever it is: `AckInv`
says so of the sockets, the read buffers, the windows and the outage buffer, and
`DeliverInv` says the same of the other direction. That none of the proxy's steps can
break it has one reason, and it is proved once: a step of the proxy only moves packets
(`OnlyFrom`, which looks through the DUP bit), so a statement about each packet in
transit stays true (`MovesKeepAcks`). What remains are the peers' steps, one by one:
there an id is taken, a message is routed or received, and an acknowledgement is made or
read. That `handle_freeze` and `adopt_session` only move packets is where the round trip
of the snapshot is used, and that the windows keep distinct ids (`StreamsOK`) is what the
round trip needs. `AdminInv` knows that a DISCONNECT is the last packet on a connection
that is closed.

`Retained` says that something is still there, and a statement about each packet in
transit cannot give that. `RetainInv` has what it needs next to `IInv`:

* `QosInv`: a PUBACK answers a QoS 1 message, and PUBREL and PUBCOMP are about only
  after the client has released the id. So an acknowledgement that removes a window
  entry is one the client's state can take.
* `FreshInv`: a PUBLISH that was not passed on is the only one of its id, no copy is in
  the window, and its id is not released. It can therefore not come in behind the
  PUBREL and take its slot (`insert` replaces by id).
* `KeptInv`: `Retained` without the answers that are lost with a broken connection or
  a leftover. It counts only the last acknowledgement in the client's socket, and it
  adds that a released id is still in the window: a PUBREL enters the window only in
  the place of an entry (`transition` ignores an id that is not tracked).

Here the two sides of each step matter: what leaves the outage buffer must be in the
window afterwards (`FlushRaws`), and what leaves the window
must have put its acknowledgement into the client's socket. The hypothesis `~ Reuse`
is real: with `Reuse`, `NoFalseBrokerAck` and `Retained` fail (known deviations above).

Order, repetition and rest are about positions in several streams at once. A packet of
the client goes through the client's socket, the read buffer, the outage buffer or the
window, and the broker's socket, and may be sent again from the window at any time.
`PassInv` describes that path, next to `IInv` and `RetainInv`:

* `OrderInv`: each of these places keeps the client's order, and all that is in one of
  them comes before all that is in the places behind it. `Before` asks for less than
  a total order: a PUBLISH comes after every older PUBLISH and never after the PUBREL of
  its id. The window is behind the broker's socket only in the second sense, since
  everything in the window may be on the connection already.
* `MessageInv`: a PUBLISH on its way that was not routed is newer than all that were, so
  routing it keeps `RoutedInOrder`; and no QoS 2 PUBLISH is about any more once PUBCOMP
  is on its way back.
* `StageInv`: what each place can hold in each phase. A PUBLISH that was never passed on
  was never routed, one that comes again carries DUP, and while the connection works
  every window entry is `Underway`: it, or the packet that ends or continues its flow, is
  on the connection. A connection that rests therefore leaves the window empty, and with
  `Retained` nothing that the client waits for: this is `ClientSettled`.

The places change hands in `Replay` (window, then buffer, are written to the new
connection: `ProxyKeepsPassing`), and at the broker, whose reading of the head of its
socket may route the least message that was not routed (`HeadIsLeast`,
`BrokerOnPublishPasses`).

`OnceInv` adds that the broker still remembers the id of every QoS 2 PUBLISH that is in
the window or in its socket and was routed. It can forget one only when it reads the
PUBREL, which by `OrderInv` comes after every copy and replaces the window entry, or when
it reads a clean CONNECT, which the proxy never sends after the first. The hypothesis
`~ CleanStart` is real: with it `RoutedOnce` fails. For the refinement, every step of a
session is a `Publish` of Delivery (the client sends), a `Deliver` (the broker routes:
`PublishIsDeliver`, from `OnceInv` if the message was routed before and from `MessageInv` if it
was not), an `Acknowledge` (the client reads its last acknowledgement: `AckIsAcknowledge`,
from `AckInv`), or leaves its variables alone (`StepIsDelivery`).

`SubsRestored` compares two tables that are changed at different times: the proxy's when a
SUBSCRIBE is read, the broker's when it arrives. `SubsInv` relates them by what is in
between: reading the broker's socket to its end leads the broker's subscriptions to the
table (`LeadsTo`: for each filter of the table the last packet about it has its options, or
there is none and the broker has them). For the re-SUBSCRIBE of a new connection this holds
because it has the whole table and the outage buffer, flushed behind it, leads the table to
itself. An UNSUBSCRIBE that was lost may leave the broker with more, which is not ruled out.

Back to the client, both the broker and the proxy send again, and leftovers of a broken
connection pass in front of both. `DeliveredInOrder` says nothing of what is on its way and
is not inductive. `ArriveInv` looks at all of it in the order in which it gets there
(`Arriving`: client socket, leftover, read buffer, broker socket):

* each PUBLISH on it is newer than all before it and all the client has, or repeats one of
  those with DUP (`Continues`). A broken connection cuts only its end off;
* the b2c window has only what was written to the client, so that a retransmission is a
  repetition wherever it is put;
* what the broker would redeliver (`bOut`) is on its way, or newer than everything that
  is: then the redelivery is a first delivery in its order.

In the refinement `BrokerPublish` is `Publish`, the client's reading of a PUBLISH is
`Deliver` and the broker's reading of the last acknowledgement is `Acknowledge`.

`BrokerSettled` needs a reason why nothing gets stuck. `AnswerInv` gives it: while the
connection works, the next packet of every flow in the broker's store is on its way to the
client, or the client's answer to it is on its way back (`FlowsContinue`), so a connection
at rest leaves the store empty. For the window two more facts are needed: a PUBREL comes
after all PUBLISHes of its message (`ReleasedLast`), so that no copy enters the window
once PUBCOMP has left it, and the window has a QoS 2 message no longer than the broker's
store and a QoS 1 message only until a PUBACK that is sure to come (`WindowReleased`). A
clean broker forgets its store, hence `~ CleanStart`.

`PingAnsweredOnce` is inductive, with `IInv` and the fact that the b2c window keeps only
PUBLISHes (`B2CPublishes`); every step is shown to keep the sum of the counts. For
`NoForeignSuback` the sum is an upper bound: a SUBSCRIBE of the client or its answer is on
its way at most once, and only while the client waits (`SubackInv`), where a connection that
is being established (`Establishing`) has only the proxy's own. TLC checked `SubsInv` and
`SubackInv` on instances like that of `session_subs` before they were proved.

### The clocks (`SessionTimersProofs`)

| Theorem | States | Hypothesis |
| --- | --- | --- |
| `TimersInvariant` | `Spec => []IInv` | |
| `DelaysDouble` | the n-th delay in a row is the first one doubled n - 1 times, up to the cap (`BackoffSchedule`) | |
| `DeadlineIsFair` | only a client that was silent for 1.5 intervals is dropped (`DroppedOnlyIfSilent`) | `ShortStalls` |

The loop measures silence from when it read a packet. `IdleInv` bounds the difference:
if nothing is unread, it has not waited longer than the client was silent; if something
is, no longer than one interval and the stalls so far, which it counts (`Stalls`) from the
connections lost and the freezes. `ShortStalls` says that the broker answers or drops what
it accepts (`Answers`, without which a stall has no bound), that all stalls of the session
together stay below half an interval, and that the broker assigns no interval above the one
of the CONNECT, nor turns one off that was asked for; without any of these, TLC has a
counterexample. The sum over the whole session is more than the argument needs, which is
the stalls between two reads.

### The generations (`TdInitProofs`)

For any number of processes, connections and signals, in drain and in migrate mode:

| Theorem | States | Hypothesis |
| --- | --- | --- |
| `GenerationsInvariant` | `Spec => []IInv` | |
| `TdInitExitsLast` | td-init exits when no process runs (`ExitsLast`) | |
| `DrainIsGraceful` | a process that reports it has drained cut off no counted session (`GracefulExit`) | |
| `PortStaysUp` | somebody accepts, or is about to, until a stop is asked for (`StaysUp`) | `Calm` |

td-init asks only whether it has a child left. `TreeInv` makes that enough: parents are
older than their children, so if any process ran, the oldest of those would be a child
of td-init (`LeastElement`). `ConnInv` ties a connection to the process that
serves it and counts it, between any two steps of `track`, `DropGuard` and
`wait_drained`; `AcceptInv` and `StageInv` say what a process holds at each stage;
`CalmInv` what a careful operator can rely on while a shed is under way.

### How induction over data is avoided

The prover cannot use the induction theorems of its library. Where a fact about a
recursive function was needed for every argument (the delays, the fold of
`from_snapshot`), the proof takes the least counterexample, which `LeastElement` gives,
and contradicts it from its predecessor.

### Only model-checked

* Liveness: `EventuallyAcked`, `FrozenReleased`, `SilentDropped`, `Reconnects`,
  `StopStops` are out of the prover's reach.
* `TypeOK` of the session and `ProxyMovesOnly` with `Reuse`: the proofs say nothing of ids
  that are used again, although these two do not depend on it.

Every invariant and action property that a run checks is stated by a theorem, under the
hypotheses above; each run is an instance that meets them.

The `shed` run makes one shed; that a second one keeps the invariants is shown by the
proofs.

## Not modelled

* The length of the timeouts of the shed and of the drain: one may strike whenever its
  wait is under way. Refused or slow first handshakes: a session of Session starts
  established.
* Failures of a process between `ready()` and its signal handlers other than a
  signal, and signals to td-init before it has installed its own.
* v5 reason codes of acknowledgements and CONNACK refusals; subscription
  identifiers.
* Bytes: the codec, the JSON of a snapshot and descriptor passing are taken to
  deliver whole packets and snapshots. ecdysis is an upgrade that works or fails.
* `lib.rs` and `main.rs`: a wrapper and the command line.

## Plan

Done: windows, session, shed with its proofs and its refinement, delivery, timers,
generations and td-init; the proofs above. Next:

1. `TypeOK` and `ProxyMovesOnly` without `~ Reuse`, which they do not need.
2. Return codes of CONNACK and reason codes of acknowledgements in Session.
