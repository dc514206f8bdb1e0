------------------------ MODULE SessionTimersProofs ------------------------
(***************************************************************************)
(* Proofs about the clocks of a session, for all intervals, delays and     *)
(* bounds.                                                                 *)
(***************************************************************************)
EXTENDS SessionTimers, NatLemmas, TLAPS

\* The constants one by one.
LEMMA Constants ==
  /\ KeepAlive \in Nat /\ Agreed \in Nat
  /\ ServerKeepAlive # NotAssigned => ServerKeepAlive = Agreed
  /\ ConnectTime \in Nat /\ MaxBlock \in Nat /\ MaxDrops \in Nat /\ MaxFreezes \in Nat
  /\ RetryInitial \in Nat \ {0} /\ RetryMax \in Nat \ {0} /\ MinGap \in Nat \ {0}
  /\ RetryInitial <= RetryMax
  /\ Horizon \in Nat /\ RetryMax < Horizon
  /\ 2 * KeepAlive < Horizon /\ 2 * Agreed < Horizon
  BY TimersAssumption DEF Agreed, NotAssigned

\* The recursion of the schedule.
LEMMA DoubledRec ==
  /\ Doubled[0] = RetryInitial
  /\ \A n \in Nat : /\ Doubled[n] \in Nat /\ Doubled[n] > n
                    /\ Doubled[n + 1] = 2 * Doubled[n]
<1>1. Doubled = [n \in Nat |-> IF n = 0 THEN RetryInitial ELSE 2 * Doubled[n - 1]]
  <2>1. RetryInitial \in Nat
    BY Constants
  <2>2. \E f : f = [n \in Nat |-> IF n = 0 THEN RetryInitial ELSE 2 * f[n - 1]]
    BY <2>1, DoublingExists
  <2>3. QED
    BY <2>2 DEF Doubled
<1>2. \A n \in Nat : Doubled[n] \in Nat /\ Doubled[n] > n
  BY <1>1, Constants, DoublingGrows
<1>3. ASSUME NEW n \in Nat PROVE Doubled[n + 1] = 2 * Doubled[n]
  <2>1. n + 1 \in Nat /\ n + 1 # 0 /\ (n + 1) - 1 = n
    OBVIOUS
  <2>2. QED
    BY <2>1, <1>1
<1>4. QED
  BY <1>1, <1>2, <1>3

\* From the n-th delay to the next: doubling the capped delay and capping again
\* is capping the doubled one.  At the horizon the cap has long been reached.
LEMMA NextDelay ==
  ASSUME NEW n \in 0..Horizon
  PROVE  LET m == AtMost(n + 1, Horizon)
         IN  /\ AtMost(Doubled[n], RetryMax) = AtMost(Doubled[m - 1], RetryMax)
             /\ AtMost(2 * AtMost(Doubled[n], RetryMax), RetryMax) = AtMost(Doubled[m], RetryMax)
<1> USE Constants DEF AtMost
<1>1. CASE n < Horizon
  <2>1. AtMost(n + 1, Horizon) = n + 1 /\ (n + 1) - 1 = n
    BY <1>1
  <2>2. Doubled[n] \in Nat /\ Doubled[n + 1] = 2 * Doubled[n]
    BY DoubledRec
  <2>3. QED
    BY <2>1, <2>2
<1>2. CASE n = Horizon
  <2>1. AtMost(n + 1, Horizon) = n /\ n - 1 \in Nat
    BY <1>2
  <2>2. /\ Doubled[n] \in Nat /\ Doubled[n] >= RetryMax
        /\ Doubled[n - 1] \in Nat /\ Doubled[n - 1] >= RetryMax
    BY <1>2, <2>1, DoubledRec
  <2>3. QED
    BY <2>1, <2>2
<1>3. QED
  BY <1>1, <1>2

\* The invariant holds for a session that has just been established.
LEMMA InitInv == Init => IInv
<1> SUFFICES ASSUME Init PROVE IInv
  OBVIOUS
<1> USE Constants DEF Init
<1>1. TypeOK
  <2>1. up \in BOOLEAN /\ unread \in BOOLEAN /\ asleep \in BOOLEAN
    BY Zenon
  <2>2. QED
    BY <2>1 DEF TypeOK
<1>2. IdleInv
  BY DEF IdleInv, Stalls
<1>3. BackoffInv
  BY DoubledRec DEF BackoffInv, BackoffSchedule, AtMost
<1>4. QED
  BY <1>1, <1>2, <1>3 DEF IInv, Init

\* Shapes are kept by every step.
LEMMA NextTypeOK == TypeOK /\ [Next]_vars => TypeOK'
<1> SUFFICES ASSUME TypeOK, [Next]_vars PROVE TypeOK'
  OBVIOUS
<1> USE Constants DEF TypeOK, loopVars, clientVars, Looping, NewWait, AtMost, Later
<1>1. CASE UNCHANGED vars
  BY <1>1 DEF vars
<1>2. CASE ClientSends \/ ClientFallsAsleep
  <2>1. unread' \in BOOLEAN /\ asleep' \in BOOLEAN /\ UNCHANGED up
    BY Zenon, <1>2 DEF ClientSends, ClientFallsAsleep
  <2>2. silent' \in 0..Horizon /\ UNCHANGED <<loopVars, drops, freezes>>
    BY <1>2 DEF ClientSends, ClientFallsAsleep
  <2>3. QED
    BY <2>1, <2>2
<1>3. CASE BrokerDown \/ BrokerUp
  <2>1. up' \in BOOLEAN
    BY Zenon, <1>3 DEF BrokerDown, BrokerUp
  <2>2. drops' \in 0..MaxDrops /\ UNCHANGED <<loopVars, clientVars, freezes>>
    BY <1>3 DEF BrokerDown, BrokerUp
  <2>3. QED
    BY <2>1, <2>2
<1>4. CASE ReadClient
  <2>1. unread' \in BOOLEAN
    BY Zenon, <1>4 DEF ReadClient
  <2>2. /\ phase' \in {"connected", "outage"} /\ idle' = 0 /\ elapsed' = 0
        /\ UNCHANGED <<was, why, keep_alive, step, backoff, blocked, fails,
                       silent, asleep, up, drops, freezes>>
    BY <1>4 DEF ReadClient
  <2>3. QED
    BY <2>1, <2>2
<1>5. CASE BrokerEof \/ KeepaliveTimeout
  BY <1>5 DEF BrokerEof, KeepaliveTimeout
<1>6. CASE ConnectSucceeds \/ ConnectFails \/ BackoffOver
  BY <1>6 DEF ConnectSucceeds, ConnectFails, BackoffOver
<1>7. CASE Established \/ EstablishFails
  BY <1>7 DEF Established, EstablishFails
<1>8. CASE Coordinator
  BY <1>8 DEF Coordinator, Freeze, Resume, adopt_session
<1>9. CASE Tick
  BY <1>9 DEF Tick
<1>10. QED
  BY <1>1, <1>2, <1>3, <1>4, <1>5, <1>6, <1>7, <1>8, <1>9 DEF Next, World, Loop, Answer

\* One more stall is worth MaxBlock ticks.
LEMMA OneMore ==
  ASSUME NEW k \in Int
  PROVE  MaxBlock * (k + 1) = MaxBlock * k + MaxBlock
  BY Constants

\* The clocks against each other: every step keeps IdleInv.
LEMMA NextIdleInv == TypeOK /\ IdleInv /\ [Next]_vars => IdleInv'
<1> SUFFICES ASSUME TypeOK, IdleInv, [Next]_vars PROVE IdleInv'
  OBVIOUS
<1>0. TypeOK'
  BY NextTypeOK
<1>1. Stalls \in Int /\ Stalls' \in Int
  BY <1>0, Constants DEF TypeOK, Stalls
<1> USE Constants DEF loopVars, clientVars, Looping, NewWait
<1>2. CASE UNCHANGED vars
  BY <1>2 DEF vars, IdleInv, Stalls
<1>3. CASE ClientSends
  <2>1. UNCHANGED <<Stalls, phase, idle, blocked, asleep>> /\ unread' /\ silent' = 0
    BY <1>3 DEF ClientSends, Stalls
  <2>2. Agreed # 0 => silent <= Agreed
    BY <1>3 DEF ClientSends, IdleInv
  <2>3. QED
    BY <1>1, <2>1, <2>2 DEF TypeOK, IdleInv
<1>4. CASE ClientFallsAsleep
  BY <1>4 DEF ClientFallsAsleep, TypeOK, IdleInv, Stalls
<1>5. CASE BrokerDown
  BY <1>5, OneMore DEF BrokerDown, TypeOK, IdleInv, Stalls
<1>6. CASE BrokerUp
  BY <1>6, OneMore DEF BrokerUp, TypeOK, IdleInv, Stalls
<1>7. CASE ReadClient
  BY <1>7 DEF ReadClient, TypeOK, IdleInv, Stalls
<1>8. CASE BrokerEof \/ KeepaliveTimeout
  BY <1>8 DEF BrokerEof, KeepaliveTimeout, TypeOK, IdleInv, Stalls
<1>9. CASE ConnectSucceeds
  BY <1>9, OneMore DEF ConnectSucceeds, TypeOK, IdleInv, Stalls
<1>10. CASE ConnectFails \/ BackoffOver
  BY <1>10 DEF ConnectFails, BackoffOver, TypeOK, IdleInv, Stalls
<1>11. CASE Established
  BY <1>11 DEF Established, TypeOK, IdleInv, Stalls
<1>12. CASE EstablishFails
  BY <1>12 DEF EstablishFails, TypeOK, IdleInv, Stalls
<1>13. CASE Freeze
  BY <1>13, OneMore DEF Freeze, TypeOK, IdleInv, Stalls
<1>14. CASE Resume
  BY <1>14 DEF Resume, TypeOK, IdleInv, Stalls
<1>15. CASE adopt_session
  BY <1>15, OneMore DEF adopt_session, TypeOK, IdleInv, Stalls
<1>16. CASE Tick
  BY <1>16 DEF Tick, Ready, Later, AtMost, TypeOK, IdleInv, Stalls
<1>17. QED
  BY <1>2, <1>3, <1>4, <1>5, <1>6, <1>7, <1>8, <1>9, <1>10, <1>11, <1>12, <1>13, <1>14,
     <1>15, <1>16 DEF Next, World, Loop, Answer, Coordinator

\* The delays follow the schedule: every step keeps BackoffInv.
LEMMA NextBackoffInv == TypeOK /\ BackoffInv /\ [Next]_vars => BackoffInv'
<1> SUFFICES ASSUME TypeOK, BackoffInv, [Next]_vars PROVE BackoffInv'
  OBVIOUS
<1> USE Constants DEF BackoffInv, BackoffSchedule, loopVars, clientVars
<1>1. CASE UNCHANGED <<step, backoff, fails>>
  BY <1>1
<1>2. CASE ConnectFails
  <2>1. fails \in 0..Horizon /\ fails' = AtMost(fails + 1, Horizon) /\ fails' > 0
    BY <1>2 DEF ConnectFails, TypeOK, AtMost
  <2>2. step' = backoff /\ backoff' = AtMost(2 * backoff, RetryMax)
    BY <1>2 DEF ConnectFails
  <2>3. QED
    BY <2>1, <2>2, NextDelay
<1>3. CASE BackoffOver
  BY <1>3 DEF BackoffOver
<1>4. CASE Established \/ adopt_session
  <2>1. step' = 0 /\ fails' = 0 /\ backoff' = RetryInitial
    BY <1>4 DEF Established, adopt_session
  <2>2. QED
    BY <2>1, DoubledRec DEF AtMost
<1>5. QED
  BY <1>1, <1>2, <1>3, <1>4 DEF Next, vars, World, ClientSends, ClientFallsAsleep, BrokerDown,
     BrokerUp, Loop, ReadClient, BrokerEof, KeepaliveTimeout, ConnectSucceeds,
     Answer, EstablishFails, Coordinator, Freeze, Resume, Tick

\* In every state the clocks are in range, what the loop takes for silence is
\* silence or a stall, and the delays follow the schedule.
THEOREM TimersInvariant == Spec => []IInv
<1>1. IInv /\ [Next]_vars => IInv'
  <2> SUFFICES ASSUME IInv, [Next]_vars PROVE IInv'
    OBVIOUS
  <2>1. why' # "none" => phase' = "ended"
    BY DEF IInv, TypeOK, Next, vars, loopVars, clientVars, Looping, World, ClientSends,
       ClientFallsAsleep, BrokerDown, BrokerUp, Loop, ReadClient, BrokerEof, KeepaliveTimeout,
       ConnectSucceeds, ConnectFails, BackoffOver, Answer, Established, EstablishFails,
       Coordinator, Freeze, Resume, adopt_session, Tick
  <2>2. QED
    BY <2>1, NextTypeOK, NextIdleInv, NextBackoffInv DEF IInv
<1>2. QED
  BY <1>1, InitInv, PTL DEF Spec

\* For any first delay and any cap, the n-th delay in a row is the first one
\* doubled n - 1 times, up to the cap.
THEOREM DelaysDouble == Spec => []BackoffSchedule
<1>1. IInv => BackoffSchedule
  BY DEF IInv, BackoffInv
<1>2. QED
  BY <1>1, TimersInvariant, PTL

\* The broker answers every connection it accepts, all the stalls of the session
\* together last less than half an interval, and the broker does not assign an
\* interval longer than the one the client asked for: then the deadline arm fires only on a client that was silent for 1.5
\* times the interval.
THEOREM DeadlineIsFair ==
  ASSUME ShortStalls
  PROVE  Spec => []DroppedOnlyIfSilent
<1>1. Init => DroppedOnlyIfSilent
  BY DEF Init, DroppedOnlyIfSilent
<1>2. IInv /\ DroppedOnlyIfSilent /\ [Next]_vars => DroppedOnlyIfSilent'
  <2> SUFFICES ASSUME IInv, DroppedOnlyIfSilent, [Next]_vars PROVE DroppedOnlyIfSilent'
    OBVIOUS
  <2> USE Constants DEF IInv, DroppedOnlyIfSilent, loopVars, clientVars
  <2>1. CASE KeepaliveTimeout
    <3>1. keep_alive # 0 /\ 2 * idle >= 3 * keep_alive /\ phase \in {"connected", "outage"}
      BY <2>1 DEF KeepaliveTimeout, Deadline, Looping
    <3>2. Agreed # 0 /\ Agreed <= keep_alive /\ keep_alive \in Nat
      BY <3>1 DEF ShortStalls, TypeOK
    <3>3. CASE unread
      <4>1. idle <= Agreed + MaxBlock * Stalls
        <5>1. phase \notin {"establish", "frozen"} /\ idle + 0 = idle
          BY <3>1 DEF TypeOK
        <5>2. QED
          BY <5>1, <3>2, <3>3 DEF IdleInv, ShortStalls
      <4>2. Stalls \in Int /\ Stalls <= MaxDrops + MaxFreezes
        BY DEF TypeOK, Stalls
      <4>3. MaxBlock * Stalls <= MaxBlock * (MaxDrops + MaxFreezes)
        BY <4>2
      <4>4. 2 * (MaxBlock * (MaxDrops + MaxFreezes)) < Agreed
        BY <3>2 DEF ShortStalls
      <4>5. QED
        BY <4>1, <4>2, <4>3, <4>4, <3>1, <3>2 DEF TypeOK
    <3>4. CASE ~ unread
      BY <2>1, <3>1, <3>2, <3>4 DEF KeepaliveTimeout, IdleInv, TypeOK
    <3>5. QED
      BY <3>3, <3>4
  <2>2. CASE UNCHANGED <<why, silent>>
    BY <2>2
  <2>3. CASE EstablishFails
    BY <2>3 DEF EstablishFails
  <2>4. CASE ClientSends \/ Tick
    BY <2>4 DEF ClientSends, Tick, Later, TypeOK
  <2>5. QED
    BY <2>1, <2>2, <2>3, <2>4 DEF Next, vars, World, ClientFallsAsleep, BrokerDown, BrokerUp,
       Loop, ReadClient, BrokerEof, ConnectSucceeds, ConnectFails, BackoffOver, Answer, Established,
       Coordinator, Freeze, Resume, adopt_session
<1>3. QED
  BY <1>1, <1>2, TimersInvariant, PTL DEF Spec
=============================================================================
