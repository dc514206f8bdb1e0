----------------------------- MODULE ShedProofs -----------------------------
(***************************************************************************)
(* Proofs about the migrate shed, for every set of sessions, whichever of  *)
(* them have oversized snapshots, and any number of sheds.                 *)
(***************************************************************************)
EXTENDS Shed, TLAPS

\* The invariant holds when the process starts: nothing is frozen, sent or
\* received.
LEMMA InitInv == Init => IInv
<1> SUFFICES ASSUME Init PROVE IInv
  OBVIOUS
<1> USE ShedAssumption DEF Init
<1>1. TypeOK
  BY DEF TypeOK
<1>2. FreezeInv
  BY DEF FreezeInv
<1>3. WireInv
  BY DEF WireInv
<1>4. ChildInv
  BY DEF ChildInv
<1>5. QED
  BY <1>1, <1>2, <1>3, <1>4 DEF IInv

\* The steps of the session tasks keep the invariant: only a session with a
\* live request becomes frozen, and a frozen one takes no step.
LEMMA TasksInv ==
  ASSUME IInv, NEW s \in Sessions, Tasks(s)
  PROVE  IInv'
<1> USE ShedAssumption DEF IInv, TypeOK, FreezeInv, WireInv, ChildInv, Alive,
        parentVars, coordVars, childVars
<1>1. CASE Accept(s)
  BY <1>1 DEF Accept
<1>2. CASE register(s)
  BY <1>2 DEF register
<1>3. CASE unregister(s)
  BY <1>3 DEF unregister
<1>4. CASE Wedge(s)
  BY <1>4 DEF Wedge
<1>5. CASE handle_freeze(s)
  BY <1>5 DEF handle_freeze
<1>6. CASE ChildSessionEnds(s)
  BY <1>6 DEF ChildSessionEnds
<1>7. QED
  BY <1>1, <1>2, <1>3, <1>4, <1>5, <1>6 DEF Tasks

\* freeze_all keeps the invariant: the one session it talks to is the only one
\* whose state it changes.
LEMMA FreezingInv ==
  ASSUME IInv, BeginShed \/ Freezing
  PROVE  IInv'
<1> USE ShedAssumption DEF IInv, TypeOK, FreezeInv, WireInv, ChildInv,
        parentVars, coordVars, childVars
<1>1. CASE BeginShed
  <2> USE <1>1 DEF BeginShed
  <2>1. TypeOK'
    <3>1. sheds' \in Nat /\ todo' \subseteq Sessions
      OBVIOUS
    <3>2. QED
      BY <3>1
  <2>2. FreezeInv'
    OBVIOUS
  <2>3. WireInv' /\ ChildInv'
    OBVIOUS
  <2>4. QED
    BY <2>1, <2>2, <2>3
<1>2. ASSUME NEW s \in Sessions, AskNext(s) PROVE IInv'
  BY <1>2 DEF AskNext
<1>3. CASE SendRequest
  BY <1>3 DEF SendRequest
<1>4. CASE TakeReply
  BY <1>4 DEF TakeReply
<1>5. CASE FreezeTimeout
  BY <1>5 DEF FreezeTimeout
<1>6. CASE DropRequest
  BY <1>6 DEF DropRequest
<1>7. CASE FreezeDone
  BY <1>7 DEF FreezeDone
<1>8. QED
  BY <1>1, <1>2, <1>3, <1>4, <1>5, <1>6, <1>7 DEF Freezing

\* The parent's side of the handoff keeps the invariant: a session is counted
\* as sent only when the child holds it, and the failure path resumes exactly
\* the others.
LEMMA HandoffInv ==
  ASSUME IInv, Handoff
  PROVE  IInv'
<1> USE ShedAssumption DEF IInv, TypeOK, FreezeInv, WireInv, ChildInv,
        parentVars, coordVars, childVars
<1>1. CASE UpgradeFails
  BY <1>1 DEF UpgradeFails, Put
<1>2. CASE UpgradeOk
  BY <1>2 DEF UpgradeOk
<1>3. ASSUME NEW s \in Sessions, SendSession(s) PROVE IInv'
  BY <1>3 DEF SendSession
<1>4. CASE RecvAck
  BY <1>4 DEF RecvAck
<1>5. CASE SendEnd
  BY <1>5 DEF SendEnd
<1>6. CASE HandoffFails
  BY <1>6 DEF HandoffFails
<1>7. CASE ParentExit
  BY <1>7 DEF ParentExit, Put
<1>8. QED
  BY <1>1, <1>2, <1>3, <1>4, <1>5, <1>6, <1>7 DEF Handoff

\* The child keeps the invariant: it serves nothing before the end marker.
LEMMA ChildInvLemma ==
  ASSUME IInv, Child
  PROVE  IInv'
<1> USE ShedAssumption DEF IInv, TypeOK, FreezeInv, WireInv, ChildInv,
        parentVars, coordVars, childVars
<1>1. CASE ChildRecv
  BY <1>1 DEF ChildRecv
<1>2. CASE ChildFails
  BY <1>2 DEF ChildFails
<1>3. CASE ChildEnd
  BY <1>3 DEF ChildEnd
<1>4. ASSUME NEW s \in Sessions, ChildAdopt(s) PROVE IInv'
  BY <1>4 DEF ChildAdopt
<1>5. QED
  BY <1>1, <1>2, <1>3, <1>4 DEF Child

\* Every step keeps the invariant.
LEMMA NextInv == IInv /\ [Next]_vars => IInv'
<1> SUFFICES ASSUME IInv, [Next]_vars PROVE IInv'
  OBVIOUS
<1>1. CASE UNCHANGED vars
  BY <1>1 DEF IInv, TypeOK, FreezeInv, WireInv, ChildInv,
     vars, parentVars, coordVars, childVars
<1>2. CASE Next
  BY <1>2, TasksInv, FreezingInv, HandoffInv, ChildInvLemma DEF Next
<1>3. QED
  BY <1>1, <1>2

\* The inductive invariant holds throughout every behaviour of the shed.
THEOREM ShedInvariant == Spec => []IInv
  BY InitInv, NextInv, PTL DEF Spec

\* Every variable of the shed keeps its type.
THEOREM ShedTypeOK == Spec => []TypeOK
<1>1. IInv => TypeOK
  BY DEF IInv
<1>2. QED
  BY <1>1, ShedInvariant, PTL

\* No client socket is ever served by the old and the new process at once
\* (server.rs, migrate arm; migrate.rs, recv_sessions).
THEOREM OneServer == Spec => []AtMostOneServer
<1>1. IInv => AtMostOneServer
  BY DEF IInv, TypeOK, FreezeInv, WireInv, ChildInv, AtMostOneServer
<1>2. QED
  BY <1>1, ShedInvariant, PTL

\* When the child starts adopting, it has every session of the batch.
THEOREM CompleteHandoff == Spec => []HandoffComplete
<1>1. IInv => HandoffComplete
  BY DEF IInv, TypeOK, WireInv, ChildInv, HandoffComplete
<1>2. QED
  BY <1>1, ShedInvariant, PTL

\* After a failed upgrade or a failed handoff no session is left frozen.
THEOREM CompleteRollback == Spec => []RollbackComplete
<1>1. IInv => RollbackComplete
  BY DEF IInv, TypeOK, FreezeInv, RollbackComplete
<1>2. QED
  BY <1>1, ShedInvariant, PTL

\* A session the child has acknowledged is never served by the parent again.
THEOREM SentStaysSent == Spec => SentNeverResumed
<1>1. IInv /\ IInv' /\ [Next]_vars => [\A s \in sent : pst'[s] # "serving"]_vars
  <2> SUFFICES ASSUME IInv, IInv', Next, NEW s \in sent
               PROVE  pst'[s] # "serving"
    OBVIOUS
  <2>1. sent \subseteq sent'
    BY DEF Next, BeginShed, Freezing, Handoff, Child, Tasks, AskNext, SendRequest,
       TakeReply, FreezeTimeout, DropRequest, FreezeDone, UpgradeFails, UpgradeOk,
       SendSession, RecvAck, SendEnd, HandoffFails, ParentExit, ChildRecv,
       ChildFails, ChildEnd, ChildAdopt, ChildSessionEnds, Accept, register,
       unregister, Wedge, handle_freeze, coordVars
  <2>2. \A x \in sent' : pst'[x] \in {"frozen", "gone"}
    BY DEF IInv, ChildInv
  <2>3. QED
    BY <2>1, <2>2
<1>2. QED
  BY <1>1, ShedInvariant, NextInv, PTL DEF Spec, SentNeverResumed

\* A frozen session ends in the parent only if the child acknowledged it or its
\* reply raced the freeze timeout (registry.rs, freeze_all; server.rs).
THEOREM FrozenStaysKept == Spec => FrozenKept
<1>1. IInv /\ [Next]_vars =>
        [\A s \in Sessions : pst[s] = "frozen" /\ pst'[s] = "gone" =>
           s \in sent \/ (s = cur /\ ask = "gaveup")]_vars
  <2> SUFFICES ASSUME IInv, Next, NEW s \in Sessions,
                      pst[s] = "frozen", pst'[s] = "gone"
               PROVE  s \in sent \/ (s = cur /\ ask = "gaveup")
    OBVIOUS
  <2> USE DEF IInv, TypeOK
  <2>1. CASE BeginShed
    BY <2>1 DEF BeginShed
  <2>2. CASE Freezing
    BY <2>2 DEF Freezing, AskNext, SendRequest, TakeReply, FreezeTimeout,
       DropRequest, FreezeDone, parentVars
  <2>3. CASE Handoff
    BY <2>3 DEF Handoff, UpgradeFails, UpgradeOk, SendSession, RecvAck, SendEnd,
       HandoffFails, ParentExit, parentVars, Put, FreezeInv, WireInv
  <2>4. CASE Child
    BY <2>4 DEF Child, ChildRecv, ChildFails, ChildEnd, ChildAdopt, parentVars
  <2>5. ASSUME NEW t \in Sessions, Tasks(t)
        PROVE  s \in sent \/ (s = cur /\ ask = "gaveup")
    BY <2>5 DEF Tasks, Accept, register, unregister, Wedge, handle_freeze,
       ChildSessionEnds, parentVars
  <2>6. QED
    BY <2>1, <2>2, <2>3, <2>4, <2>5 DEF Next
<1>2. QED
  BY <1>1, ShedInvariant, PTL DEF Spec, FrozenKept
----------------------------------------------------------------------------
(* The shed implements Ownership.                                          *)

\* A connection has one owner: with the invariant, the case "both" of OwnerOf
\* does not occur.
LEMMA OwnerType ==
  ASSUME IInv, NEW s \in Sessions
  PROVE  OwnerOf(s) \in Transfer!Owners
  BY DEF IInv, TypeOK, FreezeInv, WireInv, ChildInv, OwnerOf, Transfer!Owners

\* One step of the shed moves one connection along an arrow of Ownership, or
\* leaves it where it is.
LEMMA OwnerMoves ==
  ASSUME IInv, IInv', Next, NEW s \in Sessions
  PROVE  OwnerOf(s)' = OwnerOf(s) \/ Transfer!MayMove(OwnerOf(s), OwnerOf(s)')
<1> USE ShedAssumption DEF IInv, TypeOK, FreezeInv, WireInv, ChildInv, Alive,
        parentVars, coordVars, childVars, OwnerOf, Transfer!MayMove
<1>1. CASE BeginShed
  BY <1>1 DEF BeginShed
<1>2. CASE Freezing
  <2>1. ASSUME NEW x \in Sessions, AskNext(x)
        PROVE  OwnerOf(s)' = OwnerOf(s)
    BY <2>1 DEF AskNext
  <2>2. CASE SendRequest
    BY <2>2 DEF SendRequest
  <2>3. CASE TakeReply
    BY <2>3 DEF TakeReply
  <2>4. CASE FreezeTimeout
    BY <2>4 DEF FreezeTimeout
  <2>5. CASE DropRequest
    BY <2>5 DEF DropRequest
  <2>6. CASE FreezeDone
    BY <2>6 DEF FreezeDone
  <2>7. QED
    BY <1>2, <2>1, <2>2, <2>3, <2>4, <2>5, <2>6 DEF Freezing
<1>3. CASE Handoff
  <2>1. CASE UpgradeFails
    BY <2>1 DEF UpgradeFails, Put
  <2>2. CASE UpgradeOk
    BY <2>2 DEF UpgradeOk
  <2>3. ASSUME NEW x \in Sessions, SendSession(x)
        PROVE  OwnerOf(s)' = OwnerOf(s)
    BY <2>3 DEF SendSession
  <2>4. CASE RecvAck
    BY <2>4 DEF RecvAck
  <2>5. CASE SendEnd
    BY <2>5 DEF SendEnd
  <2>6. CASE HandoffFails
    <3> USE <2>6 DEF HandoffFails
    <3>1. cst' = cst /\ sent' = sent /\ cst[s] \notin {"serving", "gone"}
      OBVIOUS
    <3>2. CASE s \in sent
      <4>1. pst'[s] = "gone" /\ pst[s] = "frozen"
        BY <3>2
      <4>2. QED
        BY <3>1, <4>1
    <3>3. CASE s \in frozen \ sent
      <4>1. pst'[s] = "serving" /\ pst[s] = "frozen"
        BY <3>3
      <4>2. QED
        BY <3>1, <4>1
    <3>4. CASE s \notin frozen
      <4>1. pst'[s] = pst[s]
        BY <3>4
      <4>2. QED
        BY <3>1, <4>1
    <3>5. QED
      BY <3>2, <3>3, <3>4
  <2>7. CASE ParentExit
    BY <2>7 DEF ParentExit, Put
  <2>8. QED
    BY <1>3, <2>1, <2>2, <2>3, <2>4, <2>5, <2>6, <2>7 DEF Handoff
<1>4. CASE Child
  <2>1. CASE ChildRecv
    BY <2>1 DEF ChildRecv
  <2>2. CASE ChildFails
    BY <2>2 DEF ChildFails
  <2>3. CASE ChildEnd
    BY <2>3 DEF ChildEnd
  <2>4. ASSUME NEW x \in Sessions, ChildAdopt(x)
        PROVE  OwnerOf(s)' = OwnerOf(s) \/ Transfer!MayMove(OwnerOf(s), OwnerOf(s)')
    BY <2>4 DEF ChildAdopt
  <2>5. QED
    BY <1>4, <2>1, <2>2, <2>3, <2>4 DEF Child
<1>5. ASSUME NEW x \in Sessions, Tasks(x)
      PROVE  OwnerOf(s)' = OwnerOf(s) \/ Transfer!MayMove(OwnerOf(s), OwnerOf(s)')
  <2>1. CASE Accept(x)
    BY <2>1 DEF Accept
  <2>2. CASE register(x)
    BY <2>2 DEF register
  <2>3. CASE unregister(x)
    BY <2>3 DEF unregister
  <2>4. CASE Wedge(x)
    BY <2>4 DEF Wedge
  <2>5. CASE handle_freeze(x)
    BY <2>5 DEF handle_freeze
  <2>6. CASE ChildSessionEnds(x)
    BY <2>6 DEF ChildSessionEnds
  <2>7. QED
    BY <1>5, <2>1, <2>2, <2>3, <2>4, <2>5, <2>6 DEF Tasks
<1>6. QED
  BY <1>1, <1>2, <1>3, <1>4, <1>5 DEF Next

\* The migrate shed (server.rs, registry.rs, migrate.rs) implements the
\* transfer of ownership: for any set of sessions and any failure, a client
\* connection has one owner at a time and never comes back from the child.
THEOREM ShedTransfers == Spec => TransfersOwnership
<1>1. Init => Transfer!Init
  BY DEF Init, Transfer!Init, ownerMap, OwnerOf
<1>2. IInv /\ IInv' /\ [Next]_vars => [Transfer!Next]_ownerMap
  <2> SUFFICES ASSUME IInv, IInv', [Next]_vars
               PROVE  [Transfer!Next]_ownerMap
    OBVIOUS
  <2>1. CASE UNCHANGED vars
    BY <2>1 DEF vars, parentVars, coordVars, childVars, ownerMap, OwnerOf
  <2>2. CASE Next
    <3>1. ownerMap' \in [Sessions -> Transfer!Owners]
      <4>1. \A s \in Sessions : OwnerOf(s)' \in Transfer!Owners
        BY OwnerType DEF IInv, TypeOK, FreezeInv, WireInv, ChildInv, OwnerOf, Transfer!Owners
      <4>2. QED
        BY <4>1 DEF ownerMap
    <3>2. \A s \in Sessions :
            OwnerOf(s)' = OwnerOf(s) \/ Transfer!MayMove(OwnerOf(s), OwnerOf(s)')
      BY <2>2, OwnerMoves
    <3>3. QED
      BY <3>1, <3>2 DEF Transfer!Next, ownerMap
  <2>3. QED
    BY <2>1, <2>2
<1>3. QED
  BY <1>1, <1>2, ShedInvariant, PTL DEF Spec, TransfersOwnership, Transfer!Spec
=============================================================================
