-------------------------------- MODULE Shed --------------------------------
(***************************************************************************)
(* The migrate shed: the coordinator of server.rs freezes every registered *)
(* session (registry.rs, freeze_all), spawns the next generation, and      *)
(* hands the frozen sessions over one acknowledged datagram at a time      *)
(* (migrate.rs).  A session is one of Sessions; what its snapshot contains *)
(* is the business of the Session module, where the two ways out of        *)
(* "frozen" are ResumeSession and adopt_session.                           *)
(*                                                                         *)
(* A definition named after another with a suffix (SendEnd_early)          *)
(* is a faulty variant of it.  No specification uses it; the mutation runs *)
(* put it in the place of the right one to show that a property can fail.  *)
(***************************************************************************)
EXTENDS Naturals, FiniteSets

CONSTANTS
  Sessions,   \* the client connections of the run
  Big,        \* sessions whose snapshot does not fit a datagram
  NoSession,  \* not a session
  END,        \* the end marker
  MaxSheds    \* bound: SIGUSR2 signals served

ASSUME ShedAssumption ==
  /\ Big \subseteq Sessions
  /\ NoSession \notin Sessions /\ END \notin Sessions /\ NoSession # END
  /\ MaxSheds \in Nat

VARIABLES
  pst,      \* a session in the parent: new, handshake, serving, frozen, gone
  wedged,   \* sessions whose task sits in establish_broker
  req,      \* freeze request: none, queued, replied, stale (asker gave up)
  acceptor, \* the parent accepts connections
  pc,       \* where the shed is: running, freezing, upgrading, sending,
            \* awaitack, handedover, draining, exited
  ask,      \* where freeze_all is: idle, sending, waiting, gaveup
  cur,      \* the session being asked, or being sent
  todo,     \* sessions freeze_all has yet to ask
  frozen,   \* the batch
  sent,     \* the part of the batch the child acknowledged
  wire,     \* datagram on its way to the child
  ack,      \* acknowledgement on its way to the parent
  cpc,      \* the child: none, receiving, adopting, failed
  cst,      \* a session in the child: none, held, serving, leaked, gone
  sheds

parentVars == <<pst, wedged, req, acceptor>>
coordVars  == <<pc, ask, cur, todo, frozen, sent, sheds>>
childVars  == <<cpc, cst>>
vars == <<parentVars, coordVars, wire, ack, childVars>>

\* f with every element of S mapped to v.
Put(f, S, v) == [s \in Sessions |-> IF s \in S THEN v ELSE f[s]]

----------------------------------------------------------------------------
(* The sessions of the parent, each a task of its own.                     *)

Alive == pc # "exited"

Accept(s) ==
  /\ Alive /\ acceptor /\ pst[s] = "new"
  /\ pst' = [pst EXCEPT ![s] = "handshake"]
  /\ UNCHANGED <<wedged, req, acceptor, coordVars, wire, ack, childVars>>

\* The handshake is over; only now can the session be found by freeze_all.
register(s) ==
  /\ Alive /\ pst[s] = "handshake"
  /\ pst' = [pst EXCEPT ![s] = "serving"]
  /\ UNCHANGED <<wedged, req, acceptor, coordVars, wire, ack, childVars>>

\* The session ends, unregisters, and drops a request it has not looked at.
unregister(s) ==
  /\ Alive /\ pst[s] \in {"handshake", "serving"} /\ s \notin wedged
  /\ pst' = [pst EXCEPT ![s] = "gone"]
  /\ req' = [req EXCEPT ![s] = "none"]
  /\ UNCHANGED <<wedged, acceptor, coordVars, wire, ack, childVars>>

\* establish_broker starts and, if the broker ever answers, returns.  The
\* control channel is not looked at in between.
Wedge(s) ==
  /\ Alive /\ pst[s] = "serving"
  /\ wedged' = IF s \in wedged THEN wedged \ {s} ELSE wedged \cup {s}
  /\ UNCHANGED <<pst, req, acceptor, coordVars, wire, ack, childVars>>

\* The loop takes the freeze request: reply with the snapshot and wait, or go
\* on if nobody listens for the reply any more.
handle_freeze(s) ==
  /\ Alive /\ pst[s] = "serving" /\ s \notin wedged
  /\ \/ /\ req[s] = "queued"
        /\ pst' = [pst EXCEPT ![s] = "frozen"]
        /\ req' = [req EXCEPT ![s] = "replied"]
     \/ /\ req[s] = "stale"
        /\ req' = [req EXCEPT ![s] = "none"]
        /\ UNCHANGED pst
  /\ UNCHANGED <<wedged, acceptor, coordVars, wire, ack, childVars>>

----------------------------------------------------------------------------
(* The coordinator: SIGUSR2 in migrate mode, and freeze_all.               *)

BeginShed ==
  /\ pc = "running" /\ sheds < MaxSheds
  /\ sheds' = sheds + 1
  /\ acceptor' = FALSE
  /\ pc' = "freezing" /\ ask' = "idle"
  /\ todo' = {s \in Sessions : pst[s] = "serving"}
  /\ UNCHANGED <<pst, wedged, req, cur, frozen, sent, wire, ack, childVars>>

AskNext(s) ==
  /\ pc = "freezing" /\ ask = "idle" /\ s \in todo
  /\ cur' = s /\ todo' = todo \ {s}
  /\ ask' = "sending"
  /\ UNCHANGED <<parentVars, pc, frozen, sent, sheds, wire, ack, childVars>>

\* tx.send(..).await on a channel of capacity one: it fails if the session is
\* gone, and waits as long as an earlier request is still queued.
SendRequest ==
  /\ pc = "freezing" /\ ask = "sending"
  /\ \/ /\ pst[cur] = "gone"
        /\ ask' = "idle"
        /\ UNCHANGED req
     \/ /\ pst[cur] = "serving" /\ req[cur] = "none"
        /\ req' = [req EXCEPT ![cur] = "queued"]
        /\ ask' = "waiting"
  /\ UNCHANGED <<pst, wedged, acceptor, pc, cur, todo, frozen, sent, sheds,
                 wire, ack, childVars>>

\* The reply arrived, or the session died with the request.
TakeReply ==
  /\ pc = "freezing" /\ ask = "waiting"
  /\ \/ /\ req[cur] = "replied"
        /\ frozen' = frozen \cup {cur}
        /\ req' = [req EXCEPT ![cur] = "none"]
     \/ /\ req[cur] = "none"
        /\ UNCHANGED <<frozen, req>>
  /\ ask' = "idle"
  /\ UNCHANGED <<pst, wedged, acceptor, pc, cur, todo, sent, sheds, wire, ack, childVars>>

FreezeTimeout_never == FALSE /\ UNCHANGED vars

\* FREEZE_REPLY_TIMEOUT: the last poll found no reply ...
FreezeTimeout ==
  /\ pc = "freezing" /\ ask = "waiting" /\ req[cur] = "queued"
  /\ ask' = "gaveup"
  /\ UNCHANGED <<parentVars, pc, cur, todo, frozen, sent, sheds, wire, ack, childVars>>

\* ... and then both channel ends are dropped.  A session that replied in
\* between takes the closed resume channel for a finished handoff and exits.
DropRequest ==
  /\ pc = "freezing" /\ ask = "gaveup"
  /\ IF req[cur] = "replied"
     THEN /\ pst' = [pst EXCEPT ![cur] = "gone"]
          /\ req' = [req EXCEPT ![cur] = "none"]
     ELSE /\ req' = [req EXCEPT ![cur] = IF @ = "queued" THEN "stale" ELSE @]
          /\ UNCHANGED pst
  /\ ask' = "idle"
  /\ UNCHANGED <<wedged, acceptor, pc, cur, todo, frozen, sent, sheds, wire, ack, childVars>>

FreezeDone ==
  /\ pc = "freezing" /\ ask = "idle" /\ todo = {}
  /\ pc' = "upgrading"
  /\ UNCHANGED <<parentVars, ask, cur, todo, frozen, sent, sheds, wire, ack, childVars>>

UpgradeFails_skips_one ==
  /\ pc = "upgrading"
  /\ pst' = Put(pst, frozen \ {cur}, "serving")
  /\ frozen' = {}
  /\ acceptor' = TRUE
  /\ pc' = "running"
  /\ UNCHANGED <<wedged, req, ask, cur, todo, sent, sheds, wire, ack, childVars>>

\* resume_all, and a new acceptor.
UpgradeFails ==
  /\ pc = "upgrading"
  /\ pst' = Put(pst, frozen, "serving")
  /\ frozen' = {}
  /\ acceptor' = TRUE
  /\ pc' = "running"
  /\ UNCHANGED <<wedged, req, ask, cur, todo, sent, sheds, wire, ack, childVars>>

UpgradeOk ==
  /\ pc = "upgrading"
  /\ pc' = "sending"
  /\ cpc' = "receiving"
  /\ UNCHANGED <<parentVars, ask, cur, todo, frozen, sent, sheds, wire, ack, cst>>

----------------------------------------------------------------------------
(* The handoff: send_sessions in the parent, recv_sessions in the child.   *)

SendSession_no_wait(s) ==
  /\ pc = "sending" /\ s \in frozen \ sent
  /\ wire' = s
  /\ cur' = s
  /\ sent' = sent \cup {s}
  /\ UNCHANGED <<parentVars, pc, ask, todo, frozen, sheds, ack, childVars>>

SendSession(s) ==
  /\ pc = "sending" /\ s \in frozen \ sent
  /\ wire' = s
  /\ cur' = s
  /\ pc' = "awaitack"
  /\ UNCHANGED <<parentVars, ask, todo, frozen, sent, sheds, ack, childVars>>

RecvAck ==
  /\ pc = "awaitack" /\ ack
  /\ ack' = FALSE
  /\ sent' = sent \cup {cur}
  /\ pc' = "sending"
  /\ UNCHANGED <<parentVars, ask, cur, todo, frozen, sheds, wire, childVars>>

SendEnd_early ==
  /\ pc \in {"sending", "awaitack"} /\ frozen \ sent \subseteq {cur}
  /\ wire' = END
  /\ pc' = "handedover"
  /\ UNCHANGED <<parentVars, ask, cur, todo, frozen, sent, sheds, ack, childVars>>

\* Every session acknowledged: the end marker goes out and the parent is done.
SendEnd ==
  /\ pc = "sending" /\ sent = frozen
  /\ wire' = END
  /\ pc' = "handedover"
  /\ UNCHANGED <<parentVars, ask, cur, todo, frozen, sent, sheds, ack, childVars>>

HandoffFails_resumes_all ==
  /\ \/ pc = "sending" /\ (cpc = "failed" \/ (frozen \ sent) \cap Big # {})
     \/ pc = "awaitack" /\ ~ ack
  /\ pst' = Put(pst, frozen, "serving")
  /\ pc' = "draining"
  /\ UNCHANGED <<wedged, req, acceptor, ask, cur, todo, frozen, sent, sheds,
                 wire, ack, childVars>>

HandoffFails_finishes ==
  /\ \/ pc = "sending" /\ (cpc = "failed" \/ (frozen \ sent) \cap Big # {})
     \/ pc = "awaitack" /\ ~ ack
  /\ pst' = Put(pst, frozen, "gone")
  /\ pc' = "draining"
  /\ UNCHANGED <<wedged, req, acceptor, ask, cur, todo, frozen, sent, sheds,
                 wire, ack, childVars>>

\* A datagram is too large, the child's end is closed, or no acknowledgement
\* comes in time: resume_skipping(sent) resumes the rest of the batch, and the
\* ones already sent see their resume channel closed.
HandoffFails ==
  /\ \/ pc = "sending" /\ (cpc = "failed" \/ (frozen \ sent) \cap Big # {})
     \/ pc = "awaitack" /\ ~ ack
  /\ pst' = [s \in Sessions |-> IF s \in sent THEN "gone"
                                ELSE IF s \in frozen THEN "serving" ELSE pst[s]]
  /\ pc' = "draining"
  /\ UNCHANGED <<wedged, req, acceptor, ask, cur, todo, frozen, sent, sheds,
                 wire, ack, childVars>>

\* After a handoff the process returns at once; draining, it waits for the
\* last session or the drain timeout.  Its tasks die with it either way.
ParentExit ==
  /\ pc \in {"handedover", "draining"}
  /\ pc' = "exited"
  /\ acceptor' = FALSE
  /\ pst' = Put(pst, Sessions, "gone")
  /\ req' = Put(req, Sessions, "none")
  /\ wedged' = {}
  /\ UNCHANGED <<ask, cur, todo, frozen, sent, sheds, wire, ack, childVars>>

ChildRecv ==
  /\ cpc = "receiving" /\ wire \in Sessions \ Big
  /\ cst' = [cst EXCEPT ![wire] = "held"]
  /\ wire' = NoSession
  /\ ack' = TRUE
  /\ UNCHANGED <<parentVars, coordVars, cpc>>

ChildFails_adopts ==
  /\ cpc = "receiving" /\ (wire = NoSession \/ wire \in Big)
  /\ cpc' = "adopting"
  /\ wire' = NoSession
  /\ UNCHANGED <<parentVars, coordVars, ack, cst>>

\* recv_sessions fails, on its timeout or on a datagram cut short: what was
\* received is discarded, the descriptors stay open with nobody behind them.
ChildFails ==
  /\ cpc = "receiving" /\ (wire = NoSession \/ wire \in Big)
  /\ cpc' = "failed"
  /\ cst' = [s \in Sessions |-> IF cst[s] = "held" THEN "leaked" ELSE cst[s]]
  /\ wire' = NoSession
  /\ UNCHANGED <<parentVars, coordVars, ack>>

ChildEnd ==
  /\ cpc = "receiving" /\ wire = END
  /\ cpc' = "adopting"
  /\ wire' = NoSession
  /\ UNCHANGED <<parentVars, coordVars, ack, cst>>

\* adopt_session for one received session, and its end.
ChildAdopt(s) ==
  /\ cpc = "adopting" /\ cst[s] = "held"
  /\ cst' = [cst EXCEPT ![s] = "serving"]
  /\ UNCHANGED <<parentVars, coordVars, wire, ack, cpc>>

ChildSessionEnds(s) ==
  /\ cst[s] = "serving"
  /\ cst' = [cst EXCEPT ![s] = "gone"]
  /\ UNCHANGED <<parentVars, coordVars, wire, ack, cpc>>

----------------------------------------------------------------------------
Init ==
  /\ pst = [s \in Sessions |-> "new"] /\ cst = [s \in Sessions |-> "none"]
  /\ wedged = {} /\ req = [s \in Sessions |-> "none"] /\ acceptor = TRUE
  /\ pc = "running" /\ ask = "idle" /\ cur = NoSession
  /\ todo = {} /\ frozen = {} /\ sent = {} /\ sheds = 0
  /\ wire = NoSession /\ ack = FALSE /\ cpc = "none"

Freezing ==
  \/ \E s \in Sessions : AskNext(s)
  \/ SendRequest \/ TakeReply \/ FreezeTimeout \/ DropRequest \/ FreezeDone

Handoff ==
  \/ UpgradeFails \/ UpgradeOk
  \/ \E s \in Sessions : SendSession(s)
  \/ RecvAck \/ SendEnd \/ HandoffFails \/ ParentExit

Child ==
  \/ ChildRecv \/ ChildFails \/ ChildEnd
  \/ \E s \in Sessions : ChildAdopt(s)

Tasks(s) ==
  \/ Accept(s) \/ register(s) \/ unregister(s) \/ Wedge(s) \/ handle_freeze(s)
  \/ ChildSessionEnds(s)

Next ==
  \/ BeginShed \/ Freezing \/ Handoff \/ Child
  \/ \E s \in Sessions : Tasks(s)

\* The coordinator, its timers and the child's receiver always run, and a
\* session whose loop comes round again and again looks at its control channel;
\* nothing makes a broker answer, so Wedge owes nothing.
Fairness ==
  /\ WF_vars(Freezing) /\ WF_vars(Handoff) /\ WF_vars(Child)
  /\ \A s \in Sessions : SF_vars(handle_freeze(s))

Spec == Init /\ [][Next]_vars /\ Fairness

----------------------------------------------------------------------------
(* Properties.                                                             *)

\* The values of every variable: the stages of a session in either process, of a
\* freeze request and of the shed; the acknowledged sessions are of the batch.
TypeOK ==
  /\ pst \in [Sessions -> {"new", "handshake", "serving", "frozen", "gone"}]
  /\ cst \in [Sessions -> {"none", "held", "serving", "leaked", "gone"}]
  /\ wedged \subseteq Sessions
  /\ req \in [Sessions -> {"none", "queued", "replied", "stale"}]
  /\ acceptor \in BOOLEAN /\ ack \in BOOLEAN
  /\ pc \in {"running", "freezing", "upgrading", "sending", "awaitack",
             "handedover", "draining", "exited"}
  /\ ask \in {"idle", "sending", "waiting", "gaveup"}
  /\ cur \in Sessions \cup {NoSession}
  /\ todo \subseteq Sessions /\ frozen \subseteq Sessions /\ sent \subseteq frozen
  /\ wire \in Sessions \cup {NoSession, END}
  /\ cpc \in {"none", "receiving", "adopting", "failed"}
  /\ sheds \in Nat

\* Who may be frozen, and what freeze_all knows of it: outside the batch only
\* the session whose reply is still in its channel.
FreezeInv ==
  /\ \A s \in Sessions :
       /\ req[s] \in {"queued", "replied"} =>
            pc = "freezing" /\ cur = s /\ ask \in {"waiting", "gaveup"}
       /\ req[s] = "replied" => pst[s] = "frozen" /\ s \notin frozen
       /\ pst[s] = "frozen" => s \in frozen \/ req[s] = "replied"
       /\ s \in frozen /\ pc \notin {"draining", "exited"} => pst[s] = "frozen"
       /\ pc = "exited" => pst[s] = "gone"
  /\ pc = "running" => frozen = {}
  /\ pc = "freezing" /\ ask # "idle" => cur \in Sessions
  /\ pc = "draining" => \A s \in Sessions : pst[s] # "frozen"

\* The datagrams: one at a time, the next only after the acknowledgement.
WireInv ==
  /\ pc \in {"running", "freezing", "upgrading"} =>
       cpc = "none" /\ sent = {} /\ wire = NoSession /\ ~ ack
  /\ pc = "sending" => wire = NoSession /\ ~ ack
  /\ pc = "awaitack" =>
       /\ cur \in frozen \ sent /\ wire \in {cur, NoSession}
       /\ ack => wire = NoSession /\ cst[cur] # "none"
  /\ wire \in Sessions =>
       wire \in frozen /\ pc \in {"awaitack", "draining", "exited"}
  /\ pc = "handedover" => sent = frozen
  /\ wire = END \/ cpc = "adopting" => pc \in {"handedover", "exited"} /\ sent = frozen

\* What the child has, it was sent; what it acknowledged, it has.
ChildInv ==
  /\ \A s \in Sessions :
       /\ cst[s] # "none" => s \in frozen /\ cpc # "none"
       /\ cst[s] \in {"serving", "gone"} => cpc = "adopting"
       /\ cst[s] = "leaked" => cpc = "failed"
  /\ \A s \in sent : cst[s] # "none" /\ pst[s] \in {"frozen", "gone"}

\* The inductive invariant behind the safety properties below: a session is
\* frozen exactly while the batch (or the reply on its way) accounts for it,
\* the end marker means the whole batch was acknowledged, and the child holds
\* only what it was sent.
IInv == TypeOK /\ FreezeInv /\ WireInv /\ ChildInv

\* A client socket is never read by two processes: the child takes over only
\* after the end marker, which the parent sends only when it will resume none
\* of the batch.
AtMostOneServer == \A s \in Sessions : ~ (pst[s] = "serving" /\ cst[s] = "serving")

\* A handoff that ends with the end marker has left no session behind: every
\* frozen session is with the child.
HandoffComplete ==
  cpc = "adopting" => \A s \in frozen : cst[s] \in {"held", "serving", "gone"}

\* Neither a failed upgrade nor a failed handoff leaves a session frozen, waiting
\* for a resume nobody will send.
RollbackComplete ==
  pc \in {"running", "draining"} => \A s \in Sessions : pst[s] # "frozen"

\* "Sessions already sent are owned by the child" (server.rs): the parent never
\* serves one again.
SentNeverResumed == [][\A s \in sent : pst'[s] # "serving"]_vars

\* A frozen session ends in the parent only because the child has acknowledged
\* it, or because its reply met freeze_all giving up on it: no other failure of
\* the shed closes a resume channel that should have been used.
FrozenKept ==
  [][\A s \in Sessions :
       pst[s] = "frozen" /\ pst'[s] = "gone" => s \in sent \/ (s = cur /\ ask = "gaveup")]_vars

\* A session freeze_all has stopped is started again, handed over or ended: it
\* does not stay frozen for ever.
FrozenReleased == \A s \in Sessions : (pst[s] = "frozen") ~> (pst[s] # "frozen")

\* A handoff that fails half way degrades to draining the rest and loses no
\* session: one the child acknowledged is not discarded by the child.
NoOrphans == pc = "draining" => \A s \in sent : cst[s] # "leaked"

----------------------------------------------------------------------------
(* The shed as a transfer of ownership.                                    *)

\* Who has the connection of s: the process whose task reads its socket;
\* nobody, "transit", while it is frozen or waits in a child that has
\* acknowledged it.
OwnerOf(s) ==
  CASE pst[s] = "serving" /\ cst[s] = "serving"   -> "both"
    [] cst[s] = "serving" /\ pst[s] # "serving"   -> "child"
    [] pst[s] \in {"handshake", "serving"} /\ cst[s] # "serving" -> "parent"
    [] pst[s] = "frozen" /\ cst[s] \notin {"serving", "gone"} -> "transit"
    [] pst[s] = "gone" /\ cst[s] = "held" /\ s \in sent -> "transit"
    [] pst[s] = "new" /\ cst[s] # "serving" -> "new"
    [] OTHER -> "gone"

ownerMap == [s \in Sessions |-> OwnerOf(s)]

Transfer == INSTANCE Ownership WITH owner <- ownerMap

\* Whatever fails in freeze_all, the upgrade, send_sessions or recv_sessions, a
\* client connection only ever moves as Ownership allows: one owner at a time,
\* to the child only through a freeze, and never back from the child.
TransfersOwnership == Transfer!Spec
=============================================================================
