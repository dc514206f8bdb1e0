---------------------------- MODULE Generations ----------------------------
(***************************************************************************)
(* The processes of traffic-director (server.rs): the signals each one     *)
(* answers, the acceptor, the shed that starts the next generation, and    *)
(* the drain at the end with the DrainTracker that counts sessions.        *)
(*                                                                         *)
(* A session is a connection that is alive or not; its protocol is in      *)
(* Session.  A migrate shed is one step that moves some of the sessions;   *)
(* how that goes is in Shed.  SIGINT is handled as SIGTERM and is not told *)
(* apart.                                                                  *)
(*                                                                         *)
(* A definition named after another with a suffix (track_drops_guard)      *)
(* is a faulty variant of it.  No specification uses it; the mutation runs *)
(* put it in the place of the right one to show that a property can fail.  *)
(***************************************************************************)
EXTENDS Naturals, FiniteSets

CONSTANTS
  MaxGens,  \* bound: processes ever started
  Conns,    \* the client connections of the run
  Modes     \* --mode: drain, migrate

ASSUME GenerationsAssumption ==
  /\ MaxGens \in Nat \ {0}
  /\ IsFiniteSet(Conns)
  /\ Modes \subseteq {"drain", "migrate"}

Gens == 1..MaxGens

VARIABLES
  mode,
  pc,        \* none, forked, boot, ready, spawned, serving, upgrading, check, arm,
             \* waiting, exited
  sig,       \* signals received and not yet taken by select!
  early,     \* sessions served when the freeze or the drain began, at the end
             \* those that were cut off
  how,       \* how it ended
  acceptor,  \* on, off, or last (aborted in the middle of a poll)
  parent, child,  \* 0 is none
  readied,   \* ecdysis.ready() was called
  tracked,   \* whose SessionGuard is counted
  calling,   \* guards that took the count to zero and are about to notify
  st,        \* of a connection: new (in the backlog), held (accepted, not yet
             \* tracked), live, gone, killed
  at,        \* its process, 0 is none
  adopted    \* by migration

mainVars  == <<pc, sig, early, how>>
treeVars  == <<parent, child, readied>>
guardVars == <<tracked, calling>>
procVars  == <<mainVars, acceptor, treeVars, guardVars>>
connVars  == <<st, at, adopted>>
genVars   == <<mode, procVars, connVars>>

Running(g) == pc[g] \notin {"none", "exited"}

At(g, state) == {c \in Conns : at[c] = g /\ st[c] = state}

\* g exits and cuts off the sessions in cut that it still serves; its tasks go
\* with it.
Exit(g, why, cut) ==
  /\ pc' = [pc EXCEPT ![g] = "exited"]
  /\ how' = [how EXCEPT ![g] = why]
  /\ early' = [early EXCEPT ![g] = cut \cap At(g, "live")]
  /\ acceptor' = [acceptor EXCEPT ![g] = "off"]
  /\ sig' = [sig EXCEPT ![g] = {}]
  /\ tracked' = [tracked EXCEPT ![g] = {}]
  /\ calling' = [calling EXCEPT ![g] = {}]
  /\ UNCHANGED treeVars

\* The sessions in moved go to the child of g, which spawns them without a guard;
\* they die with it if it is dead.  The other connections of g die with g.
Move(g, moved) ==
  LET n == child[g]
      alive == Running(n)
  IN  /\ st' = [c \in Conns |-> IF c \in moved /\ alive THEN "live"
                               ELSE IF at[c] = g THEN "killed" ELSE st[c]]
      /\ at' = [c \in Conns |-> IF c \in moved /\ alive THEN n
                               ELSE IF at[c] = g THEN 0 ELSE at[c]]
      /\ adopted' = [c \in Conns |-> c \in moved \/ adopted[c]]

\* The connections of the processes in G die with them.
Drop(G) ==
  /\ st' = [c \in Conns |-> IF at[c] \in G THEN "killed" ELSE st[c]]
  /\ at' = [c \in Conns |-> IF at[c] \in G THEN 0 ELSE at[c]]
  /\ UNCHANGED adopted

----------------------------------------------------------------------------
(* The acceptor and the sessions, tasks of their own.                      *)

\* listener.accept(): every generation that is accepting shares the backlog.
Accept(g, c) ==
  /\ acceptor[g] # "off" /\ At(g, "held") = {} /\ st[c] = "new"
  /\ st' = [st EXCEPT ![c] = "held"] /\ at' = [at EXCEPT ![c] = g]
  /\ UNCHANGED <<mode, procVars, adopted>>

track_drops_guard(g, c) ==
  /\ c \in At(g, "held")
  /\ st' = [st EXCEPT ![c] = "live"]
  /\ UNCHANGED <<mode, procVars, at, adopted>>

\* fetch_add, and the session is spawned with its guard.
track(g, c) ==
  /\ c \in At(g, "held")
  /\ tracked' = [tracked EXCEPT ![g] = @ \cup {c}]
  /\ st' = [st EXCEPT ![c] = "live"]
  /\ UNCHANGED <<mode, mainVars, acceptor, treeVars, calling, at, adopted>>

Abort_ignored(g) == {acceptor[g]}

\* acceptor.abort(): it takes effect at the next await of the task, which
\* may be in the middle of a poll; it is when it holds a connection.
Abort(g) ==
  IF acceptor[g] = "off" THEN {"off"}
  ELSE IF At(g, "held") # {} THEN {"last"} ELSE {"off", "last"}

AcceptorStops(g) ==
  /\ acceptor[g] = "last" /\ At(g, "held") = {}
  /\ acceptor' = [acceptor EXCEPT ![g] = "off"]
  /\ UNCHANGED <<mode, mainVars, treeVars, guardVars, connVars>>

SessionEnds(g, c) ==
  /\ c \in At(g, "live")
  /\ st' = [st EXCEPT ![c] = "gone"] /\ at' = [at EXCEPT ![c] = 0]
  /\ UNCHANGED <<mode, procVars, adopted>>

\* Drop for SessionGuard, first half: fetch_sub.  The task of a session that
\* was handed over ends too.
DropGuard(g, c) ==
  /\ c \in tracked[g] \ At(g, "live")
  /\ tracked' = [tracked EXCEPT ![g] = @ \ {c}]
  /\ calling' = IF tracked[g] = {c} THEN [calling EXCEPT ![g] = @ \cup {c}] ELSE calling
  /\ UNCHANGED <<mode, mainVars, acceptor, treeVars, connVars>>

\* Second half: notify_waiters, which wakes the waiters there are.
notify_waiters(g, c) ==
  /\ c \in calling[g]
  /\ calling' = [calling EXCEPT ![g] = @ \ {c}]
  /\ pc' = IF pc[g] = "waiting" THEN [pc EXCEPT ![g] = "check"] ELSE pc
  /\ UNCHANGED <<mode, sig, early, how, acceptor, treeVars, tracked, connVars>>

----------------------------------------------------------------------------
(* The start of a process.                                                 *)

\* The first process leaves the group of td-init.
Setsid(g) ==
  /\ pc[g] = "forked"
  /\ pc' = [pc EXCEPT ![g] = "boot"]
  /\ UNCHANGED <<mode, sig, early, how, acceptor, treeVars, guardVars, connVars>>

\* exec, the listener or the datagram pair fails.
BootFails(g) ==
  /\ pc[g] = "boot"
  /\ Exit(g, "failed", {})
  /\ UNCHANGED <<mode, connVars>>

\* ecdysis.ready(): the parent's upgrade() may return.
Ready(g) ==
  /\ pc[g] = "boot"
  /\ pc' = [pc EXCEPT ![g] = "ready"]
  /\ readied' = [readied EXCEPT ![g] = TRUE]
  /\ UNCHANGED <<mode, sig, early, how, acceptor, parent, child, guardVars, connVars>>

\* It accepts before it has handlers for the signals.
spawn_acceptor(g) ==
  /\ pc[g] = "ready"
  /\ pc' = [pc EXCEPT ![g] = "spawned"]
  /\ acceptor' = [acceptor EXCEPT ![g] = "on"]
  /\ UNCHANGED <<mode, sig, early, how, treeVars, guardVars, connVars>>

\* The signal handlers are installed and the loop begins.
Serve(g) ==
  /\ pc[g] = "spawned"
  /\ pc' = [pc EXCEPT ![g] = "serving"]
  /\ UNCHANGED <<mode, sig, early, how, acceptor, treeVars, guardVars, connVars>>

----------------------------------------------------------------------------
(* The signal loop.                                                        *)

\* The loop is left: abort, quit, wait_drained.
BeginDrain(g, served) ==
  /\ \E a \in Abort(g) : acceptor' = [acceptor EXCEPT ![g] = a]
  /\ pc' = [pc EXCEPT ![g] = "check"]
  /\ early' = [early EXCEPT ![g] = served]
  /\ UNCHANGED <<mode, sig, how, treeVars, guardVars>>

\* SIGUSR2: the next generation is started; migrate has stopped the acceptor and
\* frozen sessions that were there before.  A spawn that fails is a child that fails at once.
Upgrade(g) ==
  /\ pc[g] = "serving" /\ "USR2" \in sig[g]
  /\ \E n \in Gens :
       /\ pc[n] = "none" /\ \A k \in 1..(n - 1) : pc[k] # "none"
       /\ pc' = [pc EXCEPT ![g] = "upgrading", ![n] = "boot"]
       /\ child' = [child EXCEPT ![g] = n] /\ parent' = [parent EXCEPT ![n] = g]
  /\ sig' = [sig EXCEPT ![g] = @ \ {"USR2"}]
  /\ \E a \in IF mode = "migrate" THEN Abort(g) ELSE {acceptor[g]} :
       acceptor' = [acceptor EXCEPT ![g] = a]
  /\ early' = IF mode = "migrate" THEN [early EXCEPT ![g] = At(g, "live")] ELSE early
  /\ UNCHANGED <<mode, how, readied, guardVars, connVars>>

Upgraded(g) == pc[g] = "upgrading" /\ readied[child[g]]

\* Drain mode: the parent goes on with the sessions it has.
UpgradeOk(g) ==
  /\ mode = "drain" /\ Upgraded(g)
  /\ BeginDrain(g, At(g, "live"))
  /\ UNCHANGED connVars

\* Migrate mode: the whole batch is handed over and the process exits; what
\* was not frozen dies with it.
HandOver(g) ==
  /\ mode = "migrate" /\ Upgraded(g)
  /\ \E moved \in SUBSET (early[g] \cap At(g, "live")) : Move(g, moved)
  /\ Exit(g, "handover", {})
  /\ UNCHANGED mode

\* The handoff breaks off: the parent gives up the sessions it has sent, the child
\* discards what it has received with the error of recv_sessions, and the rest is
\* resumed and drained.
HandoffFails(g) ==
  /\ mode = "migrate" /\ Upgraded(g)
  /\ \E sent \in SUBSET (early[g] \cap At(g, "live")) :
       /\ st' = [c \in Conns |-> IF c \in sent THEN "killed" ELSE st[c]]
       /\ at' = [c \in Conns |-> IF c \in sent THEN 0 ELSE at[c]]
       /\ BeginDrain(g, At(g, "live") \ sent)
  /\ UNCHANGED adopted

UpgradeFailed(g) ==
  pc[g] = "upgrading" /\ pc[child[g]] = "exited" /\ ~ readied[child[g]]

UpgradeErr_no_acceptor(g) ==
  /\ UpgradeFailed(g)
  /\ pc' = [pc EXCEPT ![g] = "serving"] /\ early' = [early EXCEPT ![g] = {}]
  /\ UNCHANGED <<mode, sig, how, acceptor, treeVars, guardVars, connVars>>

\* The child died before it was ready: stay alive, and accept again.
UpgradeErr(g) ==
  /\ UpgradeFailed(g)
  /\ pc' = [pc EXCEPT ![g] = "serving"] /\ early' = [early EXCEPT ![g] = {}]
  /\ acceptor' = IF mode = "migrate" THEN [acceptor EXCEPT ![g] = "on"] ELSE acceptor
  /\ UNCHANGED <<mode, sig, how, treeVars, guardVars, connVars>>

\* SIGTERM or SIGINT.
Stop(g) ==
  /\ pc[g] = "serving" /\ "TERM" \in sig[g]
  /\ BeginDrain(g, At(g, "live"))
  /\ UNCHANGED connVars

----------------------------------------------------------------------------
(* wait_drained, and the exit.                                             *)

\* The count is read.  If it is not zero, notified() comes next; a guard on
\* another thread may come in between.
Load(g) ==
  /\ pc[g] = "check"
  /\ \/ /\ tracked[g] = {}
        /\ Exit(g, "drained", early[g]) /\ Drop({g})
     \/ /\ tracked[g] # {}
        /\ pc' = [pc EXCEPT ![g] = "arm"]
        /\ UNCHANGED <<sig, early, how, acceptor, treeVars, guardVars, connVars>>
  /\ UNCHANGED mode

Notified(g) ==
  /\ pc[g] = "arm"
  /\ pc' = [pc EXCEPT ![g] = "waiting"]
  /\ UNCHANGED <<mode, sig, early, how, acceptor, treeVars, guardVars, connVars>>

DrainTimeout_idle_only(g) ==
  /\ pc[g] = "waiting" /\ tracked[g] = {}
  /\ Exit(g, "timeout", early[g]) /\ Drop({g})
  /\ UNCHANGED mode

DrainTimeout(g) ==
  /\ pc[g] = "waiting"
  /\ Exit(g, "timeout", early[g]) /\ Drop({g})
  /\ UNCHANGED mode

----------------------------------------------------------------------------
\* One process, forked by td-init.
GenInit ==
  /\ mode \in Modes
  /\ pc = [g \in Gens |-> IF g = 1 THEN "forked" ELSE "none"]
  /\ sig = [g \in Gens |-> {}] /\ early = [g \in Gens |-> {}]
  /\ how = [g \in Gens |-> "none"] /\ acceptor = [g \in Gens |-> "off"]
  /\ parent = [g \in Gens |-> 0] /\ child = [g \in Gens |-> 0]
  /\ readied = [g \in Gens |-> FALSE]
  /\ tracked = [g \in Gens |-> {}] /\ calling = [g \in Gens |-> {}]
  /\ st = [c \in Conns |-> "new"] /\ at = [c \in Conns |-> 0]
  /\ adopted = [c \in Conns |-> FALSE]

\* The steps of the process itself, and those of its acceptor and its guards.
Process(g) ==
  \/ Setsid(g) \/ BootFails(g) \/ Ready(g) \/ spawn_acceptor(g) \/ Serve(g)
  \/ Upgrade(g) \/ UpgradeOk(g) \/ HandOver(g) \/ HandoffFails(g) \/ UpgradeErr(g)
  \/ Stop(g) \/ Load(g) \/ Notified(g) \/ DrainTimeout(g)

Tasks(g) ==
  \/ AcceptorStops(g)
  \/ \E c \in Conns : track(g, c) \/ DropGuard(g, c) \/ notify_waiters(g, c)

GenWork ==
  \/ \E g \in Gens : Process(g) \/ Tasks(g)
  \/ \E g \in Gens, c \in Conns : Accept(g, c)

GenNext == GenWork \/ \E g \in Gens, c \in Conns : SessionEnds(g, c)
=============================================================================
