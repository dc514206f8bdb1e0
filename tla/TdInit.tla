------------------------------- MODULE TdInit -------------------------------
(***************************************************************************)
(* td-init as PID 1 over the generations: it passes the operator's signals *)
(* on to the process group, reaps whatever is reparented to it, and exits  *)
(* when nothing is left.                                                   *)
(*                                                                         *)
(* A definition named after another with a suffix (Children_direct_only)   *)
(* is a faulty variant of it.  No specification uses it; the mutation runs *)
(* put it in the place of the right one to show that a property can fail.  *)
(***************************************************************************)
EXTENDS Generations

CONSTANTS
  Signals,     \* what the operator sends: USR2, TERM
  MaxSignals,  \* bound: signals sent
  Calm         \* the operator waits for the right moment (Quiet)

ASSUME TdInitAssumption ==
  Signals \subseteq {"USR2", "TERM"} /\ MaxSignals \in Nat /\ Calm \in BOOLEAN

VARIABLES
  ipc,          \* swap, forward, wait (about to call waitpid), sleep (in it),
                \* exited
  PENDING,      \* the signal recorded by the handler, or none
  forwarded,    \* the signal the loop has taken out
  reaped,       \* processes waitpid has returned
  last_status,
  signals,
  stopAsked     \* a TERM was sent

initVars == <<ipc, PENDING, forwarded, reaped, last_status, signals, stopAsked>>
vars == <<genVars, initVars>>

----------------------------------------------------------------------------
\* What a careful operator waits for: td-init sleeps in waitpid, every process
\* has taken the signals it got and, for a shed, the last one is complete.
Quiet(s) ==
  /\ ipc = "sleep" /\ PENDING = "none"
  /\ \A g \in Gens : /\ pc[g] # "forked"
                     /\ pc[g] = "serving" => sig[g] = {}
                     /\ s = "USR2" => pc[g] \notin {"boot", "ready", "spawned", "upgrading"}

\* record: one slot, and a waitpid that is already sleeping returns EINTR.
record(s) ==
  /\ ipc # "exited" /\ signals < MaxSignals
  /\ Calm => Quiet(s)
  /\ signals' = signals + 1
  /\ PENDING' = s
  /\ stopAsked' = (stopAsked \/ s = "TERM")
  /\ ipc' = IF ipc = "sleep" THEN "swap" ELSE ipc
  /\ UNCHANGED <<genVars, forwarded, reaped, last_status>>

Swap ==
  /\ ipc = "swap"
  /\ PENDING' = "none" /\ forwarded' = PENDING
  /\ ipc' = IF PENDING = "none" THEN "wait" ELSE "forward"
  /\ UNCHANGED <<genVars, reaped, last_status, signals, stopAsked>>

\* A process without handlers dies of the signal, one that has left its loop
\* has no use for it, and without setsid there is no group yet.  What dies takes
\* its acceptor and its sessions with it.
Killpg ==
  /\ ipc = "forward"
  /\ LET dying == {g \in Gens : pc[g] \in {"boot", "ready", "spawned"}}
     IN  /\ pc' = [g \in Gens |-> IF g \in dying THEN "exited" ELSE pc[g]]
         /\ how' = [g \in Gens |-> IF g \in dying THEN "killed" ELSE how[g]]
         /\ acceptor' = [g \in Gens |-> IF g \in dying THEN "off" ELSE acceptor[g]]
         /\ tracked' = [g \in Gens |-> IF g \in dying THEN {} ELSE tracked[g]]
         /\ calling' = [g \in Gens |-> IF g \in dying THEN {} ELSE calling[g]]
         /\ Drop(dying)
  /\ sig' = [g \in Gens |-> IF pc[g] \in {"serving", "upgrading"}
                            THEN sig[g] \cup {forwarded} ELSE sig[g]]
  /\ ipc' = "wait" /\ forwarded' = "none"
  /\ UNCHANGED <<mode, early, treeVars, PENDING, reaped, last_status, signals, stopAsked>>

Children_direct_only == {1} \ reaped

\* The children of td-init: the process it forked, and, td-init being the
\* subreaper, those whose parent has exited.
Children ==
  {g \in Gens \ reaped :
     pc[g] # "none" /\ (parent[g] = 0 \/ pc[parent[g]] = "exited")}

Zombies == {g \in Children : pc[g] = "exited"}

\* Only an exit code of the direct child is kept; a death by signal has none.
Reap(g) ==
  /\ ipc \in {"wait", "sleep"} /\ g \in Zombies
  /\ reaped' = reaped \cup {g}
  /\ last_status' = IF g = 1 /\ how[g] # "killed"
                    THEN IF how[g] = "failed" THEN 1 ELSE 0
                    ELSE last_status
  /\ ipc' = "swap"
  /\ UNCHANGED <<genVars, PENDING, forwarded, signals, stopAsked>>

Sleep ==
  /\ ipc = "wait" /\ Children # {} /\ Zombies = {}
  /\ ipc' = "sleep"
  /\ UNCHANGED <<genVars, PENDING, forwarded, reaped, last_status, signals, stopAsked>>

\* ECHILD.
NobodyLeft ==
  /\ ipc = "wait" /\ Children = {}
  /\ ipc' = "exited"
  /\ UNCHANGED <<genVars, PENDING, forwarded, reaped, last_status, signals, stopAsked>>

----------------------------------------------------------------------------
Init ==
  /\ GenInit
  /\ ipc = "swap" /\ PENDING = "none" /\ forwarded = "none"
  /\ reaped = {} /\ last_status = 0 /\ signals = 0 /\ stopAsked = FALSE

InitSteps == Swap \/ Killpg \/ (\E g \in Gens : Reap(g)) \/ Sleep \/ NobodyLeft

Operator == \E s \in Signals : record(s)

GenSteps == GenNext /\ UNCHANGED initVars

Next == Operator \/ InitSteps \/ GenSteps

\* td-init, the processes and their tasks run as long as one of them can; each
\* has finitely many steps to make.  Clients need not leave and the operator
\* need not signal.
Fairness == WF_vars(InitSteps \/ (GenWork /\ UNCHANGED initVars))

Spec == Init /\ [][Next]_vars /\ Fairness

----------------------------------------------------------------------------
(* Properties.                                                             *)

\* Shapes.
TypeOK ==
  /\ mode \in Modes
  /\ pc \in [Gens -> {"none", "forked", "boot", "ready", "spawned", "serving",
                      "upgrading", "check", "arm", "waiting", "exited"}]
  /\ how \in [Gens -> {"none", "failed", "killed", "drained", "timeout", "handover"}]
  /\ acceptor \in [Gens -> {"on", "off", "last"}]
  /\ sig \in [Gens -> SUBSET Signals] /\ early \in [Gens -> SUBSET Conns]
  /\ tracked \in [Gens -> SUBSET Conns] /\ calling \in [Gens -> SUBSET Conns]
  /\ parent \in [Gens -> 0..MaxGens] /\ child \in [Gens -> 0..MaxGens]
  /\ readied \in [Gens -> BOOLEAN]
  /\ st \in [Conns -> {"new", "held", "live", "gone", "killed"}]
  /\ at \in [Conns -> 0..MaxGens] /\ adopted \in [Conns -> BOOLEAN]
  /\ ipc \in {"swap", "forward", "wait", "sleep", "exited"}
  /\ {PENDING, forwarded} \subseteq Signals \cup {"none"}
  /\ reaped \subseteq Gens /\ last_status \in {0, 1}
  /\ signals \in Nat /\ stopAsked \in BOOLEAN

\* The process tree: generations start in order, each from one before it, and
\* the upgrade of a process is about its own child.
TreeInv ==
  /\ \A g, k \in Gens : k < g /\ pc[g] # "none" => pc[k] # "none"
  /\ \A g \in Gens : parent[g] # 0 => parent[g] < g /\ pc[g] # "none"
  /\ \A g \in Gens : pc[g] = "upgrading" => child[g] \in Gens /\ parent[child[g]] = g

\* What a process has at each stage of its life; what has exited has let go of
\* everything, and only that is reaped.
StageInv ==
  /\ \A g \in Gens :
       /\ pc[g] = "forked" => g = 1
       /\ pc[g] \in {"none", "forked", "boot"} => ~ readied[g]
       /\ pc[g] \in {"none", "forked", "boot", "ready", "spawned"} => sig[g] = {}
       /\ how[g] # "none" <=> pc[g] = "exited"
       /\ pc[g] \in {"none", "forked", "boot", "ready", "exited"} =>
            acceptor[g] = "off" /\ tracked[g] = {} /\ calling[g] = {}
  /\ \A g \in reaped : pc[g] = "exited"
  /\ forwarded # "none" <=> ipc = "forward"

\* A connection and its process: a held or live one is with a process that is
\* past ready(), a live one that was accepted there is counted there, and what
\* is counted or was has been accepted.
ConnInv ==
  /\ \A c \in Conns :
       /\ at[c] # 0 <=> st[c] \in {"held", "live"}
       /\ at[c] # 0 =>
            pc[at[c]] \notin {"none", "forked", "boot", "exited"}
       /\ st[c] \in {"new", "held"} => ~ adopted[c]
       /\ st[c] = "held" => acceptor[at[c]] # "off"
       /\ st[c] = "live" /\ ~ adopted[c] => c \in tracked[at[c]]
  /\ \A g \in Gens :
       /\ \A c \in tracked[g] :
            adopted[c] \/ st[c] \in {"gone", "killed"} \/ (st[c] = "live" /\ at[c] = g)
       /\ \A c \in calling[g] : st[c] \notin {"new", "held"}
       /\ tracked[g] \cap calling[g] = {}

\* The acceptor: a process that serves accepts, one that has left its loop has
\* told its acceptor to stop.
AcceptInv ==
  \A g \in Gens :
    /\ acceptor[g] = "on" => pc[g] \in {"spawned", "serving", "upgrading"}
    /\ pc[g] \in {"spawned", "serving"} => acceptor[g] = "on"
    /\ pc[g] = "upgrading" /\ mode = "drain" => acceptor[g] = "on"

\* "exits ... only when NO descendant remains" (td-init.rs): td-init outlives
\* every generation, however the parents before them went.
ExitsLast == ipc = "exited" => \A g \in Gens : ~ Running(g)

\* The listen port "never stops accepting, even mid-shed" (design.md): unless a
\* stop was asked for, or the first process could not start, some process
\* accepts, is past ready() and about to, or is in an upgrade that ends with
\* one of the two accepting.
StaysUp ==
  ~ stopAsked /\ how[1] # "failed" =>
    \E g \in Gens :
      \/ pc[g] \in {"forked", "ready", "upgrading"}
      \/ pc[g] = "boot" /\ g = 1
      \/ pc[g] \in {"spawned", "serving"} /\ acceptor[g] = "on"

\* What a careful operator gets, as long as no stop was asked for: there is no
\* TERM anywhere, while a USR2 is on its way nothing starts or upgrades, and the
\* child of an upgrade is starting, serving without a signal of its own, or has
\* failed before it was ready.
CalmInv ==
  Calm /\ ~ stopAsked =>
    /\ PENDING # "TERM" /\ forwarded # "TERM"
    /\ PENDING # "none" => ipc = "swap"
    /\ \A g \in Gens :
         /\ "TERM" \notin sig[g]
         /\ PENDING # "none" \/ forwarded # "none" =>
              /\ pc[g] \notin {"forked", "boot", "ready", "spawned", "upgrading"}
              /\ pc[g] = "serving" => sig[g] = {}
         /\ pc[g] = "upgrading" =>
              \/ pc[child[g]] \in {"boot", "ready", "spawned"}
              \/ pc[child[g]] = "serving" /\ sig[child[g]] = {}
              \/ pc[child[g]] = "exited" /\ ~ readied[child[g]]

\* A process that reports that it has drained has cut off none of the sessions
\* in S that it served when the drain began.
CutOffNone(S) ==
  \A g \in Gens : how[g] = "drained" => early[g] \cap S = {}

\* wait_drained waits for every session that came in through the acceptor,
\* although guards are dropped on other threads between its steps.
GracefulExit == CutOffNone({c \in Conns : ~ adopted[c]})

\* The invariant the proofs rest on.
IInv ==
  /\ TypeOK /\ TreeInv /\ StageInv /\ ConnInv /\ AcceptInv /\ CalmInv
  /\ ExitsLast /\ GracefulExit /\ (Calm => StaysUp)

\* "Counts live sessions so the process can exit once it has fully drained"
\* (server.rs): the same for every session, the adopted ones too.
DrainWaitsForAll == CutOffNone(Conns)

\* A stop that was asked for ends the whole container: the signal reaches every
\* generation, each drains or runs into its timeout, and td-init exits.
StopStops == stopAsked ~> (ipc = "exited")
=============================================================================
