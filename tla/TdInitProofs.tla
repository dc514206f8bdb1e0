---------------------------- MODULE TdInitProofs ----------------------------
(***************************************************************************)
(* Proofs about the generations and td-init, for any number of processes,  *)
(* connections and signals, in both modes.                                 *)
(***************************************************************************)
EXTENDS TdInit, NatLemmas, TLAPS

\* When td-init starts, the one process there is has been forked and no
\* connection has been accepted.
LEMMA InitInv == Init => IInv
<1> SUFFICES ASSUME Init PROVE IInv
  OBVIOUS
<1> USE GenerationsAssumption, TdInitAssumption DEF Init, GenInit, Gens
<1>1. TypeOK
  <2>1. {PENDING, forwarded} \subseteq Signals \cup {"none"}
    OBVIOUS
  <2>2. at \in [Conns -> 0..MaxGens] /\ parent \in [Gens -> 0..MaxGens]
    OBVIOUS
  <2>3. QED
    BY <2>1, <2>2 DEF TypeOK
<1>2. TreeInv /\ StageInv
  BY DEF TreeInv, StageInv
<1>3. ConnInv /\ AcceptInv
  BY DEF ConnInv, AcceptInv
<1>4. CalmInv /\ StaysUp
  BY DEF CalmInv, StaysUp
<1>5. ExitsLast /\ GracefulExit
  BY DEF ExitsLast, GracefulExit, CutOffNone
<1>6. QED
  BY <1>1, <1>2, <1>3, <1>4, <1>5 DEF IInv

\* A step that accepts a connection, and one of a session or its guard, keeps the invariant.
LEMMA TasksInv ==
  ASSUME IInv, UNCHANGED initVars, NEW g \in Gens, NEW c \in Conns,
         Accept(g, c) \/ track(g, c) \/ SessionEnds(g, c) \/ DropGuard(g, c) \/ notify_waiters(g, c)
  PROVE  IInv'
<1> USE GenerationsAssumption, TdInitAssumption
    DEF IInv, Gens, At, Running, initVars, mainVars, treeVars, guardVars, procVars, connVars
<1>1. CASE Accept(g, c)
  <2> USE <1>1 DEF Accept
  <2>1. TypeOK'
    BY SMTT(30) DEF TypeOK
  <2>2. TreeInv'
    BY DEF TypeOK, TreeInv
  <2>3. StageInv'
    BY DEF TypeOK, StageInv, ConnInv
  <2>4. ConnInv'
    BY SMTT(30) DEF TypeOK, StageInv, ConnInv
  <2>5. AcceptInv'
    BY DEF TypeOK, AcceptInv
  <2>6. CalmInv'
    BY DEF TypeOK, TreeInv, StageInv, CalmInv
  <2>7. ExitsLast'
    BY DEF TypeOK, ExitsLast
  <2>8. GracefulExit'
    BY DEF TypeOK, StageInv, GracefulExit, CutOffNone
  <2>9. Calm => StaysUp'
    BY DEF TypeOK, StageInv, AcceptInv, CalmInv, StaysUp
  <2>10. QED
    BY <2>1, <2>2, <2>3, <2>4, <2>5, <2>6, <2>7, <2>8, <2>9
<1>2. CASE track(g, c)
  <2> USE <1>2 DEF track
  <2>1. TypeOK'
    BY DEF TypeOK
  <2>2. TreeInv'
    BY DEF TypeOK, TreeInv
  <2>3. StageInv'
    BY DEF TypeOK, StageInv, ConnInv
  <2>4. ConnInv'
    BY DEF TypeOK, StageInv, ConnInv
  <2>5. AcceptInv'
    BY DEF TypeOK, AcceptInv
  <2>6. CalmInv'
    BY DEF TypeOK, TreeInv, StageInv, CalmInv
  <2>7. ExitsLast'
    BY DEF TypeOK, ExitsLast
  <2>8. GracefulExit'
    BY DEF TypeOK, StageInv, GracefulExit, CutOffNone
  <2>9. Calm => StaysUp'
    BY DEF TypeOK, StageInv, AcceptInv, CalmInv, StaysUp
  <2>10. QED
    BY <2>1, <2>2, <2>3, <2>4, <2>5, <2>6, <2>7, <2>8, <2>9
<1>3. CASE SessionEnds(g, c)
  <2> USE <1>3 DEF SessionEnds
  <2>1. TypeOK'
    BY SMTT(30) DEF TypeOK
  <2>2. TreeInv'
    BY DEF TypeOK, TreeInv
  <2>3. StageInv'
    BY DEF TypeOK, StageInv, ConnInv
  <2>4. ConnInv'
    BY SMTT(30) DEF TypeOK, StageInv, ConnInv
  <2>5. AcceptInv'
    BY DEF TypeOK, AcceptInv
  <2>6. CalmInv'
    BY DEF TypeOK, TreeInv, StageInv, CalmInv
  <2>7. ExitsLast'
    BY DEF TypeOK, ExitsLast
  <2>8. GracefulExit'
    BY DEF TypeOK, StageInv, GracefulExit, CutOffNone
  <2>9. Calm => StaysUp'
    BY DEF TypeOK, StageInv, AcceptInv, CalmInv, StaysUp
  <2>10. QED
    BY <2>1, <2>2, <2>3, <2>4, <2>5, <2>6, <2>7, <2>8, <2>9
<1>4. CASE DropGuard(g, c)
  <2> USE <1>4 DEF DropGuard
  <2>1. TypeOK'
    BY DEF TypeOK
  <2>2. TreeInv'
    BY DEF TypeOK, TreeInv
  <2>3. StageInv'
    BY DEF TypeOK, StageInv, ConnInv
  <2>4. ConnInv'
    <3>1. /\ UNCHANGED <<pc, acceptor, st, at, adopted>> /\ c \in tracked[g] \ At(g, "live")
          /\ \A h \in Gens : tracked'[h] = IF h = g THEN tracked[h] \ {c} ELSE tracked[h]
      BY DEF TypeOK
    <3>2. \A h \in Gens : \/ calling'[h] = calling[h]
                          \/ h = g /\ tracked'[h] = {} /\ calling'[h] = calling[h] \cup {c}
      BY <3>1 DEF TypeOK
    <3>3. st[c] \notin {"new", "held"} /\ (st[c] = "live" /\ ~ adopted[c] => at[c] # g)
      BY <3>1 DEF TypeOK, ConnInv
    <3> HIDE <1>4
    <3>4. ASSUME NEW d \in Conns
          PROVE  /\ at[d] # 0 <=> st[d] \in {"held", "live"}
                 /\ at[d] # 0 => pc[at[d]] \notin {"none", "forked", "boot", "exited"}
                 /\ st[d] \in {"new", "held"} => ~ adopted[d]
                 /\ st[d] = "held" => acceptor[at[d]] # "off"
                 /\ st[d] = "live" /\ ~ adopted[d] => d \in tracked'[at[d]]
      <4>1. ASSUME st[d] = "live", ~ adopted[d] PROVE d \in tracked'[at[d]]
        <5>1. at[d] \in Gens /\ d \in tracked[at[d]]
          BY <4>1 DEF TypeOK, ConnInv
        <5>2. d = c => at[d] # g
          BY <4>1, <3>3
        <5>3. QED
          BY <5>1, <5>2, <3>1
      <4>2. QED
        BY <4>1 DEF ConnInv
    <3>5. ASSUME NEW h \in Gens
          PROVE  /\ \A d \in tracked'[h] :
                      adopted[d] \/ st[d] \in {"gone", "killed"} \/ (st[d] = "live" /\ at[d] = h)
                 /\ \A d \in calling'[h] : st[d] \notin {"new", "held"}
                 /\ tracked'[h] \cap calling'[h] = {}
      <4>0. \A d \in tracked'[h] : d \in tracked[h]
        BY <3>1
      <4>1. tracked[h] \cap calling[h] = {}
        BY DEF ConnInv
      <4>2. \A d \in tracked[h] :
              adopted[d] \/ st[d] \in {"gone", "killed"} \/ (st[d] = "live" /\ at[d] = h)
        BY DEF ConnInv
      <4>3. \A d \in calling[h] : st[d] \notin {"new", "held"}
        BY DEF ConnInv
      <4>4. QED
        BY <4>0, <4>1, <4>2, <4>3, <3>2, <3>3
    <3>6. QED
      BY <3>1, <3>4, <3>5 DEF ConnInv
  <2>5. AcceptInv'
    BY DEF TypeOK, AcceptInv
  <2>6. CalmInv'
    BY DEF TypeOK, TreeInv, StageInv, CalmInv
  <2>7. ExitsLast'
    BY DEF TypeOK, ExitsLast
  <2>8. GracefulExit'
    BY DEF TypeOK, StageInv, GracefulExit, CutOffNone
  <2>9. Calm => StaysUp'
    BY DEF TypeOK, StageInv, AcceptInv, CalmInv, StaysUp
  <2>10. QED
    BY <2>1, <2>2, <2>3, <2>4, <2>5, <2>6, <2>7, <2>8, <2>9
<1>5. CASE notify_waiters(g, c)
  <2> USE <1>5 DEF notify_waiters
  <2>1. TypeOK'
    BY DEF TypeOK
  <2>2. TreeInv'
    BY SMTT(30) DEF TypeOK, TreeInv
  <2>3. StageInv'
    BY SMTT(30) DEF TypeOK, StageInv, ConnInv
  <2>4. ConnInv'
    BY SMTT(30) DEF TypeOK, StageInv, ConnInv
  <2>5. AcceptInv'
    BY DEF TypeOK, AcceptInv
  <2>6. CalmInv'
    BY SMTT(30) DEF TypeOK, TreeInv, StageInv, CalmInv
  <2>7. ExitsLast'
    BY DEF TypeOK, ExitsLast
  <2>8. GracefulExit'
    BY DEF TypeOK, StageInv, GracefulExit, CutOffNone
  <2>9. Calm => StaysUp'
    BY DEF TypeOK, StageInv, AcceptInv, CalmInv, StaysUp
  <2>10. QED
    BY <2>1, <2>2, <2>3, <2>4, <2>5, <2>6, <2>7, <2>8, <2>9
<1>6. QED
  BY <1>1, <1>2, <1>3, <1>4, <1>5

\* The steps in which a process starts keep the invariant.
LEMMA StartInv ==
  ASSUME IInv, UNCHANGED initVars, NEW g \in Gens,
         Setsid(g) \/ BootFails(g) \/ Ready(g) \/ spawn_acceptor(g) \/ Serve(g)
  PROVE  IInv'
<1> USE GenerationsAssumption, TdInitAssumption
    DEF IInv, Gens, At, Running, initVars, mainVars, treeVars, guardVars, procVars, connVars
<1>1. CASE Setsid(g)
  <2> USE <1>1 DEF Setsid
  <2>1. TypeOK'
    BY DEF TypeOK
  <2>2. TreeInv'
    BY SMTT(30) DEF TypeOK, TreeInv
  <2>3. StageInv'
    BY DEF TypeOK, StageInv, ConnInv
  <2>4. ConnInv'
    BY DEF TypeOK, StageInv, ConnInv
  <2>5. AcceptInv'
    BY DEF TypeOK, AcceptInv
  <2>6. CalmInv'
    BY DEF TypeOK, TreeInv, StageInv, CalmInv
  <2>7. ExitsLast'
    BY DEF TypeOK, ExitsLast
  <2>8. GracefulExit'
    BY DEF TypeOK, StageInv, GracefulExit, CutOffNone
  <2>9. Calm => StaysUp'
    BY DEF TypeOK, StageInv, AcceptInv, CalmInv, StaysUp
  <2>10. QED
    BY <2>1, <2>2, <2>3, <2>4, <2>5, <2>6, <2>7, <2>8, <2>9
<1>2. CASE BootFails(g)
  <2> USE <1>2 DEF BootFails, Exit
  <2>1. TypeOK'
    BY DEF TypeOK
  <2>2. TreeInv'
    BY DEF TypeOK, TreeInv
  <2>3. StageInv'
    BY DEF TypeOK, StageInv, ConnInv
  <2>4. ConnInv'
    BY DEF TypeOK, StageInv, ConnInv
  <2>5. AcceptInv'
    BY DEF TypeOK, AcceptInv
  <2>6. CalmInv'
    BY DEF TypeOK, TreeInv, StageInv, CalmInv
  <2>7. ExitsLast'
    BY DEF TypeOK, ExitsLast
  <2>8. GracefulExit'
    BY DEF TypeOK, StageInv, GracefulExit, CutOffNone
  <2>9. Calm => StaysUp'
    BY DEF TypeOK, StageInv, AcceptInv, CalmInv, StaysUp
  <2>10. QED
    BY <2>1, <2>2, <2>3, <2>4, <2>5, <2>6, <2>7, <2>8, <2>9
<1>3. CASE Ready(g)
  <2> USE <1>3 DEF Ready
  <2>1. TypeOK'
    BY DEF TypeOK
  <2>2. TreeInv'
    BY SMTT(30) DEF TypeOK, TreeInv
  <2>3. StageInv'
    BY DEF TypeOK, StageInv, ConnInv
  <2>4. ConnInv'
    BY DEF TypeOK, StageInv, ConnInv
  <2>5. AcceptInv'
    BY DEF TypeOK, AcceptInv
  <2>6. CalmInv'
    BY DEF TypeOK, TreeInv, StageInv, CalmInv
  <2>7. ExitsLast'
    BY DEF TypeOK, ExitsLast
  <2>8. GracefulExit'
    BY DEF TypeOK, StageInv, GracefulExit, CutOffNone
  <2>9. Calm => StaysUp'
    BY DEF TypeOK, StageInv, AcceptInv, CalmInv, StaysUp
  <2>10. QED
    BY <2>1, <2>2, <2>3, <2>4, <2>5, <2>6, <2>7, <2>8, <2>9
<1>4. CASE spawn_acceptor(g)
  <2> USE <1>4 DEF spawn_acceptor
  <2>1. TypeOK'
    BY DEF TypeOK
  <2>2. TreeInv'
    BY SMTT(30) DEF TypeOK, TreeInv
  <2>3. StageInv'
    BY DEF TypeOK, StageInv, ConnInv
  <2>4. ConnInv'
    BY DEF TypeOK, StageInv, ConnInv
  <2>5. AcceptInv'
    BY DEF TypeOK, AcceptInv
  <2>6. CalmInv'
    BY DEF TypeOK, TreeInv, StageInv, CalmInv
  <2>7. ExitsLast'
    BY DEF TypeOK, ExitsLast
  <2>8. GracefulExit'
    BY DEF TypeOK, StageInv, GracefulExit, CutOffNone
  <2>9. Calm => StaysUp'
    BY DEF TypeOK, StageInv, AcceptInv, CalmInv, StaysUp
  <2>10. QED
    BY <2>1, <2>2, <2>3, <2>4, <2>5, <2>6, <2>7, <2>8, <2>9
<1>5. CASE Serve(g)
  <2> USE <1>5 DEF Serve
  <2>1. TypeOK'
    BY DEF TypeOK
  <2>2. TreeInv'
    BY SMTT(30) DEF TypeOK, TreeInv
  <2>3. StageInv'
    BY DEF TypeOK, StageInv, ConnInv
  <2>4. ConnInv'
    BY DEF TypeOK, StageInv, ConnInv
  <2>5. AcceptInv'
    BY DEF TypeOK, AcceptInv
  <2>6. CalmInv'
    BY DEF TypeOK, TreeInv, StageInv, CalmInv
  <2>7. ExitsLast'
    BY DEF TypeOK, ExitsLast
  <2>8. GracefulExit'
    BY DEF TypeOK, StageInv, GracefulExit, CutOffNone
  <2>9. Calm => StaysUp'
    BY DEF TypeOK, StageInv, AcceptInv, CalmInv, StaysUp
  <2>10. QED
    BY <2>1, <2>2, <2>3, <2>4, <2>5, <2>6, <2>7, <2>8, <2>9
<1>6. QED
  BY <1>1, <1>2, <1>3, <1>4, <1>5

\* A child that has called ready() is another process, past its start.
LEMMA ChildReady ==
  ASSUME IInv, NEW g \in Gens, Upgraded(g)
  PROVE  /\ child[g] \in Gens /\ child[g] # g
         /\ pc[child[g]] \notin {"none", "forked", "boot"}
<1> USE GenerationsAssumption DEF IInv, TypeOK, Gens, Upgraded
<1>1. child[g] \in Gens /\ child[g] # g
  <2>1. child[g] \in Gens /\ parent[child[g]] = g /\ g # 0
    BY DEF TreeInv
  <2>2. parent[child[g]] < child[g]
    BY <2>1 DEF TreeInv
  <2>3. QED
    BY <2>1, <2>2
<1>2. pc[child[g]] \notin {"none", "forked", "boot"}
  BY <1>1 DEF StageInv
<1>3. QED
  BY <1>1, <1>2

\* While signals come at quiet times only and none is a TERM, that child is on
\* its way to accept or does.
LEMMA ChildUp ==
  ASSUME IInv, NEW g \in Gens, Upgraded(g), Calm, ~ stopAsked
  PROVE  pc[child[g]] \in {"ready", "spawned", "serving"}
  BY ChildReady DEF IInv, TypeOK, Upgraded, CalmInv

\* The steps of the signal loop keep the invariant.
LEMMA LoopInv ==
  ASSUME IInv, UNCHANGED initVars, NEW g \in Gens,
         Upgrade(g) \/ UpgradeOk(g) \/ HandOver(g) \/ HandoffFails(g) \/ UpgradeErr(g) \/ Stop(g)
  PROVE  IInv'
<1> USE GenerationsAssumption, TdInitAssumption
    DEF IInv, Gens, At, Running, initVars, mainVars, treeVars, guardVars, procVars, connVars
<1>1. CASE Upgrade(g)
  <2> USE <1>1
  <2>1. PICK n \in Gens :
          /\ pc[n] = "none"
          /\ \A k \in 1..(n - 1) : pc[k] # "none"
          /\ pc' = [pc EXCEPT ![g] = "upgrading", ![n] = "boot"]
          /\ child' = [child EXCEPT ![g] = n] /\ parent' = [parent EXCEPT ![n] = g]
    BY DEF Upgrade
  <2>2. PICK a \in {"on", "off", "last"} :
          /\ acceptor' = [acceptor EXCEPT ![g] = a]
          /\ mode = "drain" => a = acceptor[g]
          /\ acceptor[g] # "off" /\ At(g, "held") # {} => a # "off"
    BY DEF Upgrade, Abort, TypeOK
  <2>3. /\ pc[g] = "serving" /\ sig' = [sig EXCEPT ![g] = @ \ {"USR2"}]
        /\ "USR2" \in sig[g]
        /\ early' \in [Gens -> SUBSET Conns]
        /\ \A h \in Gens : h # g => early'[h] = early[h]
        /\ UNCHANGED <<mode, how, readied, guardVars, connVars>>
    BY DEF Upgrade, TypeOK
  <2>4. g < n /\ g # n
    BY <2>1, <2>3 DEF TreeInv
  <2>t. /\ pc' \in [Gens -> {"none", "forked", "boot", "ready", "spawned", "serving",
                            "upgrading", "check", "arm", "waiting", "exited"}]
        /\ pc'[g] = "upgrading" /\ pc'[n] = "boot"
        /\ \A h \in Gens : h # g /\ h # n => pc'[h] = pc[h]
    BY <2>1, <2>4 DEF TypeOK
  <2>u. /\ child' \in [Gens -> 0..MaxGens] /\ parent' \in [Gens -> 0..MaxGens]
        /\ child'[g] = n /\ parent'[n] = g
        /\ \A h \in Gens : h # g => child'[h] = child[h]
        /\ \A h \in Gens : h # n => parent'[h] = parent[h]
    BY <2>1, <2>4 DEF TypeOK
  <2>v. pc[n] = "none" /\ pc[g] = "serving"
    BY <2>1, <2>3
  <2>w. \A k \in 1..(n - 1) : pc[k] # "none"
    BY <2>1
  <2> HIDE <1>1
  <2>5. TypeOK'
    BY <2>2, <2>3, <2>t, <2>u DEF TypeOK
  <2>6. TreeInv'
    <3>1. ASSUME NEW h \in Gens, NEW k \in Gens, k < h, pc'[h] # "none" PROVE pc'[k] # "none"
      BY <3>1, <2>4, <2>t, <2>v, <2>w DEF TreeInv
    <3>2. ASSUME NEW h \in Gens, parent'[h] # 0 PROVE parent'[h] < h /\ pc'[h] # "none"
      <4>1. CASE h = n
        BY <4>1, <2>4, <2>t, <2>u
      <4>2. CASE h # n
        BY ZenonT(40), <4>2, <3>2, <2>t, <2>u, <2>v DEF TreeInv
      <4>3. QED
        BY <4>1, <4>2
    <3>3. ASSUME NEW h \in Gens, pc'[h] = "upgrading"
          PROVE  child'[h] \in Gens /\ parent'[child'[h]] = h
      <4>1. CASE h = g
        BY <4>1, <2>u
      <4>2. CASE h # g
        <5>1. h # n /\ pc[h] = "upgrading"
          BY <4>2, <3>3, <2>t
        <5>2. child[h] \in Gens /\ parent[child[h]] = h
          BY <5>1 DEF TreeInv
        <5>3. child[h] # n
          BY <5>2, <2>v DEF TreeInv
        <5>4. QED
          BY <4>2, <5>2, <5>3, <2>u
      <4>3. QED
        BY <4>1, <4>2
    <3>4. QED
      BY <3>1, <3>2, <3>3 DEF TreeInv
  <2>7. StageInv'
    <3>0. forwarded' # "none" <=> ipc' = "forward"
      BY DEF StageInv
    <3>1. ASSUME NEW h \in reaped' PROVE pc'[h] = "exited"
      <4>1. h \in Gens /\ pc[h] = "exited"
        BY <3>1 DEF TypeOK, StageInv
      <4>2. QED
        BY <4>1, <2>t, <2>v
    <3>2. ASSUME NEW h \in Gens, h # g, h # n
          PROVE  /\ pc'[h] = pc[h] /\ sig'[h] = sig[h] /\ acceptor'[h] = acceptor[h]
      BY <3>2, <2>2, <2>3, <2>t DEF TypeOK
    <3>3. /\ sig'[n] = sig[n] /\ acceptor'[n] = acceptor[n]
          /\ pc'[g] = "upgrading" /\ pc'[n] = "boot"
      BY <2>2, <2>3, <2>4, <2>t DEF TypeOK
    <3>4. QED
      BY <3>0, <3>1, <3>2, <3>3, <2>3, <2>v DEF StageInv
  <2>8. ConnInv'
    <3>1. ASSUME NEW h \in Gens, pc[h] \notin {"none", "forked", "boot", "exited"}
          PROVE  pc'[h] \notin {"none", "forked", "boot", "exited"}
      BY <3>1, <2>t, <2>v
    <3>2. ASSUME NEW c \in Conns, st[c] = "held"
          PROVE  acceptor'[at[c]] # "off"
      BY <3>2, <2>2, <2>3 DEF TypeOK, ConnInv, Upgrade, Abort
    <3>3. QED
      BY <3>1, <3>2, <2>3 DEF TypeOK, ConnInv
  <2>9. AcceptInv'
    BY SMTT(30), <2>2, <2>3, <2>t, <2>v DEF TypeOK, StageInv, AcceptInv
  <2>10. CalmInv'
    <3> SUFFICES ASSUME Calm, ~ stopAsked PROVE CalmInv'
      BY DEF CalmInv
    <3>1. /\ PENDING # "TERM" /\ forwarded # "TERM" /\ PENDING # "none" => ipc = "swap"
          /\ \A h \in Gens : "TERM" \notin sig[h]
      BY DEF CalmInv
    <3>2. PENDING = "none" /\ forwarded = "none"
      BY <2>3 DEF CalmInv
    <3>3. ASSUME NEW h \in Gens, pc'[h] = "upgrading"
          PROVE  \/ pc'[child'[h]] \in {"boot", "ready", "spawned"}
                 \/ pc'[child'[h]] = "serving" /\ sig'[child'[h]] = {}
                 \/ pc'[child'[h]] = "exited" /\ ~ readied'[child'[h]]
      <4>1. CASE h = g
        BY <4>1, <2>t, <2>u
      <4>2. CASE h # g
        <5>1. h # n /\ pc[h] = "upgrading" /\ child'[h] = child[h]
          BY <4>2, <3>3, <2>t, <2>u
        <5>2. child[h] \in Gens /\ pc[child[h]] # "none"
          BY <5>1 DEF TypeOK, TreeInv
        <5>3. child[h] # n /\ child[h] # g
          BY <5>1, <5>2, <2>3, <2>v DEF CalmInv
        <5>4. pc'[child[h]] = pc[child[h]] /\ sig'[child[h]] = sig[child[h]]
          BY ZenonT(40), <5>2, <5>3, <2>3, <2>t DEF TypeOK
        <5>5. QED
          BY <5>1, <5>4, <2>3 DEF CalmInv
      <4>3. QED
        BY <4>1, <4>2
    <3>4. QED
      BY <3>1, <3>2, <3>3, <2>3 DEF TypeOK, CalmInv
  <2>11. ExitsLast'
    BY <2>v DEF ExitsLast
  <2>12. GracefulExit'
    BY <2>3, <2>v DEF StageInv, GracefulExit, CutOffNone
  <2>13. Calm => StaysUp'
    BY <2>t DEF TypeOK, StaysUp
  <2>14. QED
    BY <2>5, <2>6, <2>7, <2>8, <2>9, <2>10, <2>11, <2>12, <2>13
<1>2. CASE UpgradeOk(g)
  <2>a. /\ child[g] \in Gens /\ child[g] # g
        /\ pc[child[g]] \notin {"none", "forked", "boot"}
    BY <1>2, ChildReady DEF UpgradeOk
  <2>b. Calm /\ ~ stopAsked => pc[child[g]] \in {"ready", "spawned", "serving"}
    BY <1>2, ChildUp DEF UpgradeOk
  <2> USE <1>2 DEF UpgradeOk, Upgraded, BeginDrain, Abort
  <2>1. TypeOK'
    BY SMTT(30) DEF TypeOK
  <2>2. TreeInv'
    BY SMTT(30) DEF TypeOK, TreeInv
  <2>3. StageInv'
    BY DEF TypeOK, StageInv, ConnInv
  <2>4. ConnInv'
    BY DEF TypeOK, StageInv, ConnInv
  <2>5. AcceptInv'
    BY DEF TypeOK, AcceptInv
  <2>6. CalmInv'
    BY SMTT(30) DEF TypeOK, TreeInv, StageInv, CalmInv
  <2>7. ExitsLast'
    BY DEF TypeOK, ExitsLast
  <2>8. GracefulExit'
    BY DEF TypeOK, StageInv, GracefulExit, CutOffNone
  <2>9. Calm => StaysUp'
    BY <2>a, <2>b DEF TypeOK, AcceptInv, StaysUp
  <2>10. QED
    BY <2>1, <2>2, <2>3, <2>4, <2>5, <2>6, <2>7, <2>8, <2>9
<1>3. CASE HandOver(g)
  <2>a. /\ child[g] \in Gens /\ child[g] # g
        /\ pc[child[g]] \notin {"none", "forked", "boot"}
    BY <1>3, ChildReady DEF HandOver
  <2>b. Calm /\ ~ stopAsked => pc[child[g]] \in {"ready", "spawned", "serving"}
    BY <1>3, ChildUp DEF HandOver
  <2> USE <1>3 DEF HandOver, Upgraded, Exit, Move
  <2>1. TypeOK'
    <3>1. at' \in [Conns -> 0..MaxGens]
      BY <2>a DEF TypeOK
    <3>2. st' \in [Conns -> {"new", "held", "live", "gone", "killed"}]
      BY <2>a DEF TypeOK
    <3>3. adopted' \in [Conns -> BOOLEAN]
      BY <2>a DEF TypeOK
    <3>4. QED
      BY <3>1, <3>2, <3>3 DEF TypeOK
  <2>2. TreeInv'
    BY SMTT(30) DEF TypeOK, TreeInv
  <2>3. StageInv'
    BY DEF TypeOK, StageInv, ConnInv
  <2>4. ConnInv'
    <3>1. PICK moved \in SUBSET (early[g] \cap At(g, "live")) : Move(g, moved)
      OBVIOUS
    <3>2. ASSUME NEW c \in Conns, at'[c] # 0
          PROVE  /\ st'[c] \in {"held", "live"} /\ at'[c] # g
                 /\ pc[at'[c]] \notin {"none", "forked", "boot", "exited"}
                 /\ \/ at'[c] = at[c] /\ st'[c] = st[c] /\ adopted'[c] = adopted[c]
                    \/ st'[c] = "live" /\ adopted'[c]
      <4>1. CASE c \in moved
        BY <4>1, <3>1, <3>2, <2>a DEF TypeOK
      <4>2. CASE c \notin moved
        <5>1. at[c] # g /\ at'[c] = at[c] /\ st'[c] = st[c]
          BY <4>2, <3>1, <3>2 DEF TypeOK
        <5>2. adopted'[c] = adopted[c]
          BY <4>2, <3>1 DEF TypeOK
        <5>3. QED
          BY <5>1, <5>2, <3>2 DEF TypeOK, ConnInv
      <4>3. QED
        BY <4>1, <4>2
    <3>3. ASSUME NEW c \in Conns, at'[c] = 0
          PROVE  /\ st'[c] \notin {"held", "live"}
                 /\ st'[c] = "new" => ~ adopted'[c]
      BY <3>1, <3>3, <2>a DEF TypeOK, ConnInv
    <3>4. \A h \in Gens : h # g => /\ pc'[h] = pc[h] /\ tracked'[h] = tracked[h]
                                  /\ acceptor'[h] = acceptor[h]
      BY DEF TypeOK
    <3>5. ASSUME NEW h \in Gens, NEW c \in tracked'[h]
          PROVE  adopted'[c] \/ st'[c] \in {"gone", "killed"} \/ (st'[c] = "live" /\ at'[c] = h)
      BY <3>1, <2>a DEF TypeOK, ConnInv
    <3>6. ASSUME NEW h \in Gens
          PROVE  /\ \A c \in calling'[h] : st'[c] \notin {"new", "held"}
                 /\ tracked'[h] \cap calling'[h] = {}
      BY <3>1, <2>a DEF TypeOK, ConnInv
    <3> HIDE <1>3
    <3>7. QED
      BY SMTT(30), <3>2, <3>3, <3>4, <3>5, <3>6, <2>1 DEF TypeOK, ConnInv
  <2>5. AcceptInv'
    BY DEF TypeOK, AcceptInv
  <2>6. CalmInv'
    BY DEF TypeOK, TreeInv, StageInv, CalmInv
  <2>7. ExitsLast'
    BY DEF TypeOK, ExitsLast
  <2>8. GracefulExit'
    BY DEF TypeOK, StageInv, GracefulExit, CutOffNone
  <2>9. Calm => StaysUp'
    BY <2>a, <2>b DEF TypeOK, AcceptInv, StaysUp
  <2>10. QED
    BY <2>1, <2>2, <2>3, <2>4, <2>5, <2>6, <2>7, <2>8, <2>9
<1>4. CASE HandoffFails(g)
  <2>a. /\ child[g] \in Gens /\ child[g] # g
        /\ pc[child[g]] \notin {"none", "forked", "boot"}
    BY <1>4, ChildReady DEF HandoffFails
  <2>b. Calm /\ ~ stopAsked => pc[child[g]] \in {"ready", "spawned", "serving"}
    BY <1>4, ChildUp DEF HandoffFails
  <2> USE <1>4 DEF HandoffFails, Upgraded, BeginDrain, Abort
  <2>1. TypeOK'
    <3>1. at' \in [Conns -> 0..MaxGens]
      BY <2>a DEF TypeOK
    <3>2. st' \in [Conns -> {"new", "held", "live", "gone", "killed"}]
      BY <2>a DEF TypeOK
    <3>3. adopted' \in [Conns -> BOOLEAN]
      BY <2>a DEF TypeOK
    <3>4. /\ acceptor' \in [Gens -> {"on", "off", "last"}]
          /\ early' \in [Gens -> SUBSET Conns]
      BY DEF TypeOK
    <3>5. pc' \in [Gens -> {"none", "forked", "boot", "ready", "spawned", "serving",
                           "upgrading", "check", "arm", "waiting", "exited"}]
      BY DEF TypeOK
    <3>6. UNCHANGED <<mode, how, sig, treeVars, guardVars, initVars>>
      OBVIOUS
    <3> HIDE <1>4
    <3>7. QED
      BY <3>1, <3>2, <3>3, <3>4, <3>5, <3>6 DEF TypeOK
  <2>2. TreeInv'
    BY DEF TypeOK, TreeInv
  <2>3. StageInv'
    BY DEF TypeOK, StageInv, ConnInv
  <2>4. ConnInv'
    BY SMTT(30), <2>a DEF TypeOK, StageInv, ConnInv
  <2>5. AcceptInv'
    BY DEF TypeOK, AcceptInv
  <2>6. CalmInv'
    BY SMTT(30) DEF TypeOK, TreeInv, StageInv, CalmInv
  <2>7. ExitsLast'
    BY DEF TypeOK, ExitsLast
  <2>8. GracefulExit'
    BY DEF TypeOK, StageInv, GracefulExit, CutOffNone
  <2>9. Calm => StaysUp'
    BY <2>a, <2>b DEF TypeOK, AcceptInv, StaysUp
  <2>10. QED
    BY <2>1, <2>2, <2>3, <2>4, <2>5, <2>6, <2>7, <2>8, <2>9
<1>5. CASE UpgradeErr(g)
  <2> USE <1>5 DEF UpgradeErr, UpgradeFailed
  <2>1. TypeOK'
    BY DEF TypeOK
  <2>2. TreeInv'
    BY SMTT(30) DEF TypeOK, TreeInv
  <2>3. StageInv'
    BY SMTT(30) DEF TypeOK, StageInv, ConnInv
  <2>4. ConnInv'
    BY DEF TypeOK, StageInv, ConnInv
  <2>5. AcceptInv'
    BY DEF TypeOK, AcceptInv
  <2>6. CalmInv'
    BY SMTT(30) DEF TypeOK, TreeInv, StageInv, CalmInv
  <2>7. ExitsLast'
    BY DEF TypeOK, ExitsLast
  <2>8. GracefulExit'
    BY DEF TypeOK, StageInv, GracefulExit, CutOffNone
  <2>9. Calm => StaysUp'
    BY DEF TypeOK, StageInv, AcceptInv, CalmInv, StaysUp
  <2>10. QED
    BY <2>1, <2>2, <2>3, <2>4, <2>5, <2>6, <2>7, <2>8, <2>9
<1>6. CASE Stop(g)
  <2> USE <1>6 DEF Stop, BeginDrain, Abort
  <2>1. TypeOK'
    BY SMTT(30) DEF TypeOK
  <2>2. TreeInv'
    BY DEF TypeOK, TreeInv
  <2>3. StageInv'
    BY SMTT(30) DEF TypeOK, StageInv, ConnInv
  <2>4. ConnInv'
    BY DEF TypeOK, StageInv, ConnInv
  <2>5. AcceptInv'
    BY DEF TypeOK, AcceptInv
  <2>6. CalmInv'
    BY DEF TypeOK, TreeInv, StageInv, CalmInv
  <2>7. ExitsLast'
    BY DEF TypeOK, ExitsLast
  <2>8. GracefulExit'
    BY DEF TypeOK, StageInv, GracefulExit, CutOffNone
  <2>9. Calm => StaysUp'
    BY DEF TypeOK, StageInv, AcceptInv, CalmInv, StaysUp
  <2>10. QED
    BY <2>1, <2>2, <2>3, <2>4, <2>5, <2>6, <2>7, <2>8, <2>9
<1>7. QED
  BY <1>1, <1>2, <1>3, <1>4, <1>5, <1>6

\* The steps of wait_drained, and an acceptor that stops, keep the invariant.
LEMMA DrainInv ==
  ASSUME IInv, UNCHANGED initVars, NEW g \in Gens,
         Load(g) \/ Notified(g) \/ DrainTimeout(g) \/ AcceptorStops(g)
  PROVE  IInv'
<1> USE GenerationsAssumption, TdInitAssumption
    DEF IInv, Gens, At, Running, initVars, mainVars, treeVars, guardVars, procVars, connVars
<1>1. CASE Load(g)
  <2>1. CASE /\ pc[g] = "check" /\ tracked[g] = {} /\ UNCHANGED mode
             /\ Exit(g, "drained", early[g]) /\ Drop({g})
    <3> USE <2>1 DEF Exit, Drop
    <3>1. TypeOK'
      BY SMTT(30) DEF TypeOK
    <3>2. TreeInv'
      BY DEF TypeOK, TreeInv
    <3>3. StageInv'
      BY DEF TypeOK, StageInv, ConnInv
    <3>4. ConnInv'
      BY SMTT(30) DEF TypeOK, StageInv, ConnInv
    <3>5. AcceptInv'
      BY DEF TypeOK, AcceptInv
    <3>6. CalmInv'
      BY DEF TypeOK, TreeInv, StageInv, CalmInv
    <3>7. ExitsLast'
      BY DEF TypeOK, ExitsLast
    <3>8. GracefulExit'
      <4>1. \A c \in At(g, "live") : adopted[c]
        BY DEF TypeOK, ConnInv
      <4>2. QED
        BY <4>1 DEF TypeOK, StageInv, GracefulExit, CutOffNone
    <3>9. Calm => StaysUp'
      BY DEF TypeOK, StageInv, AcceptInv, CalmInv, StaysUp
    <3>10. QED
      BY <3>1, <3>2, <3>3, <3>4, <3>5, <3>6, <3>7, <3>8, <3>9
  <2>2. CASE /\ pc[g] = "check" /\ tracked[g] # {}
             /\ pc' = [pc EXCEPT ![g] = "arm"]
             /\ UNCHANGED <<mode, sig, early, how, acceptor, treeVars, guardVars, connVars>>
    <3> USE <2>2 DEF Exit, Drop
    <3>1. TypeOK'
      BY DEF TypeOK
    <3>2. TreeInv'
      BY DEF TypeOK, TreeInv
    <3>3. StageInv'
      BY SMTT(30) DEF TypeOK, StageInv, ConnInv
    <3>4. ConnInv'
      BY SMTT(30) DEF TypeOK, StageInv, ConnInv
    <3>5. AcceptInv'
      BY DEF TypeOK, AcceptInv
    <3>6. CalmInv'
      BY DEF TypeOK, TreeInv, StageInv, CalmInv
    <3>7. ExitsLast'
      BY DEF TypeOK, ExitsLast
    <3>8. GracefulExit'
      BY DEF TypeOK, StageInv, GracefulExit, CutOffNone
    <3>9. Calm => StaysUp'
      BY DEF TypeOK, StageInv, AcceptInv, CalmInv, StaysUp
    <3>10. QED
      BY <3>1, <3>2, <3>3, <3>4, <3>5, <3>6, <3>7, <3>8, <3>9
  <2>3. QED
    BY <1>1, <2>1, <2>2 DEF Load
<1>2. CASE Notified(g)
  <2> USE <1>2 DEF Notified
  <2>1. TypeOK'
    BY DEF TypeOK
  <2>2. TreeInv'
    BY SMTT(30) DEF TypeOK, TreeInv
  <2>3. StageInv'
    BY DEF TypeOK, StageInv, ConnInv
  <2>4. ConnInv'
    BY DEF TypeOK, StageInv, ConnInv
  <2>5. AcceptInv'
    BY DEF TypeOK, AcceptInv
  <2>6. CalmInv'
    BY DEF TypeOK, TreeInv, StageInv, CalmInv
  <2>7. ExitsLast'
    BY DEF TypeOK, ExitsLast
  <2>8. GracefulExit'
    BY DEF TypeOK, StageInv, GracefulExit, CutOffNone
  <2>9. Calm => StaysUp'
    BY DEF TypeOK, StageInv, AcceptInv, CalmInv, StaysUp
  <2>10. QED
    BY <2>1, <2>2, <2>3, <2>4, <2>5, <2>6, <2>7, <2>8, <2>9
<1>3. CASE DrainTimeout(g)
  <2> USE <1>3 DEF DrainTimeout, Exit, Drop
  <2>1. TypeOK'
    BY SMTT(30) DEF TypeOK
  <2>2. TreeInv'
    BY SMTT(30) DEF TypeOK, TreeInv
  <2>3. StageInv'
    BY DEF TypeOK, StageInv, ConnInv
  <2>4. ConnInv'
    BY DEF TypeOK, StageInv, ConnInv
  <2>5. AcceptInv'
    BY DEF TypeOK, AcceptInv
  <2>6. CalmInv'
    BY DEF TypeOK, TreeInv, StageInv, CalmInv
  <2>7. ExitsLast'
    BY DEF TypeOK, ExitsLast
  <2>8. GracefulExit'
    BY DEF TypeOK, StageInv, GracefulExit, CutOffNone
  <2>9. Calm => StaysUp'
    BY DEF TypeOK, StageInv, AcceptInv, CalmInv, StaysUp
  <2>10. QED
    BY <2>1, <2>2, <2>3, <2>4, <2>5, <2>6, <2>7, <2>8, <2>9
<1>4. CASE AcceptorStops(g)
  <2> USE <1>4 DEF AcceptorStops
  <2>1. TypeOK'
    BY DEF TypeOK
  <2>2. TreeInv'
    BY DEF TypeOK, TreeInv
  <2>3. StageInv'
    BY DEF TypeOK, StageInv, ConnInv
  <2>4. ConnInv'
    BY DEF TypeOK, StageInv, ConnInv
  <2>5. AcceptInv'
    BY DEF TypeOK, AcceptInv
  <2>6. CalmInv'
    BY DEF TypeOK, TreeInv, StageInv, CalmInv
  <2>7. ExitsLast'
    BY DEF TypeOK, ExitsLast
  <2>8. GracefulExit'
    BY DEF TypeOK, StageInv, GracefulExit, CutOffNone
  <2>9. Calm => StaysUp'
    BY DEF TypeOK, StageInv, AcceptInv, CalmInv, StaysUp
  <2>10. QED
    BY <2>1, <2>2, <2>3, <2>4, <2>5, <2>6, <2>7, <2>8, <2>9
<1>5. QED
  BY <1>1, <1>2, <1>3, <1>4

\* td-init is told that it has no children only when no process runs: the first
\* one that ran would be a child of td-init, because its parent is gone.
LEMMA NobodyRuns ==
  ASSUME IInv, Children = {}
  PROVE  \A g \in Gens : ~ Running(g)
<1> SUFFICES ASSUME {g \in Gens : Running(g)} # {} PROVE FALSE
  OBVIOUS
<1> DEFINE S == {g \in Gens : Running(g)}
<1> USE GenerationsAssumption DEF IInv, TypeOK, Gens, Running
<1>1. PICK m \in S : \A k \in S : m <= k
  <2>1. S \in SUBSET Nat
    OBVIOUS
  <2>2. QED
    BY <2>1, LeastElement
<1>2. m \in Gens /\ m \notin reaped /\ pc[m] # "none"
  BY DEF StageInv
<1>3. CASE parent[m] = 0
  BY <1>2, <1>3 DEF Children
<1>4. CASE parent[m] # 0
  <2>1. parent[m] \in Gens /\ parent[m] < m /\ pc[parent[m]] # "none"
    BY <1>2, <1>4 DEF TreeInv
  <2>2. pc[parent[m]] = "exited"
    BY <2>1, <1>1, <1>2
  <2>3. QED
    BY <2>2, <1>2 DEF Children
<1>5. QED
  BY <1>3, <1>4

\* A signal of the operator keeps the invariant.
LEMMA OperatorInv ==
  ASSUME IInv, NEW s \in Signals, record(s)
  PROVE  IInv'
<1> USE GenerationsAssumption, TdInitAssumption
    DEF IInv, record, genVars, mainVars, treeVars, guardVars, procVars, connVars
<1>1. TypeOK'
  BY DEF TypeOK
<1>2. TreeInv' /\ ConnInv' /\ AcceptInv' /\ GracefulExit'
  BY DEF TypeOK, TreeInv, ConnInv, AcceptInv, GracefulExit, CutOffNone
<1>3. StageInv' /\ ExitsLast'
  BY DEF TypeOK, StageInv, ExitsLast, Running
<1>4. CalmInv'
  <2> SUFFICES ASSUME Calm, ~ stopAsked' PROVE CalmInv'
    BY DEF CalmInv
  <2>1. ~ stopAsked /\ s # "TERM" /\ Quiet(s)
    OBVIOUS
  <2>2. s = "USR2" /\ ipc = "sleep" /\ ipc' = "swap" /\ PENDING' = s
    BY <2>1 DEF Quiet
  <2>3. forwarded = "none"
    BY <2>2 DEF StageInv
  <2>4. QED
    BY <2>1, <2>2, <2>3 DEF CalmInv, Quiet
<1>5. Calm => StaysUp'
  BY DEF StaysUp
<1>6. QED
  BY <1>1, <1>2, <1>3, <1>4, <1>5

\* A step of td-init that leaves the processes alone keeps the invariant.
LEMMA WaitInv ==
  ASSUME IInv,
         Swap \/ Sleep \/ NobodyLeft \/ \E g \in Gens : Reap(g)
  PROVE  IInv'
<1> USE GenerationsAssumption, TdInitAssumption
    DEF IInv, genVars, mainVars, treeVars, guardVars, procVars, connVars
<1>1. CASE Swap
  <2> USE <1>1 DEF Swap
  <2>1. TypeOK'
    BY DEF TypeOK
  <2>2. TreeInv' /\ ConnInv' /\ AcceptInv' /\ GracefulExit'
    BY DEF TypeOK, TreeInv, ConnInv, AcceptInv, GracefulExit, CutOffNone
  <2>3. StageInv' /\ ExitsLast'
    BY DEF TypeOK, StageInv, ExitsLast, Running
  <2>4. CalmInv' /\ (Calm => StaysUp')
    BY DEF CalmInv, StageInv, StaysUp
  <2>5. QED
    BY <2>1, <2>2, <2>3, <2>4
<1>2. CASE Sleep
  <2> USE <1>2 DEF Sleep
  <2>1. TypeOK'
    BY DEF TypeOK
  <2>2. TreeInv' /\ ConnInv' /\ AcceptInv' /\ GracefulExit'
    BY DEF TypeOK, TreeInv, ConnInv, AcceptInv, GracefulExit, CutOffNone
  <2>3. StageInv' /\ ExitsLast'
    BY DEF TypeOK, StageInv, ExitsLast, Running
  <2>4. CalmInv' /\ (Calm => StaysUp')
    BY DEF CalmInv, StageInv, StaysUp
  <2>5. QED
    BY <2>1, <2>2, <2>3, <2>4
<1>3. CASE NobodyLeft
  <2>1. ExitsLast'
    <3>1. \A g \in Gens : ~ Running(g)
      BY <1>3, NobodyRuns DEF NobodyLeft
    <3>2. QED
      BY <1>3, <3>1 DEF NobodyLeft, ExitsLast, Running
  <2> USE <1>3 DEF NobodyLeft
  <2>2. TypeOK'
    BY DEF TypeOK
  <2>3. TreeInv' /\ ConnInv' /\ AcceptInv' /\ GracefulExit'
    BY DEF TypeOK, TreeInv, ConnInv, AcceptInv, GracefulExit, CutOffNone
  <2>4. StageInv'
    BY DEF TypeOK, StageInv
  <2>5. CalmInv' /\ (Calm => StaysUp')
    BY DEF CalmInv, StageInv, StaysUp
  <2>6. QED
    BY <2>1, <2>2, <2>3, <2>4, <2>5
<1>4. ASSUME NEW g \in Gens, Reap(g) PROVE IInv'
  <2> USE <1>4 DEF Reap, Zombies, Children
  <2>1. TypeOK'
    BY DEF TypeOK
  <2>2. TreeInv' /\ ConnInv' /\ AcceptInv' /\ GracefulExit'
    BY DEF TypeOK, TreeInv, ConnInv, AcceptInv, GracefulExit, CutOffNone
  <2>3. StageInv' /\ ExitsLast'
    BY DEF TypeOK, StageInv, ExitsLast, Running
  <2>4. CalmInv' /\ (Calm => StaysUp')
    BY DEF CalmInv, StageInv, StaysUp
  <2>5. QED
    BY <2>1, <2>2, <2>3, <2>4
<1>5. QED
  BY <1>1, <1>2, <1>3, <1>4

\* Killpg keeps the invariant: it kills what has not started to serve, and while
\* signals come at quiet times only there is no such process.
LEMMA KillpgInv ==
  ASSUME IInv, Killpg
  PROVE  IInv'
<1> USE GenerationsAssumption, TdInitAssumption
    DEF IInv, Killpg, Drop, Gens, treeVars, guardVars
<1>0. forwarded \in Signals
  BY DEF TypeOK, StageInv
<1>1. TypeOK'
  BY <1>0 DEF TypeOK
<1>2. TreeInv' /\ AcceptInv'
  BY SMTT(30) DEF TypeOK, TreeInv, AcceptInv, StageInv
<1>3. StageInv'
  BY DEF TypeOK, StageInv
<1>4. ConnInv'
  BY DEF TypeOK, StageInv, ConnInv
<1>5. ExitsLast' /\ GracefulExit'
  BY DEF TypeOK, StageInv, ExitsLast, Running, GracefulExit, CutOffNone
<1>6. CalmInv' /\ (Calm => StaysUp')
  BY DEF TypeOK, StageInv, CalmInv, StaysUp
<1>7. QED
  BY <1>1, <1>2, <1>3, <1>4, <1>5, <1>6

\* Every step keeps the invariant.
LEMMA NextInv == IInv /\ [Next]_vars => IInv'
<1> SUFFICES ASSUME IInv, [Next]_vars PROVE IInv'
  OBVIOUS
<1>1. CASE UNCHANGED vars
  BY <1>1 DEF IInv, TypeOK, TreeInv, StageInv, ConnInv, AcceptInv, CalmInv, StaysUp,
     ExitsLast, GracefulExit, CutOffNone, Running, vars, genVars, initVars,
     mainVars, treeVars, guardVars, procVars, connVars
<1>2. CASE Operator
  BY <1>2, OperatorInv DEF Operator
<1>3. CASE InitSteps
  BY <1>3, WaitInv, KillpgInv DEF InitSteps
<1>4. CASE GenSteps
  <2>1. ASSUME NEW g \in Gens, Process(g) PROVE IInv'
    BY <1>4, <2>1, StartInv, LoopInv, DrainInv DEF GenSteps, Process
  <2>2. ASSUME NEW g \in Gens, Tasks(g) PROVE IInv'
    BY <1>4, <2>2, TasksInv, DrainInv DEF GenSteps, Tasks
  <2>3. ASSUME NEW g \in Gens, NEW c \in Conns, Accept(g, c) \/ SessionEnds(g, c) PROVE IInv'
    BY <1>4, <2>3, TasksInv DEF GenSteps
  <2>4. QED
    BY <1>4, <2>1, <2>2, <2>3 DEF GenSteps, GenNext, GenWork
<1>5. QED
  BY <1>1, <1>2, <1>3, <1>4 DEF Next

\* For any number of processes, connections and signals and in both modes, the
\* process tree, the stages of a process, the counting of its sessions and the
\* state of its acceptor fit together in every state.
THEOREM GenerationsInvariant == Spec => []IInv
  BY InitInv, NextInv, PTL DEF Spec

\* td-init exits only when no generation runs any more, however the parents
\* before them went.
THEOREM TdInitExitsLast == Spec => []ExitsLast
<1>1. IInv => ExitsLast
  BY DEF IInv
<1>2. QED
  BY <1>1, GenerationsInvariant, PTL

\* A process that reports that it has drained has cut off no session that came
\* in through its acceptor.
THEOREM DrainIsGraceful == Spec => []GracefulExit
<1>1. IInv => GracefulExit
  BY DEF IInv
<1>2. QED
  BY <1>1, GenerationsInvariant, PTL

\* As long as signals are sent at quiet times and none asks to stop, some process
\* accepts or is about to.
THEOREM PortStaysUp ==
  ASSUME Calm
  PROVE  Spec => []StaysUp
<1>1. IInv => StaysUp
  BY DEF IInv
<1>2. QED
  BY <1>1, GenerationsInvariant, PTL
=============================================================================
