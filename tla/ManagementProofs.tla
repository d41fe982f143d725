-------------------------- MODULE ManagementProofs --------------------------
(***************************************************************************)
(* Management, for any number of requests, users, inbounds and processes:  *)
(* no core process is lost track of, no traffic is lost or counted twice,  *)
(* and the registries of users agree.                                      *)
(***************************************************************************)
EXTENDS CoreManager, Traffic, ShadowQuicInbound, FiniteSetTheorems, TLAPS

-----------------------------------------------------------------------------
(* The core manager *)

CmDos == {"none", "set", "start", "stop", "restart"}
CmPcs == {"idle", "port", "json", "check", "recheck", "take", "quit", "kill", "spawn", "keep"}
CmNames == CmPorts \cup {"default", "none"}

CmRequests == [do : CmDos, pc : CmPcs, child : Nat, port : CmNames]
CmChildren == [st : {"boot", "live", "dead"}, port : CmNames, asked : BOOLEAN]

CmTypeOK ==
    /\ cmPort \in CmNames /\ cmJson \in CmNames /\ cmFile \in CmNames
    /\ cmProc \in Nat /\ (cmProc # 0 => cmProc \in CmSpawned)
    /\ cmReq \in [CmReqs -> CmRequests]
    /\ cmCore \in [CmSpawned -> CmChildren]

\* Processes are numbered in the order they are spawned, so a new number is fresh.
CmFresh == Cardinality(CmSpawned) \in Nat /\ CmSpawned = 1 .. Cardinality(CmSpawned)

\* A request holds a child only between the steps that take it and give it up.
CmHolds == \A r \in CmReqs :
    cmReq[r].child # 0 => cmReq[r].pc \in {"quit", "kill", "keep"} /\ cmReq[r].child \in CmSpawned

CmInv == CmTypeOK /\ CmFresh /\ CmHolds /\ CmNoOrphan

\* The first state satisfies the invariant.
LEMMA CmInitInv == CmInit => CmInv
<1> SUFFICES ASSUME CmInit PROVE CmInv
  OBVIOUS
<1>1. CmSpawned = {}
  BY DEF CmInit, CmSpawned
<1>2. Cardinality(CmSpawned) = 0
  BY <1>1, FS_EmptySet
<1> QED
  BY <1>1, <1>2 DEF CmInit, CmInv, CmTypeOK, CmRequests, CmChildren, CmFresh, CmHolds, CmNoOrphan, CmIdle, CmDos, CmPcs, CmNames

\* Dropping a handle changes no process but that one, and that one is dead.
LEMMA CmDropped ==
  ASSUME CmTypeOK, NEW x, cmCore' = CmDrop({x})
  PROVE  /\ CmSpawned' = CmSpawned
         /\ cmCore' \in [CmSpawned -> CmChildren]
         /\ \A c \in CmSpawned : CmAlive(c)' => c # x /\ CmAlive(c)
  BY DEF CmDrop, CmSpawned, CmTypeOK, CmRequests, CmChildren, CmAlive

\* Steps that spawn nothing keep the numbering.
LEMMA CmStill == CmFresh /\ CmSpawned' = CmSpawned => CmFresh'
  BY DEF CmFresh

\* A request and what it sets or looks up.
LEMMA CmConfigInv ==
  ASSUME CmInv, NEW r \in CmReqs,
         \/ \E p \in CmPorts : CmBegin(r, "set", p)
         \/ \E do \in {"start", "stop", "restart"} : CmBegin(r, do, "none")
         \/ CmSetPort(r) \/ CmSetJson(r) \/ CmCheck(r) \/ CmRecheck(r) \/ CmNoConfig(r)
  PROVE  CmInv'
<1>1. CmSpawned' = CmSpawned /\ cmCore' = cmCore /\ cmProc' = cmProc
  BY DEF CmBegin, CmSetPort, CmSetJson, CmCheck, CmRecheck, CmNoConfig, CmSpawned
<1>2. CmTypeOK'
  BY <1>1 DEF CmInv, CmTypeOK, CmRequests, CmChildren, CmBegin, CmSetPort, CmSetJson, CmCheck, CmRecheck, CmNoConfig, cmConf,
              CmIdle, CmDos, CmPcs, CmNames
<1>3. \A s \in CmReqs : cmReq'[s].child = cmReq[s].child
  BY DEF CmInv, CmTypeOK, CmRequests, CmChildren, CmHolds, CmBegin, CmSetPort, CmSetJson, CmCheck, CmRecheck, CmNoConfig, CmIdle
<1>4. CmHolds'
  BY <1>1, <1>3 DEF CmInv, CmTypeOK, CmRequests, CmChildren, CmHolds, CmBegin, CmSetPort, CmSetJson, CmCheck, CmRecheck, CmNoConfig, CmIdle
<1>5. CmNoOrphan'
  BY <1>1, <1>3 DEF CmInv, CmNoOrphan, CmAlive
<1> QED
  BY <1>1, <1>2, <1>4, <1>5, CmStill DEF CmInv

\* stop: the child moves from the slot to the request, and dies before it is let go.
LEMMA CmStopInv ==
  ASSUME CmInv, NEW r \in CmReqs, CmTake(r) \/ CmQuit(r) \/ CmKill(r)
  PROVE  CmInv'
<1>1. CmSpawned' = CmSpawned
  BY DEF CmInv, CmTypeOK, CmRequests, CmChildren, CmTake, CmQuit, CmKill, CmSpawned
<1>2. cmReq[r] \in CmRequests /\ CmAfterStop(cmReq[r]) \in CmRequests
  BY DEF CmInv, CmTypeOK, CmRequests, CmChildren, CmAfterStop, CmIdle, CmDos, CmPcs, CmNames
<1>3. CmTypeOK'
  <2>1. cmReq' \in [CmReqs -> CmRequests]
    <3>1. [cmReq[r] EXCEPT !.pc = "quit", !.child = cmProc] \in CmRequests /\ [cmReq[r] EXCEPT !.pc = "kill"] \in CmRequests
      BY <1>2 DEF CmInv, CmTypeOK, CmRequests, CmChildren, CmPcs
    <3>2. \/ cmReq' = [cmReq EXCEPT ![r] = CmAfterStop(@)]
          \/ cmReq' = [cmReq EXCEPT ![r] = [@ EXCEPT !.pc = "quit", !.child = cmProc]]
          \/ cmReq' = [cmReq EXCEPT ![r] = [@ EXCEPT !.pc = "kill"]]
      BY <1>2 DEF CmInv, CmTypeOK, CmRequests, CmChildren, CmTake, CmQuit, CmKill
    <3> QED
      BY <1>2, <3>1, <3>2 DEF CmInv, CmTypeOK
  <2>2. cmCore' \in [CmSpawned -> CmChildren]
    <3>1. ASSUME NEW c \in CmSpawned
          PROVE  cmCore[c] \in CmChildren /\ [cmCore[c] EXCEPT !.asked = TRUE] \in CmChildren /\ [cmCore[c] EXCEPT !.st = "dead"] \in CmChildren
      BY DEF CmInv, CmTypeOK, CmRequests, CmChildren
    <3>2. cmCore = [c \in CmSpawned |-> cmCore[c]]
      BY DEF CmInv, CmTypeOK, CmRequests, CmChildren
    <3>3. cmCore' = [c \in CmSpawned |-> cmCore'[c]]
      BY <3>2 DEF CmTake, CmQuit, CmKill
    <3>4. ASSUME NEW c \in CmSpawned
          PROVE  \/ cmCore'[c] = cmCore[c]
                 \/ cmCore'[c] = [cmCore[c] EXCEPT !.asked = TRUE] 
                 \/ cmCore'[c] = [cmCore[c] EXCEPT !.st = "dead"]
      BY <3>2 DEF CmTake, CmQuit, CmKill
    <3> QED
      BY <3>1, <3>3, <3>4
  <2> QED
    BY <1>1, <2>1, <2>2 DEF CmInv, CmTypeOK, CmRequests, CmChildren, CmTake, CmQuit, CmKill, cmConf
<1>4. CASE CmTake(r)
  <2>1. /\ cmProc = 0 \/ ~CmAlive(cmProc) => cmReq' = [cmReq EXCEPT ![r] = CmAfterStop(@)]
        /\ cmProc # 0 /\ CmAlive(cmProc) => cmReq' = [cmReq EXCEPT ![r].pc = "quit", ![r].child = cmProc]
        /\ cmCore' = cmCore
    BY <1>4 DEF CmTake
  <2>2. cmReq[r].child = 0 /\ CmAfterStop(cmReq[r]).child = 0
    BY <1>4 DEF CmTake, CmInv, CmTypeOK, CmRequests, CmChildren, CmHolds, CmAfterStop, CmIdle
  <2>3. CmHolds'
    BY <1>1, <2>1, <2>2 DEF CmInv, CmTypeOK, CmRequests, CmChildren, CmHolds
  <2>4. CmNoOrphan'
    BY <1>1, <2>1, <2>2 DEF CmInv, CmTypeOK, CmRequests, CmChildren, CmNoOrphan, CmHolds, CmAlive
  <2> QED
    BY <1>1, <1>3, <2>3, <2>4, CmStill DEF CmInv
<1>5. CASE CmQuit(r)
  <2>1. CmHolds'
    BY <1>1, <1>5 DEF CmInv, CmTypeOK, CmRequests, CmChildren, CmHolds, CmQuit
  <2>2. CmNoOrphan'
    BY <1>1, <1>5 DEF CmInv, CmTypeOK, CmRequests, CmChildren, CmNoOrphan, CmQuit, CmAlive
  <2> QED
    BY <1>1, <1>3, <2>1, <2>2, CmStill DEF CmInv
<1>6. CASE CmKill(r)
  <2>1. CmAfterStop(cmReq[r]).child = 0
    BY <1>6 DEF CmInv, CmTypeOK, CmRequests, CmChildren, CmAfterStop, CmIdle
  <2>2. CmHolds'
    BY <1>1, <1>6, <2>1 DEF CmInv, CmTypeOK, CmRequests, CmChildren, CmHolds, CmKill
  <2>3. \A c \in CmSpawned : CmAlive(c)' => c # cmReq[r].child /\ CmAlive(c)
    BY <1>6 DEF CmInv, CmTypeOK, CmRequests, CmChildren, CmKill, CmAlive
  <2>4. CmNoOrphan'
    BY <1>1, <1>6, <2>3 DEF CmInv, CmTypeOK, CmRequests, CmChildren, CmNoOrphan, CmKill
  <2> QED
    BY <1>1, <1>3, <2>2, <2>4, CmStill DEF CmInv
<1> QED
  BY <1>4, <1>5, <1>6

\* start: a process that is spawned is held at once ...
LEMMA CmSpawnInv ==
  ASSUME CmInv, NEW r \in CmReqs, CmSpawn(r)
  PROVE  CmInv'
<1> DEFINE n == Cardinality(CmSpawned)
<1>1. n \in Nat /\ CmSpawned = 1 .. n
  BY DEF CmInv, CmFresh
<1>2. CASE cmReq' = [cmReq EXCEPT ![r] = CmIdle] /\ UNCHANGED cmCore
  <2>1. CmSpawned' = CmSpawned /\ cmProc' = cmProc
    BY <1>2 DEF CmSpawn, CmSpawned
  <2>2. CmTypeOK'
    BY <1>2, <2>1 DEF CmInv, CmTypeOK, CmRequests, CmChildren, CmSpawn, cmConf, CmIdle, CmDos, CmPcs, CmNames
  <2>3. CmHolds' /\ CmNoOrphan'
    BY <1>2, <2>1 DEF CmInv, CmTypeOK, CmRequests, CmChildren, CmHolds, CmNoOrphan, CmSpawn, CmIdle, CmAlive
  <2> QED
    BY <2>1, <2>2, <2>3, CmStill DEF CmInv
<1>3. CASE /\ cmCore' = [d \in CmSpawned \cup {n + 1} |->
                  IF d = n + 1 THEN [st |-> "boot", port |-> "none", asked |-> FALSE] ELSE cmCore[d]]
           /\ cmReq' = [cmReq EXCEPT ![r].pc = "keep", ![r].child = n + 1]
  <2>1. CmSpawned' = 1 .. (n + 1) /\ n + 1 \notin CmSpawned /\ cmProc' = cmProc /\ CmSpawned \subseteq CmSpawned'
    BY <1>1, <1>3 DEF CmSpawn, CmSpawned
  <2>2. Cardinality(CmSpawned') = n + 1
    BY <1>1, <2>1, FS_Interval
  <2>3. CmFresh'
    BY <1>1, <2>1, <2>2 DEF CmFresh
  <2>4. CmTypeOK'
    <3>1. cmCore' \in [CmSpawned' -> CmChildren]
      BY <1>1, <1>3, <2>1 DEF CmInv, CmTypeOK, CmRequests, CmChildren, CmSpawned, CmNames
    <3>2. cmReq' \in [CmReqs -> CmRequests]
      <4>1. [cmReq[r] EXCEPT !.pc = "keep", !.child = n + 1] \in CmRequests
        <5>1. ASSUME NEW q \in CmRequests, NEW m \in Nat
              PROVE  [q EXCEPT !.pc = "keep", !.child = m] \in CmRequests
          BY DEF CmRequests, CmPcs
        <5>2. cmReq[r] \in CmRequests /\ n + 1 \in Nat
          BY <1>1 DEF CmInv, CmTypeOK
        <5> QED
          BY <5>1, <5>2
      <4>2. cmReq' = [cmReq EXCEPT ![r] = [@ EXCEPT !.pc = "keep", !.child = n + 1]]
        BY <1>3
      <4> QED
        BY <4>1, <4>2 DEF CmInv, CmTypeOK
    <3>3. cmFile' \in CmNames /\ UNCHANGED <<cmPort, cmJson>>
      BY DEF CmInv, CmTypeOK, CmSpawn, cmConf, CmNames
    <3> QED
      BY <2>1, <3>1, <3>2, <3>3 DEF CmInv, CmTypeOK
  <2>5. CmHolds'
    <3> SUFFICES ASSUME NEW s \in CmReqs, cmReq'[s].child # 0
                 PROVE  cmReq'[s].pc \in {"quit", "kill", "keep"} /\ cmReq'[s].child \in CmSpawned'
      BY DEF CmHolds
    <3>1. CASE s = r
      BY <1>1, <1>3, <2>1, <3>1 DEF CmInv, CmTypeOK, CmRequests, CmChildren
    <3>2. CASE s # r
      BY <1>3, <2>1, <3>2 DEF CmInv, CmTypeOK, CmRequests, CmChildren, CmHolds
    <3> QED
      BY <3>1, <3>2
  <2>6. \A s \in CmReqs : cmReq[s].child # 0 => cmReq'[s].child = cmReq[s].child
    BY <1>3 DEF CmInv, CmTypeOK, CmRequests, CmChildren, CmHolds, CmSpawn
  <2>7. ASSUME NEW c \in CmSpawned', CmAlive(c)'
        PROVE  c = cmProc' \/ \E s \in CmReqs : cmReq'[s].child = c
    <3>1. CASE c = n + 1
      BY <1>3, <3>1 DEF CmInv, CmTypeOK, CmRequests, CmChildren
    <3>2. CASE c # n + 1
      <4>1. c \in CmSpawned /\ c # 0 /\ CmAlive(c)
        BY <1>1, <1>3, <2>1, <2>7, <3>2 DEF CmAlive
      <4> QED
        BY <2>1, <2>6, <4>1 DEF CmInv, CmNoOrphan
    <3> QED
      BY <3>1, <3>2
  <2> QED
    BY <2>3, <2>4, <2>5, <2>7 DEF CmInv, CmNoOrphan
<1> QED
  BY <1>2, <1>3 DEF CmSpawn

\* ... and kept in the slot, from where the one before it is dropped.
LEMMA CmKeepInv ==
  ASSUME CmInv, NEW r \in CmReqs, CmKeep(r)
  PROVE  CmInv'
<1>1. /\ CmSpawned' = CmSpawned
      /\ cmCore' \in [CmSpawned -> CmChildren]
      /\ \A c \in CmSpawned : CmAlive(c)' => c # cmProc /\ CmAlive(c)
  BY CmDropped DEF CmInv, CmKeep
<1>2. CmTypeOK'
  BY <1>1 DEF CmInv, CmTypeOK, CmRequests, CmChildren, CmHolds, CmKeep, cmConf, CmIdle, CmDos, CmPcs, CmNames
<1>3. CmHolds'
  BY <1>1 DEF CmInv, CmTypeOK, CmRequests, CmChildren, CmHolds, CmKeep, CmIdle
<1>4. CmNoOrphan'
  BY <1>1 DEF CmInv, CmTypeOK, CmRequests, CmChildren, CmNoOrphan, CmKeep, CmIdle
<1> QED
  BY <1>1, <1>2, <1>3, <1>4, CmStill DEF CmInv

\* A cancelled request takes the child it holds with it.
LEMMA CmCancelInv ==
  ASSUME CmInv, NEW r \in CmReqs, CmCancel(r)
  PROVE  CmInv'
<1>1. /\ CmSpawned' = CmSpawned
      /\ cmCore' \in [CmSpawned -> CmChildren]
      /\ \A c \in CmSpawned : CmAlive(c)' => c # cmReq[r].child /\ CmAlive(c)
  BY CmDropped DEF CmInv, CmCancel
<1>2. CmTypeOK'
  BY <1>1 DEF CmInv, CmTypeOK, CmRequests, CmChildren, CmCancel, cmConf, CmIdle, CmDos, CmPcs, CmNames
<1>3. CmHolds'
  BY <1>1 DEF CmInv, CmTypeOK, CmRequests, CmChildren, CmHolds, CmCancel, CmIdle
<1>4. CmNoOrphan'
  BY <1>1 DEF CmInv, CmTypeOK, CmRequests, CmChildren, CmNoOrphan, CmCancel, CmIdle
<1> QED
  BY <1>1, <1>2, <1>3, <1>4, CmStill DEF CmInv

\* A core boots or exits.
LEMMA CmChildInv ==
  ASSUME CmInv, NEW c \in CmIds, CmBoot(c) \/ CmExit(c)
  PROVE  CmInv'
<1>1. CmSpawned' = CmSpawned /\ cmReq' = cmReq /\ cmProc' = cmProc
  BY DEF CmBoot, CmExit, CmSpawned
<1>2. CmTypeOK'
  BY <1>1 DEF CmInv, CmTypeOK, CmRequests, CmChildren, CmBoot, CmExit, cmConf, CmNames
<1>3. \A d \in CmSpawned : CmAlive(d)' => CmAlive(d)
  BY DEF CmInv, CmTypeOK, CmRequests, CmChildren, CmBoot, CmExit, CmAlive
<1> QED
  BY <1>1, <1>2, <1>3, CmStill DEF CmInv, CmHolds, CmNoOrphan

\* Every core that runs is in the slot or in the hands of a request that will stop
\* it or put it there, whatever starts, stops and cancellations interleave.
THEOREM CmSafe == CmSpec => []CmNoOrphan
<1>1. CmInit => CmInv
  BY CmInitInv
<1>2. CmInv /\ [CmNext]_cmVars => CmInv'
  <2> SUFFICES ASSUME CmInv, [CmNext]_cmVars PROVE CmInv'
    OBVIOUS
  <2>1. CASE UNCHANGED cmVars
    BY <2>1 DEF cmVars, CmInv, CmTypeOK, CmRequests, CmChildren, CmFresh, CmHolds, CmNoOrphan, CmSpawned, CmAlive
  <2>2. ASSUME NEW r \in CmReqs, CmStep(r) PROVE CmInv'
    BY <2>2, CmConfigInv, CmStopInv, CmSpawnInv, CmKeepInv DEF CmStep
  <2> QED
    BY <2>1, <2>2, CmConfigInv, CmCancelInv, CmChildInv DEF CmNext
<1>3. CmInv => CmNoOrphan
  BY DEF CmInv
<1> QED
  BY <1>1, <1>2, <1>3, PTL DEF CmSpec

-----------------------------------------------------------------------------
(* Traffic per destination *)

TrBytes == [TrDsts -> SUBSET TrConns]
TrJobs == [pc : {"open", "closed", "start", "take", "done"}, keys : SUBSET TrDsts,
           taken : TrBytes, seen : SUBSET TrConns]

TrTypeOK ==
    /\ trMap \in TrBytes /\ trTable \in TrBytes /\ trOut \subseteq TrConns /\ trLost \subseteq TrConns
    /\ trJob \in [TrConns \cup TrApi -> TrJobs]

\* What a count holds is of its own destination.
TrOwned(f) == \A d \in TrDsts : \A c \in f[d] : TrDst[c] = d
TrAllOwned == TrOwned(trMap) /\ TrOwned(trTable) /\ \A t \in TrConns \cup TrApi : TrOwned(trJob[t].taken)

\* Only the holder of dst_traffic_flush takes, and only a batch on its way holds anything.
TrLocked == \A t \in TrConns \cup TrApi :
    /\ trLock = t <=> trJob[t].pc = "take"
    /\ trLock # t => trJob[t].taken = TrEmpty

\* What a drain has to return is out, lost, in its batch, or in the map under a key it
\* has still to take.
TrDraining == \A t \in TrApi : \A c \in trJob[t].seen :
    \/ c \in trOut \cup trLost
    \/ /\ trJob[t].pc = "take"
       /\ \/ c \in trJob[t].taken[TrDst[c]]
          \/ c \in trMap[TrDst[c]] /\ TrDst[c] \in trJob[t].keys

\* A connection's bytes, once it is closed, are in exactly one place.
TrIn(c, p) == CASE p = "map" -> c \in trMap[TrDst[c]]
                [] p = "table" -> c \in trTable[TrDst[c]]
                [] p = "out" -> c \in trOut
                [] p = "lost" -> c \in trLost
                [] OTHER -> c \in trJob[p].taken[TrDst[c]]
TrNames == {"map", "table", "out", "lost"} \cup TrConns \cup TrApi
TrOnce == \A c \in TrConns :
    /\ c \in TrClosed <=> \E p \in TrNames : TrIn(c, p)
    /\ \A p, q \in TrNames : p # q => ~(TrIn(c, p) /\ TrIn(c, q))

TrInv == TrTypeOK /\ TrAllOwned /\ TrLocked /\ TrDraining /\ TrOnce

\* TrDst maps connections to the destinations the counts have.
LEMMA TrDstIn == \A c \in TrConns : TrDst[c] \in TrDsts
  BY DEF TrDsts

\* What a count holds altogether, seen from one connection.
LEMMA TrAllIn ==
  ASSUME NEW f \in TrBytes, TrOwned(f), NEW c \in TrConns
  PROVE  c \in TrAll(f) <=> c \in f[TrDst[c]]
  BY TrDstIn DEF TrBytes, TrOwned, TrAll

\* An empty count.
LEMMA TrNothing == TrEmpty \in TrBytes /\ TrOwned(TrEmpty) /\ \A c \in TrConns : c \notin TrEmpty[TrDst[c]]
  BY TrDstIn DEF TrEmpty, TrBytes, TrOwned

\* The names of the places are different.
LEMMA TrNamesDiffer ==
  /\ \A t \in TrConns \cup TrApi : t \notin {"free", "map", "table", "out", "lost"} /\ t \in TrNames
  /\ {"map", "table", "out", "lost"} \subseteq TrNames
  BY TrNamesAssumption DEF TrNames

\* Bytes that move from one place to another are still in one place.
LEMMA TrMoved ==
  ASSUME TrOnce, TrClosed' = TrClosed, NEW a \in TrNames, NEW b \in TrNames, a # b, NEW S,
         \A c \in TrConns : \A p \in TrNames :
            TrIn(c, p)' <=> IF c \in S /\ p = a THEN FALSE
                            ELSE IF c \in S /\ p = b THEN TrIn(c, a) \/ TrIn(c, b)
                            ELSE TrIn(c, p)
  PROVE  TrOnce'
<1>1. ASSUME NEW c \in TrConns
      PROVE  /\ c \in TrClosed' <=> \E p \in TrNames : TrIn(c, p)'
             /\ \A p, q \in TrNames : p # q => ~(TrIn(c, p)' /\ TrIn(c, q)')
  BY DEF TrOnce
<1> QED
  BY <1>1 DEF TrOnce, TrNames

\* Bytes that do not move stay in one place.
LEMMA TrUnmoved ==
  ASSUME TrOnce, TrClosed' = TrClosed, \A c \in TrConns : \A p \in TrNames : TrIn(c, p)' <=> TrIn(c, p)
  PROVE  TrOnce'
<1>1. ASSUME NEW c \in TrConns
      PROVE  /\ c \in TrClosed' <=> \E p \in TrNames : TrIn(c, p)'
             /\ \A p, q \in TrNames : p # q => ~(TrIn(c, p)' /\ TrIn(c, q)')
  BY DEF TrOnce
<1> QED
  BY <1>1 DEF TrOnce, TrNames

\* The first state satisfies the invariant.
LEMMA TrInitInv == TrInit => TrInv
<1> SUFFICES ASSUME TrInit PROVE TrInv
  OBVIOUS
<1>1. TrTypeOK /\ TrAllOwned
  BY TrNothing DEF TrInit, TrTypeOK, TrAllOwned, TrJobs
<1>2. TrLocked /\ TrDraining
  BY TrNamesDiffer, TrNamesAssumption DEF TrInit, TrLocked, TrDraining
<1>3. \A c \in TrConns : c \notin TrClosed
  BY DEF TrInit, TrClosed
<1>4. \A c \in TrConns : \A p \in TrNames : ~TrIn(c, p)
  BY TrNothing, TrNamesDiffer DEF TrInit, TrIn, TrNames
<1> QED
  BY <1>1, <1>2, <1>3, <1>4 DEF TrInv, TrOnce

\* A connection closes: its bytes are in the map.
LEMMA TrCloseInv ==
  ASSUME TrInv, NEW x \in TrConns, TrClose(x)
  PROVE  TrInv'
<1>1. TrDst[x] \in TrDsts /\ x \notin TrClosed /\ trJob[x].pc = "open"
  BY TrDstIn DEF TrClose, TrClosed
<1>2. TrTypeOK'
  BY <1>1 DEF TrInv, TrTypeOK, TrBytes, TrJobs, TrClose
<1>3. TrAllOwned'
  BY <1>1 DEF TrInv, TrTypeOK, TrBytes, TrJobs, TrAllOwned, TrOwned, TrClose
<1>4. TrLocked'
  BY <1>1 DEF TrInv, TrTypeOK, TrJobs, TrLocked, TrClose
<1>5. TrDraining'
  BY <1>1, TrDstIn, TrNamesAssumption DEF TrInv, TrTypeOK, TrBytes, TrJobs, TrDraining, TrClose
<1>6. TrOnce'
  <2>1. \A c \in TrConns : c \in TrClosed' <=> c \in TrClosed \/ c = x
    BY DEF TrInv, TrTypeOK, TrJobs, TrClosed, TrClose
  <2>2. \A c \in TrConns : \A p \in TrNames : TrIn(c, p)' <=> TrIn(c, p) \/ (c = x /\ p = "map")
    BY <1>1, TrDstIn, TrNamesDiffer DEF TrInv, TrTypeOK, TrBytes, TrJobs, TrIn, TrNames, TrClose
  <2>3. \A p \in TrNames : ~TrIn(x, p)
    BY <1>1 DEF TrInv, TrOnce
  <2>4. ASSUME NEW c \in TrConns
        PROVE  /\ c \in TrClosed' <=> \E p \in TrNames : TrIn(c, p)'
               /\ \A p, q \in TrNames : p # q => ~(TrIn(c, p)' /\ TrIn(c, q)')
    BY <2>1, <2>2, <2>3, TrNamesDiffer DEF TrInv, TrOnce
  <2> QED
    BY <2>4 DEF TrOnce, TrNames
<1> QED
  BY <1>2, <1>3, <1>4, <1>5, <1>6 DEF TrInv

\* A flush takes the lock, or there is nothing to do; no bytes move.
LEMMA TrFlushInv ==
  ASSUME TrInv, NEW x \in TrConns, TrFlush(x)
  PROVE  TrInv'
<1>1. TrKeys \subseteq TrDsts /\ trJob[x].pc = "closed" /\ trLock # x
  BY DEF TrFlush, TrKeys, TrInv, TrLocked
<1>2. TrTypeOK'
  BY <1>1 DEF TrInv, TrTypeOK, TrJobs, TrFlush
<1>3. /\ trMap' = trMap /\ trTable' = trTable /\ trOut' = trOut /\ trLost' = trLost
      /\ \A t \in TrConns \cup TrApi : trJob'[t].taken = trJob[t].taken /\ trJob'[t].seen = trJob[t].seen
      /\ \A t \in TrApi : trJob'[t] = trJob[t]
  BY TrNamesAssumption DEF TrInv, TrTypeOK, TrJobs, TrFlush
<1>4. TrAllOwned'
  BY <1>3 DEF TrInv, TrAllOwned, TrOwned
<1>5. TrLocked'
  BY <1>1, <1>3, TrNamesDiffer DEF TrInv, TrTypeOK, TrJobs, TrLocked, TrFlush
<1>6. TrDraining'
  BY <1>3 DEF TrInv, TrDraining
<1>7. TrOnce'
  <2>1. TrClosed' = TrClosed
    BY DEF TrInv, TrTypeOK, TrJobs, TrClosed, TrFlush
  <2>2. \A c \in TrConns : \A p \in TrNames : TrIn(c, p)' <=> TrIn(c, p)
    BY <1>3 DEF TrIn, TrNames
  <2> QED
    BY <2>1, <2>2, TrUnmoved DEF TrInv
<1> QED
  BY <1>2, <1>4, <1>5, <1>6, <1>7 DEF TrInv

\* A drain takes the lock, and the table if it can read it.
LEMMA TrDrainInv ==
  ASSUME TrInv, NEW x \in TrApi, TrDrain(x)
  PROVE  TrInv'
<1>1. /\ TrKeys \subseteq TrDsts /\ TrClosed \subseteq TrConns /\ trLock = "free" /\ trLock # x
      /\ x \notin TrConns /\ trJob[x].taken = TrEmpty
      /\ \A t \in TrConns \cup TrApi : trJob[t].pc # "take" /\ trJob[t].taken = TrEmpty
  BY TrNamesDiffer, TrNamesAssumption DEF TrDrain, TrKeys, TrClosed, TrInv, TrLocked
<1>2. \A c \in TrConns : c \in TrClosed => c \in trTable[TrDst[c]] \/ c \in trMap[TrDst[c]] \/ c \in trOut \cup trLost
  BY <1>1, TrNothing DEF TrInv, TrOnce, TrIn, TrNames
<1>3. \A c \in TrConns : c \in trMap[TrDst[c]] => TrDst[c] \in TrKeys
  BY TrDstIn DEF TrKeys
<1>4. TrClosed' = TrClosed
  BY <1>1 DEF TrInv, TrTypeOK, TrClosed, TrDrain
<1>5. CASE /\ trTable' = TrEmpty
           /\ trJob' = [trJob EXCEPT ![x] = [pc |-> "take", keys |-> TrKeys, taken |-> trTable, seen |-> TrClosed]]
  <2>1. TrTypeOK'
    BY <1>1, <1>5, TrNothing DEF TrInv, TrTypeOK, TrJobs, TrDrain
  <2>2. TrAllOwned'
    BY <1>5, TrNothing DEF TrInv, TrTypeOK, TrAllOwned, TrDrain
  <2>3. TrLocked'
    BY <1>1, <1>5 DEF TrInv, TrTypeOK, TrLocked, TrDrain
  <2>4. TrDraining'
    BY <1>1, <1>2, <1>3, <1>5 DEF TrInv, TrTypeOK, TrDraining, TrDrain
  <2>5. \A c \in TrConns : \A p \in TrNames :
          TrIn(c, p)' <=> IF p = "table" THEN FALSE
                          ELSE IF p = x THEN TrIn(c, "table") \/ TrIn(c, x) ELSE TrIn(c, p)
    BY <1>1, <1>5, TrNothing, TrNamesDiffer DEF TrInv, TrTypeOK, TrIn, TrNames, TrDrain
  <2>6. TrOnce'
    BY <1>4, <2>5, TrNamesDiffer, TrMoved DEF TrInv
  <2> QED
    BY <2>1, <2>2, <2>3, <2>4, <2>6 DEF TrInv
<1>6. CASE /\ trTable' = trTable
           /\ trJob' = [trJob EXCEPT ![x] = [pc |-> "take", keys |-> TrKeys, taken |-> TrEmpty,
                                             seen |-> TrClosed \ TrAll(trTable)]]
  <2>1. TrTypeOK'
    BY <1>1, <1>6, TrNothing DEF TrInv, TrTypeOK, TrJobs, TrDrain
  <2>2. TrAllOwned'
    BY <1>6, TrNothing DEF TrInv, TrTypeOK, TrAllOwned, TrDrain
  <2>3. TrLocked'
    BY <1>1, <1>6 DEF TrInv, TrTypeOK, TrLocked, TrDrain
  <2>4. \A c \in TrClosed \ TrAll(trTable) : c \notin trTable[TrDst[c]]
    BY <1>1, TrAllIn DEF TrInv, TrTypeOK, TrAllOwned
  <2>5. TrDraining'
    BY <1>1, <1>2, <1>3, <1>6, <2>4 DEF TrInv, TrTypeOK, TrDraining, TrDrain
  <2>6. \A c \in TrConns : \A p \in TrNames : TrIn(c, p)' <=> TrIn(c, p)
    BY <1>1, <1>6, TrNamesDiffer DEF TrInv, TrTypeOK, TrIn, TrNames, TrDrain
  <2>7. TrOnce'
    BY <1>4, <2>6, TrUnmoved DEF TrInv
  <2> QED
    BY <2>1, <2>2, <2>3, <2>5, <2>7 DEF TrInv
<1> QED
  BY <1>5, <1>6 DEF TrDrain

\* A key is taken: its bytes move from the map to the batch.
LEMMA TrTakeInv ==
  ASSUME TrInv, NEW x \in TrConns \cup TrApi, TrTake(x)
  PROVE  TrInv'
<1>1. PICK d \in trJob[x].keys :
         /\ trJob' = [trJob EXCEPT ![x].keys = @ \ {d}, ![x].taken = [trJob[x].taken EXCEPT ![d] = @ \cup trMap[d]]]
         /\ trMap' = [trMap EXCEPT ![d] = {}]
  BY DEF TrTake
<1>2. d \in TrDsts /\ trLock = x /\ trJob[x].pc = "take" /\ trLock' = x
  BY DEF TrInv, TrTypeOK, TrJobs, TrTake, TrLocked
<1>3. /\ trJob'[x] = [trJob[x] EXCEPT !.keys = trJob[x].keys \ {d}, !.taken = [trJob[x].taken EXCEPT ![d] = @ \cup trMap[d]]]
      /\ \A t \in TrConns \cup TrApi : t # x => trJob'[t] = trJob[t]
      /\ trJob' = [t \in TrConns \cup TrApi |-> trJob'[t]]
  <2>1. trJob = [t \in TrConns \cup TrApi |-> trJob[t]]
    BY DEF TrInv, TrTypeOK
  <2> QED
    BY <1>1, <2>1
<1>4. /\ trJob'[x].pc = "take" /\ trJob'[x].keys = trJob[x].keys \ {d} /\ trJob'[x].seen = trJob[x].seen
      /\ trJob'[x].taken = [trJob[x].taken EXCEPT ![d] = @ \cup trMap[d]] /\ trJob'[x].taken \in TrBytes
      /\ trJob'[x] \in TrJobs
  <2>1. trJob[x] \in TrJobs /\ trJob[x].taken \in TrBytes /\ trMap \in TrBytes
    BY DEF TrInv, TrTypeOK, TrJobs
  <2>2. [trJob[x].taken EXCEPT ![d] = @ \cup trMap[d]] \in TrBytes
    BY <1>2, <2>1 DEF TrBytes
  <2> DEFINE k == trJob[x].keys \ {d}
             b == [trJob[x].taken EXCEPT ![d] = @ \cup trMap[d]]
  <2>3. k \in SUBSET TrDsts /\ b \in TrBytes
    BY <2>1, <2>2 DEF TrJobs
  <2>4. trJob'[x] = [trJob[x] EXCEPT !.keys = k, !.taken = b]
    BY <1>3
  <2>5. trJob'[x] \in TrJobs /\ trJob'[x].pc = trJob[x].pc /\ trJob'[x].keys = k /\ trJob'[x].taken = b /\ b \in TrBytes
        /\ trJob'[x].seen = trJob[x].seen
    <3> HIDE DEF k, b
    <3>1. trJob'[x] \in TrJobs
      BY <2>1, <2>3, <2>4 DEF TrJobs
    <3>2. trJob'[x].pc = trJob[x].pc /\ trJob'[x].keys = k /\ trJob'[x].taken = b /\ trJob'[x].seen = trJob[x].seen
      BY <2>1, <2>4 DEF TrJobs
    <3> QED
      BY <2>3, <3>1, <3>2
  <2> QED
    BY <1>2, <2>5
<1>5. TrTypeOK'
  BY <1>1, <1>2, <1>3, <1>4 DEF TrInv, TrTypeOK, TrBytes, TrTake
<1>6. TrAllOwned'
  BY <1>1, <1>2, <1>3, <1>4 DEF TrInv, TrTypeOK, TrJobs, TrBytes, TrAllOwned, TrOwned, TrTake
<1>7. TrLocked'
  BY <1>2, <1>3, <1>4 DEF TrInv, TrLocked
<1>8. TrDraining'
  <2> SUFFICES ASSUME NEW t \in TrApi, NEW c \in trJob'[t].seen
               PROVE  \/ c \in trOut \cup trLost
                      \/ /\ trJob'[t].pc = "take"
                         /\ \/ c \in trJob'[t].taken[TrDst[c]]
                            \/ c \in trMap'[TrDst[c]] /\ TrDst[c] \in trJob'[t].keys
    BY DEF TrDraining, TrTake
  <2>1. c \in trJob[t].seen /\ c \in TrConns /\ TrDst[c] \in TrDsts
    <3>1. trJob'[t].seen = trJob[t].seen
      BY <1>3, <1>4
    <3>2. trJob[t] \in TrJobs
      BY DEF TrInv, TrTypeOK
    <3> QED
      BY <3>1, <3>2, TrDstIn DEF TrJobs
  <2>2. CASE t = x
    BY <1>1, <1>2, <1>4, <2>1, <2>2 DEF TrInv, TrTypeOK, TrJobs, TrBytes, TrDraining
  <2>3. CASE t # x
    BY <1>2, <1>3, <2>1, <2>3 DEF TrInv, TrLocked, TrDraining
  <2> QED
    BY <2>2, <2>3
<1>9. TrOnce'
  <2>1. TrClosed' = TrClosed
    BY <1>2, <1>3, <1>4 DEF TrClosed
  <2> DEFINE S == {c \in TrConns : TrDst[c] = d}
  <2>2. \A c \in TrConns : \A p \in TrNames :
          TrIn(c, p)' <=> IF c \in S /\ p = "map" THEN FALSE
                          ELSE IF c \in S /\ p = x THEN TrIn(c, "map") \/ TrIn(c, x) ELSE TrIn(c, p)
    BY <1>1, <1>2, <1>3, <1>4, TrDstIn, TrNamesDiffer DEF TrInv, TrTypeOK, TrJobs, TrBytes, TrIn, TrNames, TrTake
  <2>3. "map" \in TrNames /\ x \in TrNames /\ x # "map"
    BY TrNamesDiffer
  <2> HIDE DEF S
  <2> QED
    BY <2>1, <2>2, <2>3, TrMoved DEF TrInv
<1> QED
  BY <1>5, <1>6, <1>7, <1>8, <1>9 DEF TrInv

\* A batch is merged into the table, lost, or returned: its bytes move there.
LEMMA TrEndInv ==
  ASSUME TrInv, NEW x \in TrConns \cup TrApi, TrMerge(x) \/ TrReturn(x)
  PROVE  TrInv'
<1>1. /\ trLock = x /\ trLock' = "free" /\ trMap' = trMap /\ trJob[x].pc = "take" /\ trJob[x].keys = {}
      /\ trJob' = [trJob EXCEPT ![x].pc = "done", ![x].taken = TrEmpty]
      /\ \A t \in TrConns \cup TrApi : t # "free"
      /\ trTable \in TrBytes /\ trJob[x] \in TrJobs /\ trJob[x].taken \in TrBytes
  BY TrNamesDiffer DEF TrMerge, TrReturn, TrReleased, TrInv, TrLocked, TrTypeOK, TrJobs
<1>2. /\ trJob'[x].pc = "done" /\ trJob'[x].taken = TrEmpty /\ trJob'[x].seen = trJob[x].seen /\ trJob'[x] \in TrJobs
      /\ trJob' \in [TrConns \cup TrApi -> TrJobs]
      /\ \A t \in TrConns \cup TrApi : t # x => trJob'[t] = trJob[t]
  BY <1>1, TrNothing DEF TrInv, TrTypeOK, TrJobs
<1> DEFINE Batch == TrAll(trJob[x].taken)
<1>3. \A c \in TrConns : c \in Batch <=> c \in trJob[x].taken[TrDst[c]]
  BY <1>1, TrAllIn DEF TrInv, TrAllOwned
<1>4. Batch \subseteq TrConns
  BY <1>1 DEF TrAll, TrBytes
<1>5. \/ trTable' = TrAbsorb(trTable, trJob[x].taken) /\ trLost' = trLost /\ trOut' = trOut /\ x \in TrConns
      \/ trTable' = trTable /\ trLost' = trLost \cup Batch /\ trOut' = trOut /\ x \in TrConns
      \/ trTable' = trTable /\ trLost' = trLost /\ trOut' = trOut \cup Batch /\ x \in TrApi
  BY DEF TrMerge, TrReturn
<1> HIDE DEF Batch
<1>6. TrAbsorb(trTable, trJob[x].taken) \in TrBytes /\ TrOwned(TrAbsorb(trTable, trJob[x].taken))
  BY <1>1 DEF TrAbsorb, TrInv, TrAllOwned, TrOwned, TrBytes
<1>7. TrTypeOK'
  BY <1>1, <1>2, <1>4, <1>5, <1>6 DEF TrInv, TrTypeOK
<1>8. TrAllOwned'
  BY <1>1, <1>2, <1>5, <1>6, TrNothing DEF TrInv, TrAllOwned, TrOwned
<1>9. TrLocked'
  BY <1>1, <1>2 DEF TrInv, TrLocked
<1>10. TrDraining'
  <2> SUFFICES ASSUME NEW t \in TrApi, NEW c \in trJob'[t].seen
               PROVE  \/ c \in trOut' \cup trLost'
                      \/ /\ trJob'[t].pc = "take"
                         /\ \/ c \in trJob'[t].taken[TrDst[c]]
                            \/ c \in trMap'[TrDst[c]] /\ TrDst[c] \in trJob'[t].keys
    BY DEF TrDraining
  <2>1. c \in trJob[t].seen /\ c \in TrConns
    <3>1. trJob'[t].seen = trJob[t].seen
      BY <1>2
    <3>2. trJob[t] \in TrJobs
      BY DEF TrInv, TrTypeOK
    <3> QED
      BY <3>1, <3>2 DEF TrJobs
  <2>2. trOut \subseteq trOut' /\ trLost \subseteq trLost'
    BY <1>5
  <2>3. CASE t = x
    <3>1. trOut' = trOut \cup Batch
      BY <1>5, <2>3, TrNamesAssumption
    <3>2. c \in trOut \cup trLost \/ c \in trJob[x].taken[TrDst[c]]
      BY <1>1, <2>1, <2>3 DEF TrInv, TrDraining
    <3> QED
      BY <1>3, <2>1, <2>2, <3>1, <3>2
  <2>4. CASE t # x
    BY <1>1, <1>2, <2>1, <2>2, <2>4 DEF TrInv, TrLocked, TrDraining
  <2> QED
    BY <2>3, <2>4
<1>11. TrOnce'
  <2>1. TrClosed' = TrClosed
    BY <1>1, <1>2 DEF TrClosed
  <2>2. ASSUME NEW b \in {"table", "lost", "out"},
               \/ b = "table" /\ trTable' = TrAbsorb(trTable, trJob[x].taken) /\ trLost' = trLost /\ trOut' = trOut
               \/ b = "lost" /\ trTable' = trTable /\ trLost' = trLost \cup Batch /\ trOut' = trOut
               \/ b = "out" /\ trTable' = trTable /\ trLost' = trLost /\ trOut' = trOut \cup Batch
        PROVE  TrOnce'
    <3>1. ASSUME NEW c \in TrConns
          PROVE  /\ c \in TrAbsorb(trTable, trJob[x].taken)[TrDst[c]] <=>
                       c \in trTable[TrDst[c]] \/ c \in trJob[x].taken[TrDst[c]]
                 /\ c \notin trJob'[x].taken[TrDst[c]]
      BY <1>2, TrNothing, TrDstIn DEF TrAbsorb
    <3>2. b \in TrNames /\ x \in TrNames /\ x # b /\ x \notin {"map", "table", "out", "lost"}
      BY TrNamesDiffer
    <3>3. \A c \in TrConns : \A p \in TrNames :
            TrIn(c, p)' <=> IF p = x THEN FALSE
                            ELSE IF p = b THEN TrIn(c, x) \/ TrIn(c, b) ELSE TrIn(c, p)
      BY <1>1, <1>2, <1>3, <2>2, <3>1, <3>2 DEF TrIn, TrNames
    <3>4. \A c \in TrConns : \A p \in TrNames :
            TrIn(c, p)' <=> IF c \in TrConns /\ p = x THEN FALSE
                            ELSE IF c \in TrConns /\ p = b THEN TrIn(c, x) \/ TrIn(c, b) ELSE TrIn(c, p)
      BY <3>3
    <3> QED
      BY <2>1, <3>2, <3>4, TrMoved DEF TrInv
  <2> QED
    BY <1>5, <2>2
<1> QED
  BY <1>7, <1>8, <1>9, <1>10, <1>11 DEF TrInv

\* The invariant says what TrSound says of the whole counts.
LEMMA TrInvSound == TrInv => TrSound
<1> SUFFICES ASSUME TrInv PROVE TrSound
  OBVIOUS
<1>1. TrDrainComplete
  BY DEF TrInv, TrDraining, TrDrainComplete
<1>2. ASSUME NEW c \in TrConns
      PROVE  /\ c \in TrAll(trMap) <=> TrIn(c, "map")
             /\ c \in TrAll(trTable) <=> TrIn(c, "table")
             /\ c \in trOut <=> TrIn(c, "out")
             /\ c \in trLost <=> TrIn(c, "lost")
             /\ \A t \in TrConns \cup TrApi : c \in TrAll(trJob[t].taken) <=> TrIn(c, t)
  <2>1. \A t \in TrConns \cup TrApi : trJob[t].taken \in TrBytes
    BY DEF TrInv, TrTypeOK, TrJobs
  <2> QED
    BY <2>1, TrAllIn, TrNamesDiffer DEF TrInv, TrTypeOK, TrAllOwned, TrIn
<1>3. \A p \in TrPlaces : p[1] \in TrNames /\ \A c \in TrConns : c \in p[2] <=> TrIn(c, p[1])
  BY <1>2 DEF TrPlaces, TrNames
<1>4. ASSUME NEW n \in TrNames PROVE \E p \in TrPlaces : p[1] = n
  <2>1. CASE n \in TrConns \cup TrApi
    <3>1. <<n, TrAll(trJob[n].taken)>> \in TrPlaces
      BY <2>1 DEF TrPlaces
    <3> QED
      BY <3>1
  <2>2. CASE n \in {"map", "table", "out", "lost"}
    <3>1. /\ <<"map", TrAll(trMap)>> \in TrPlaces /\ <<"table", TrAll(trTable)>> \in TrPlaces
          /\ <<"out", trOut>> \in TrPlaces /\ <<"lost", trLost>> \in TrPlaces
      BY DEF TrPlaces
    <3> QED
      BY <2>2, <3>1
  <2> QED
    BY <2>1, <2>2 DEF TrNames
<1>5. \A p \in TrPlaces : p[2] \subseteq TrConns
  <2>1. \A f \in TrBytes : TrAll(f) \subseteq TrConns
    BY DEF TrAll, TrBytes
  <2>2. \A t \in TrConns \cup TrApi : trJob[t].taken \in TrBytes
    BY DEF TrInv, TrTypeOK, TrJobs
  <2> QED
    BY <2>1, <2>2 DEF TrPlaces, TrInv, TrTypeOK
<1>6. TrConserved
  BY <1>3, <1>4, <1>5 DEF TrInv, TrOnce, TrConserved
<1> QED
  BY <1>1, <1>6 DEF TrSound

\* The traffic of every closed connection is counted exactly once, and a drain misses
\* nothing, for any number of connections, destinations, flushes and drains.
THEOREM TrSafe == TrSpec => []TrSound
<1>1. TrInit => TrInv
  BY TrInitInv
<1>2. TrInv /\ [TrNext]_trVars => TrInv'
  <2> SUFFICES ASSUME TrInv, [TrNext]_trVars PROVE TrInv'
    OBVIOUS
  <2>1. CASE UNCHANGED trVars
    BY <2>1 DEF trVars, TrInv, TrTypeOK, TrAllOwned, TrOwned, TrLocked, TrDraining, TrOnce, TrIn, TrClosed
  <2> QED
    BY <2>1, TrCloseInv, TrFlushInv, TrDrainInv, TrTakeInv, TrEndInv DEF TrNext
<1>3. TrInv => TrSound
  BY TrInvSound
<1> QED
  BY <1>1, <1>2, <1>3, PTL DEF TrSpec

-----------------------------------------------------------------------------
(* The users and the connections that log in as one *)

\* What the lists, the registry and the requests hold.
UsWords == UsPasswords \cup {UsConfig[n] : n \in DOMAIN UsConfig} \cup {""}
UsLists == UNION {[S -> UsWords] : S \in SUBSET UsNames}
UsEarly == {"apply", "store", "commit"}
UsChanges ==
    [pc : UsEarly \cup {"idle", "stats", "words", "read", "write", "creds", "delete"}, do : {"none", "add", "remove"},
     name : UsNames \cup {"none"}, pw : UsWords \cup {"none"}, todo : SUBSET UsInbounds,
     at : UsInbounds \cup {"none"}, snap : UsLists]
UsRecords == [name : UsNames \cup {"none"}, pw : UsWords \cup {"none"}]

\* The fields of a change that is under way.
UsOpOK(o) ==
    /\ o.pc = "idle" <=> o.name = "none"
    /\ o.pc # "idle" => o.do \in {"add", "remove"}
    /\ o.pc \in {"stats", "read", "write"} => o.do = "add"
    /\ o.pc \in {"creds", "delete"} => o.do = "remove"
    /\ o.do = "add" => o.pw \in UsWords
    /\ o.pc = "store" => o.at \in o.todo
    /\ o.pc \notin {"apply", "store"} => o.todo = {}

UsTyped ==
    /\ usList \in [UsInbounds -> UsLists] /\ usCreds \in [UsInbounds -> UsLists]
    /\ usPw \in UsLists /\ usDisk \in UsLists /\ usKept \in UsLists /\ usStats \subseteq UsNames
    /\ usOp \in [UsAdmins -> UsChanges] /\ \A a \in UsAdmins : UsOpOK(usOp[a])
    /\ usTick \subseteq UsNames /\ usGone \subseteq UsNames /\ usSafe \subseteq usGone
    /\ usHold \in UsRecords /\ (usHold.name # "none" => usHold.pw \in UsWords) /\ usBoots \in Nat

\* Two lists agree on a name; a list has what a change makes of it.
UsSame(f, g, n) == (n \in DOMAIN f <=> n \in DOMAIN g) /\ (n \in DOMAIN g => f[n] = g[n])
UsHas(f, n, o) == IF o.do = "add" THEN n \in DOMAIN f /\ f[n] = o.pw ELSE n \notin DOMAIN f

\* The registry knows a name as the credentials do.
UsKnown(n) ==
    /\ n \in DOMAIN usPw => n \in usStats
    /\ n \in usStats \ DOMAIN usPw => usBoots > 0
    /\ \A i \in UsInbounds : UsTakes(i, n) => UsSame(usCreds[i], usPw, n)

\* A change has altered the lists it has been to, then the registry, one part after
\* another, and nothing else; a removal no save holds up has left the counters.
UsUnderWay(n, o) ==
    /\ n \notin usGone
    /\ \A i \in UsInbounds \ o.todo : UsHas(usList[i], n, o)
    /\ o.pc \notin UsEarly /\ o.do = "add" => \A i \in UsInbounds : UsTakes(i, n) => UsHas(usCreds[i], n, o)
    /\ o.pc \notin UsEarly \cup {"stats"} /\ o.do = "add" => n \in usStats
    /\ o.pc \in {"read", "write", "creds", "delete"} => UsHas(usPw, n, o)
    /\ o.pc \notin UsEarly /\ o.do = "remove" => n \notin usStats /\ usHold.name # n
    /\ o.pc = "delete" => \A i \in UsInbounds : UsHas(usCreds[i], n, o)
    /\ n \notin usBroken => \A i \in o.todo : UsTakes(i, n) => UsSame(usList[i], usPw, n)
    /\ n \notin usBroken /\ o.pc \in UsEarly => UsKnown(n)

\* A name that nothing changes is the same everywhere, and nowhere once it is gone.
UsAtRest(n) ==
    /\ n \notin usBroken => UsKnown(n) /\ \A i \in UsInbounds : UsTakes(i, n) => UsSame(usList[i], usPw, n)
    /\ n \in usGone \ DOMAIN UsConfig =>
         /\ n \notin usStats /\ n \notin DOMAIN usDisk /\ usHold.name # n
         /\ \A i \in UsInbounds : n \notin DOMAIN usList[i]
         /\ n \in usSafe => n \notin DOMAIN usKept

\* Unless its changes raced, a name is changed by one request at a time.
UsOf(n) ==
    /\ \A a, b \in UsAdmins : usOp[a].name = n /\ usOp[b].name = n => a = b
    /\ \A a \in UsAdmins : usOp[a].name = n => UsUnderWay(n, usOp[a])
    /\ (\A a \in UsAdmins : usOp[a].name # n) => UsAtRest(n)

\* The inductive invariant of the users,
UsInv == UsTyped /\ \A n \in UsNames \ usRaced : UsOf(n)

SiHandlers ==
    [pc : {"new", "auth", "record", "open", "served", "closed"}, name : UsNames \cup {"none"},
     pw : UsPasswords \cup {"none"}, known : BOOLEAN, late : BOOLEAN]

\* and of the connections: one that is late came for a user that is gone.
SiInv ==
    /\ siConn \in [SiConns -> SiHandlers]
    /\ \A c \in SiConns : siConn[c].late => siConn[c].name \in usGone /\ siConn[c].pc # "new"
    /\ SiRefusesGone

\* A list of users is a function from some names to words.
LEMMA UsListIs ==
  ASSUME NEW S \in SUBSET UsNames, NEW f \in [S -> UsWords]
  PROVE  f \in UsLists
BY DEF UsLists

\* ... and is nothing else.
LEMMA UsListHas ==
  ASSUME NEW f \in UsLists
  PROVE  DOMAIN f \in SUBSET UsNames /\ f \in [DOMAIN f -> UsWords]
BY DEF UsLists

\* What a list is once a user was put in,
LEMMA UsPutIs ==
  ASSUME NEW f \in UsLists, NEW n \in UsNames, NEW p \in UsWords
  PROVE  /\ UsPut(f, n, p) \in UsLists /\ DOMAIN UsPut(f, n, p) = DOMAIN f \cup {n}
         /\ UsPut(f, n, p)[n] = p /\ \A m \in DOMAIN f : m # n => UsPut(f, n, p)[m] = f[m]
<1>1. PICK S : S = DOMAIN f \cup {n}
  OBVIOUS
<1>2. DOMAIN f \in SUBSET UsNames /\ f \in [DOMAIN f -> UsWords]
  BY UsListHas
<1>3. UsPut(f, n, p) \in [S -> UsWords] /\ S \in SUBSET UsNames
  BY <1>1, <1>2 DEF UsPut
<1>4. UsPut(f, n, p) \in UsLists
  BY <1>3, UsListIs
<1> QED
  BY <1>1, <1>3, <1>4 DEF UsPut

\* once it was cut to some names,
LEMMA UsRestrictIs ==
  ASSUME NEW f \in UsLists, NEW S \in SUBSET DOMAIN f
  PROVE  /\ Restrict(f, S) \in UsLists /\ DOMAIN Restrict(f, S) = S
         /\ \A m \in S : Restrict(f, S)[m] = f[m]
<1>1. DOMAIN f \in SUBSET UsNames /\ f \in [DOMAIN f -> UsWords]
  BY UsListHas
<1>2. Restrict(f, S) \in [S -> UsWords] /\ S \in SUBSET UsNames
  BY <1>1 DEF Restrict
<1>3. Restrict(f, S) \in UsLists
  BY <1>2, UsListIs
<1> QED
  BY <1>2, <1>3 DEF Restrict

\* once a user was taken out,
LEMMA UsDelIs ==
  ASSUME NEW f \in UsLists, NEW n
  PROVE  /\ UsDel(f, n) \in UsLists /\ DOMAIN UsDel(f, n) = DOMAIN f \ {n}
         /\ \A m \in DOMAIN f : m # n => UsDel(f, n)[m] = f[m]
<1>1. PICK S : S = DOMAIN f \ {n}
  OBVIOUS
<1>2. S \in SUBSET DOMAIN f
  BY <1>1
<1> QED
  BY <1>1, <1>2, UsRestrictIs DEF UsDel

\* and once a second list was merged in.
LEMMA UsMergeIs ==
  ASSUME NEW f \in UsLists, NEW g \in UsLists
  PROVE  /\ UsMerge(f, g) \in UsLists /\ DOMAIN UsMerge(f, g) = DOMAIN f \cup DOMAIN g
         /\ \A m \in DOMAIN f \cup DOMAIN g : UsMerge(f, g)[m] = IF m \in DOMAIN f THEN f[m] ELSE g[m]
<1>1. PICK S : S = DOMAIN f \cup DOMAIN g
  OBVIOUS
<1>2. /\ DOMAIN f \in SUBSET UsNames /\ f \in [DOMAIN f -> UsWords]
      /\ DOMAIN g \in SUBSET UsNames /\ g \in [DOMAIN g -> UsWords]
  BY UsListHas
<1>3. UsMerge(f, g) \in [S -> UsWords] /\ S \in SUBSET UsNames
  BY <1>1, <1>2 DEF UsMerge
<1>4. UsMerge(f, g) \in UsLists
  BY <1>3, UsListIs
<1> QED
  BY <1>1, <1>3, <1>4 DEF UsMerge

\* The configured users and the empty list are lists.
LEMMA UsConfigIs == UsConfig \in UsLists /\ UsNone \in UsLists /\ DOMAIN UsNone = {}
<1>1. DOMAIN UsConfig \in SUBSET UsNames /\ UsConfig \in [DOMAIN UsConfig -> UsWords]
  BY UsAssumption DEF UsWords
<1>2. UsNone \in [{} -> UsWords] /\ {} \in SUBSET UsNames
  BY DEF UsNone
<1> QED
  BY <1>1, <1>2, UsListIs DEF UsNone

\* A request that has nothing to do is well formed.
LEMMA UsIdle == UsNoOp \in UsChanges /\ UsOpOK(UsNoOp) /\ UsNoOp.name = "none" /\ UsNoOp.pc = "idle"
<1>1. PICK e : e = UsNone
  OBVIOUS
<1>2. e \in UsLists
  BY <1>1, UsConfigIs
<1>3. UsNoOp = [pc |-> "idle", do |-> "none", name |-> "none", pw |-> "none", todo |-> {}, at |-> "none", snap |-> e]
  BY <1>1 DEF UsNoOp
<1> QED
  BY <1>2, <1>3 DEF UsChanges, UsOpOK

\* One request moves; its change is q from now on.
LEMMA UsMoves ==
  ASSUME UsTyped, NEW a \in UsAdmins, NEW q \in UsChanges, UsOpOK(q), usOp' = [usOp EXCEPT ![a] = q]
  PROVE  /\ usOp' \in [UsAdmins -> UsChanges] /\ usOp'[a] = q
         /\ \A b \in UsAdmins : b # a => usOp'[b] = usOp[b]
         /\ \A b \in UsAdmins : UsOpOK(usOp'[b])
<1>1. usOp \in [UsAdmins -> UsChanges] /\ \A b \in UsAdmins : UsOpOK(usOp[b])
  BY DEF UsTyped
<1>2. /\ usOp' \in [UsAdmins -> UsChanges] /\ usOp'[a] = q
      /\ \A b \in UsAdmins : b # a => usOp'[b] = usOp[b]
  BY <1>1
<1>3. ASSUME NEW b \in UsAdmins PROVE UsOpOK(usOp'[b])
  <2>1. CASE b = a
    BY <1>2, <2>1
  <2>2. CASE b # a
    <3>1. PICK r : r = usOp[b]
      OBVIOUS
    <3>2. usOp'[b] = r /\ UsOpOK(r)
      BY <1>1, <1>2, <2>2, <3>1
    <3> QED
      BY <3>2
  <2> QED
    BY <2>1, <2>2
<1> QED
  BY <1>2, <1>3

\* A step that leaves a name alone keeps what holds of it.
LEMMA UsOthers ==
  ASSUME UsTyped, NEW n \in UsNames, UsOf(n),
         \A a \in UsAdmins : (usOp'[a].name = n <=> usOp[a].name = n) /\ (usOp[a].name = n => usOp'[a] = usOp[a]),
         \A i \in UsInbounds : UsSame(usList'[i], usList[i], n) /\ UsSame(usCreds'[i], usCreds[i], n),
         UsSame(usPw', usPw, n), n \in usStats' <=> n \in usStats, usBoots' = usBoots,
         n \in usGone' <=> n \in usGone, n \in usBroken <=> n \in usBroken',
         usHold'.name = n => usHold.name = n \/ n \in usStats,
         n \in DOMAIN usDisk' => n \in DOMAIN usDisk \/ usHold.name = n \/ \E a \in UsAdmins : usOp[a].name = n,
         n \in usSafe' /\ n \in DOMAIN usKept' => (n \in usSafe /\ n \in DOMAIN usKept) \/ n \in DOMAIN usDisk
  PROVE  UsOf(n)'
<1>1. UsKnown(n) => UsKnown(n)'
  BY DEF UsKnown, UsSame
<1>2. ASSUME NEW a \in UsAdmins, usOp'[a].name = n PROVE UsUnderWay(n, usOp[a])'
  <2>1. PICK o : o = usOp[a]
    OBVIOUS
  <2>2. UsUnderWay(n, o) /\ usOp'[a] = o
    BY <1>2, <2>1 DEF UsOf
  <2>3. /\ \A i \in UsInbounds : UsHas(usList[i], n, o) => UsHas(usList'[i], n, o)
        /\ \A i \in UsInbounds : UsHas(usCreds[i], n, o) => UsHas(usCreds'[i], n, o)
        /\ UsHas(usPw, n, o) => UsHas(usPw', n, o)
    BY DEF UsHas, UsSame
  <2>4. \A i \in UsInbounds : UsSame(usList[i], usPw, n) => UsSame(usList'[i], usPw', n)
    BY DEF UsSame
  <2>5. o.todo \subseteq UsInbounds
    BY <2>1 DEF UsTyped, UsChanges
  <2>6. UsUnderWay(n, o)'
    <3>1. \A i \in UsInbounds \ o.todo : UsHas(usList'[i], n, o)
      BY <2>2, <2>3 DEF UsUnderWay
    <3>2. n \notin usBroken => \A i \in o.todo : UsTakes(i, n) => UsSame(usList'[i], usPw', n)
      BY <2>2, <2>4, <2>5 DEF UsUnderWay
    <3>3. /\ o.pc \notin UsEarly /\ o.do = "add" => \A i \in UsInbounds : UsTakes(i, n) => UsHas(usCreds'[i], n, o)
          /\ o.pc = "delete" => \A i \in UsInbounds : UsHas(usCreds'[i], n, o)
          /\ o.pc \in {"read", "write", "creds", "delete"} => UsHas(usPw', n, o)
      BY <2>2, <2>3 DEF UsUnderWay
    <3>4. /\ n \notin usGone' /\ (n \notin usBroken' /\ o.pc \in UsEarly => UsKnown(n)')
          /\ o.pc \notin UsEarly \cup {"stats"} /\ o.do = "add" => n \in usStats'
          /\ o.pc \notin UsEarly /\ o.do = "remove" => n \notin usStats' /\ usHold'.name # n
      BY <1>1, <2>2 DEF UsUnderWay
    <3> QED
      BY <3>1, <3>2, <3>3, <3>4 DEF UsUnderWay
  <2> QED
    BY <2>2, <2>6
<1>3. ASSUME \A a \in UsAdmins : usOp'[a].name # n PROVE UsAtRest(n)'
  <2>1. UsAtRest(n) /\ \A a \in UsAdmins : usOp[a].name # n
    BY <1>3 DEF UsOf
  <2>2. \A i \in UsInbounds : UsSame(usList[i], usPw, n) => UsSame(usList'[i], usPw', n)
    BY DEF UsSame
  <2>3. n \notin usBroken' => UsKnown(n)' /\ \A i \in UsInbounds : UsTakes(i, n) => UsSame(usList'[i], usPw', n)
    BY <1>1, <2>1, <2>2 DEF UsAtRest
  <2>4. \A i \in UsInbounds : n \notin DOMAIN usList[i] => n \notin DOMAIN usList'[i]
    BY DEF UsSame
  <2>5. ASSUME n \in usGone' \ DOMAIN UsConfig
        PROVE  /\ n \notin usStats' /\ n \notin DOMAIN usDisk' /\ usHold'.name # n
               /\ \A i \in UsInbounds : n \notin DOMAIN usList'[i]
               /\ n \in usSafe' => n \notin DOMAIN usKept'
    BY <2>1, <2>4, <2>5 DEF UsAtRest
  <2> QED
    BY <2>3, <2>5 DEF UsAtRest
<1>4. \A a, b \in UsAdmins : usOp'[a].name = n /\ usOp'[b].name = n => a = b
  BY DEF UsOf
<1> QED
  BY <1>2, <1>3, <1>4 DEF UsOf

\* A request goes on: what holds of its name is said by its change alone,
LEMMA UsGoesOn ==
  ASSUME NEW n \in UsNames, UsOf(n), NEW a \in UsAdmins, usOp[a].name = n, NEW q, q.name = n, usOp'[a] = q,
         \A b \in UsAdmins : b # a => usOp'[b] = usOp[b], UsUnderWay(n, q)'
  PROVE  UsOf(n)'
<1>1. \A b \in UsAdmins : usOp'[b].name = n => b = a
  BY DEF UsOf
<1> QED
  BY <1>1 DEF UsOf

\* begins,
LEMMA UsStarts ==
  ASSUME NEW n \in UsNames, \A b \in UsAdmins : usOp[b].name # n, NEW a \in UsAdmins, NEW q, q.name = n, usOp'[a] = q,
         \A b \in UsAdmins : b # a => usOp'[b] = usOp[b], UsUnderWay(n, q)'
  PROVE  UsOf(n)'
<1>1. \A b \in UsAdmins : usOp'[b].name = n => b = a
  OBVIOUS
<1> QED
  BY <1>1 DEF UsOf

\* or ends, and its name is at rest.
LEMMA UsEnds ==
  ASSUME NEW n \in UsNames, UsOf(n), NEW a \in UsAdmins, usOp[a].name = n, usOp'[a].name # n,
         \A b \in UsAdmins : b # a => usOp'[b] = usOp[b], UsAtRest(n)'
  PROVE  UsOf(n)'
<1>1. \A b \in UsAdmins : usOp'[b].name # n
  BY DEF UsOf
<1> QED
  BY <1>1 DEF UsOf

\* What a request does to nothing but itself and its own name leaves the others alone.
LEMMA UsApart ==
  ASSUME UsInv, NEW a \in UsAdmins, NEW n, n = usOp[a].name \/ n = usOp'[a].name,
         usOp[a].name = "none" \/ usOp[a].name = n, usOp'[a].name = "none" \/ usOp'[a].name = n,
         \A b \in UsAdmins : b # a => usOp'[b] = usOp[b], usRaced \subseteq usRaced', usBoots' = usBoots,
         usHold' = usHold, usKept' = usKept,
         NEW m \in UsNames \ usRaced', m # n,
         \A i \in UsInbounds : UsSame(usList'[i], usList[i], m) /\ UsSame(usCreds'[i], usCreds[i], m),
         UsSame(usPw', usPw, m), m \in usStats' <=> m \in usStats,
         m \in usGone' <=> m \in usGone, m \in usSafe' <=> m \in usSafe, m \in usBroken <=> m \in usBroken',
         m \in DOMAIN usDisk' => m \in DOMAIN usDisk
  PROVE  UsOf(m)'
<1>1. UsTyped /\ UsOf(m) /\ m # "none"
  BY UsAssumption DEF UsInv
<1>2. \A b \in UsAdmins : (usOp'[b].name = m <=> usOp[b].name = m) /\ (usOp[b].name = m => usOp'[b] = usOp[b])
  BY <1>1
<1> QED
  BY <1>1, <1>2, UsOthers

\* Nothing changes in a list that stays.
LEMMA UsSameStays == \A f, n : UsSame(f, f, n)
BY DEF UsSame

\* What holds of the name of a request.
LEMMA UsMine ==
  ASSUME UsInv, NEW a \in UsAdmins, usOp[a].pc # "idle"
  PROVE  /\ usOp[a] \in UsChanges /\ UsOpOK(usOp[a]) /\ usOp[a].name \in UsNames /\ usOp[a].name # "none"
         /\ usOp[a].name \notin usRaced => UsOf(usOp[a].name) /\ UsUnderWay(usOp[a].name, usOp[a])
<1>1. usOp[a] \in UsChanges /\ UsOpOK(usOp[a])
  BY DEF UsInv, UsTyped
<1>2. usOp[a].name \in UsNames /\ usOp[a].name # "none"
  BY <1>1, UsAssumption DEF UsChanges, UsOpOK
<1>3. ASSUME usOp[a].name \notin usRaced PROVE UsOf(usOp[a].name) /\ UsUnderWay(usOp[a].name, usOp[a])
  <2>1. PICK n : n = usOp[a].name
    OBVIOUS
  <2>2. UsOf(n)
    BY <1>2, <1>3, <2>1 DEF UsInv
  <2> QED
    BY <2>1, <2>2 DEF UsOf
<1> QED
  BY <1>1, <1>2, <1>3

\* A change begins (post_user, delete_user): it has been to no inbound.
LEMMA UsBeginInv ==
  ASSUME UsInv, NEW a \in UsAdmins, NEW do \in {"add", "remove"}, NEW n \in UsNames, NEW p \in UsPasswords \cup {"none"},
         do = "add" => p \in UsPasswords, UsBegin(a, do, n, p)
  PROVE  UsInv'
<1>1. PICK q : q = [UsNoOp EXCEPT !.pc = "apply", !.do = do, !.name = n, !.pw = p, !.todo = UsInbounds]
  OBVIOUS
<1>2. /\ q \in UsChanges /\ q.pc = "apply" /\ q.do = do /\ q.name = n /\ q.pw = p /\ q.todo = UsInbounds
  BY <1>1, UsIdle DEF UsChanges, UsWords, UsEarly
<1>3. UsOpOK(q)
  BY <1>2, UsAssumption DEF UsOpOK, UsWords
<1>4. /\ usOp' = [usOp EXCEPT ![a] = q] /\ usOp[a].pc = "idle" /\ usGone' = usGone \ {n} /\ usSafe' = usSafe \ {n}
      /\ usRaced' = IF \E b \in UsAdmins : usOp[b].name = n THEN usRaced \cup {n} ELSE usRaced
      /\ UNCHANGED <<usList, usCreds, usStats, usPw, usDisk, usKept, usTick, usHold, usBoots, usBroken>>
  BY <1>1 DEF UsBegin, usMem, usTable
<1>5. /\ usOp' \in [UsAdmins -> UsChanges] /\ usOp'[a] = q
      /\ \A b \in UsAdmins : b # a => usOp'[b] = usOp[b]
      /\ \A b \in UsAdmins : UsOpOK(usOp'[b])
  BY <1>2, <1>3, <1>4, UsMoves DEF UsInv
<1>6. usOp[a].name = "none" /\ "none" \notin UsNames
  BY <1>4, UsAssumption DEF UsInv, UsTyped, UsOpOK
<1>7. usRaced \subseteq usRaced' /\ (n \notin usRaced' => \A b \in UsAdmins : usOp[b].name # n)
  BY <1>4
<1>8. UsTyped'
  BY <1>4, <1>5 DEF UsInv, UsTyped
<1>9. ASSUME NEW m \in UsNames \ usRaced', m # n PROVE UsOf(m)'
  <2>1. /\ \A i \in UsInbounds : UsSame(usList'[i], usList[i], m) /\ UsSame(usCreds'[i], usCreds[i], m)
        /\ UsSame(usPw', usPw, m)
    BY <1>4, UsSameStays
  <2>2. usOp'[a].name = n
    BY <1>2, <1>5
  <2> QED
    BY <1>4, <1>5, <1>6, <1>7, <1>9, <2>1, <2>2, UsApart
<1>10. ASSUME n \notin usRaced' PROVE UsOf(n)'
  <2>1. UsAtRest(n) /\ \A b \in UsAdmins : usOp[b].name # n
    BY <1>7, <1>10 DEF UsInv, UsOf
  <2>2. UsKnown(n) => UsKnown(n)'
    BY <1>4 DEF UsKnown
  <2>3. UsUnderWay(n, q)'
    BY <1>2, <1>4, <2>1, <2>2 DEF UsUnderWay, UsAtRest, UsEarly
  <2> QED
    BY <1>2, <1>5, <2>1, <2>3, UsStarts
<1> QED
  BY <1>8, <1>9, <1>10 DEF UsInv

\* An inbound loads its list: nothing that is shared changes.
LEMMA UsLoadInv ==
  ASSUME UsInv, NEW a \in UsAdmins, NEW i \in UsInbounds, UsLoad(a, i)
  PROVE  UsInv'
<1>1. PICK o : o = usOp[a]
  OBVIOUS
<1>2. PICK n : n = o.name
  OBVIOUS
<1>3. /\ o \in UsChanges /\ UsOpOK(o) /\ n \in UsNames /\ n # "none" /\ usList[i] \in UsLists
      /\ n \notin usRaced => UsOf(n) /\ UsUnderWay(n, o)
  BY <1>1, <1>2, UsMine DEF UsLoad, UsInv, UsTyped
<1>4. PICK q : q = [o EXCEPT !.pc = "store", !.at = i, !.snap = usList[i]]
  OBVIOUS
<1>5. /\ q \in UsChanges /\ q.pc = "store" /\ q.do = o.do /\ q.name = n /\ q.pw = o.pw /\ q.todo = o.todo /\ q.at = i
  BY <1>2, <1>3, <1>4 DEF UsChanges, UsEarly
<1>6. /\ usOp' = [usOp EXCEPT ![a] = q] /\ o.pc = "apply" /\ i \in o.todo
      /\ UNCHANGED <<usList, usCreds, usStats, usPw, usDisk, usKept, usTick, usHold, usBoots, usBroken, usRaced, usGone, usSafe>>
  BY <1>1, <1>4 DEF UsLoad, usMem, usTable, usPast
<1>7. UsOpOK(q)
  BY <1>3, <1>5, <1>6 DEF UsOpOK
<1>8. /\ usOp' \in [UsAdmins -> UsChanges] /\ usOp'[a] = q
      /\ \A b \in UsAdmins : b # a => usOp'[b] = usOp[b]
      /\ \A b \in UsAdmins : UsOpOK(usOp'[b])
  BY <1>5, <1>6, <1>7, UsMoves DEF UsInv
<1>9. UsTyped'
  BY <1>6, <1>8 DEF UsInv, UsTyped
<1>10. ASSUME NEW m \in UsNames \ usRaced, m # n PROVE UsOf(m)'
  <2>1. /\ \A j \in UsInbounds : UsSame(usList'[j], usList[j], m) /\ UsSame(usCreds'[j], usCreds[j], m)
        /\ UsSame(usPw', usPw, m)
    BY <1>6, UsSameStays
  <2>2. usOp'[a].name = n /\ usOp[a].name = n
    BY <1>1, <1>2, <1>5, <1>8
  <2> QED
    BY <1>6, <1>8, <1>10, <2>1, <2>2, UsApart
<1>11. ASSUME n \notin usRaced PROVE UsOf(n)'
  <2>1. UsUnderWay(n, o) /\ UsOf(n) /\ usOp[a].name = n
    BY <1>1, <1>2, <1>3, <1>11
  <2>2. UsUnderWay(n, q)'
    BY <1>5, <1>6, <2>1 DEF UsUnderWay, UsHas, UsSame, UsKnown, UsEarly
  <2> QED
    BY <1>3, <1>5, <1>8, <2>1, <2>2, UsGoesOn
<1> QED
  BY <1>6, <1>9, <1>10, <1>11 DEF UsInv

\* The list that an inbound stores differs from the one it has in the name of the
\* change and in names that are counted as raced.
LEMMA UsStored ==
  ASSUME UsInv, NEW a \in UsAdmins, UsStore(a), NEW o, o = usOp[a]
  PROVE  /\ usList' \in [UsInbounds -> UsLists] /\ o.at \in UsInbounds /\ usRaced \subseteq usRaced'
         /\ \A i \in UsInbounds : i # o.at => usList'[i] = usList[i]
         /\ UsHas(usList'[o.at], o.name, o)
         /\ \A i \in UsInbounds, m \in UsNames \ usRaced' : m # o.name => UsSame(usList'[i], usList[i], m)
<1>1. /\ o \in UsChanges /\ UsOpOK(o) /\ usList \in [UsInbounds -> UsLists] /\ o.pc = "store"
  BY DEF UsInv, UsTyped, UsStore
<1>2. /\ o.at \in UsInbounds /\ o.name \in UsNames /\ o.snap \in UsLists /\ o.do \in {"add", "remove"}
      /\ o.do = "add" => o.pw \in UsWords
  BY <1>1, UsAssumption DEF UsChanges, UsOpOK
<1>3. PICK g, n, p, h : g = o.snap /\ n = o.name /\ p = o.pw /\ h = usList[o.at]
  OBVIOUS
<1>4. PICK f : f = IF o.do = "add" THEN UsPut(g, n, p) ELSE UsDel(g, n)
  OBVIOUS
<1>5. /\ f \in UsLists /\ UsHas(f, n, o)
      /\ \A m \in UsNames : m # n => (m \in DOMAIN f <=> m \in DOMAIN g) /\ (m \in DOMAIN g => f[m] = g[m])
  <2>1. g \in UsLists /\ n \in UsNames
    BY <1>2, <1>3
  <2>2. CASE o.do = "add"
    <3>1. f = UsPut(g, n, p) /\ p \in UsWords
      BY <1>2, <1>4, <1>3, <2>2
    <3>2. /\ f \in UsLists /\ DOMAIN f = DOMAIN g \cup {n} /\ f[n] = p /\ \A m \in DOMAIN g : m # n => f[m] = g[m]
      BY <2>1, <3>1, UsPutIs
    <3> QED
      BY <1>3, <2>2, <3>2 DEF UsHas
  <2>3. CASE o.do # "add"
    <3>1. f = UsDel(g, n)
      BY <1>4, <2>3
    <3>2. /\ f \in UsLists /\ DOMAIN f = DOMAIN g \ {n} /\ \A m \in DOMAIN g : m # n => f[m] = g[m]
      BY <2>1, <3>1, UsDelIs
    <3> QED
      BY <2>3, <3>2 DEF UsHas
  <2> QED
    BY <2>2, <2>3
<1>6. usList' = [usList EXCEPT ![o.at] = f] /\ usRaced' = usRaced \cup {m \in UsNames : UsDiffer(g, h, m)}
  BY <1>4, <1>3 DEF UsStore
<1>7. usList' \in [UsInbounds -> UsLists] /\ usList'[o.at] = f /\ \A i \in UsInbounds : i # o.at => usList'[i] = usList[i]
  BY <1>1, <1>2, <1>5, <1>6
<1>8. ASSUME NEW m \in UsNames \ usRaced' PROVE (m \in DOMAIN g <=> m \in DOMAIN h) /\ (m \in DOMAIN g => g[m] = h[m])
  <2>1. ~UsDiffer(g, h, m)
    BY <1>6
  <2> QED
    BY <2>1 DEF UsDiffer
<1>9. ASSUME NEW i \in UsInbounds, NEW m \in UsNames \ usRaced', m # n
      PROVE  UsSame(usList'[i], usList[i], m)
  <2>1. CASE i # o.at
    BY <1>7, <2>1, UsSameStays
  <2>2. CASE i = o.at
    <3>1. usList'[i] = f /\ usList[i] = h
      BY <1>7, <1>3, <2>2
    <3>2. (m \in DOMAIN f <=> m \in DOMAIN h) /\ (m \in DOMAIN h => f[m] = h[m])
      BY <1>5, <1>8, <1>9
    <3> QED
      BY <3>1, <3>2 DEF UsSame
  <2> QED
    BY <2>1, <2>2
<1> QED
  BY <1>2, <1>5, <1>6, <1>7, <1>9, <1>3

\* An inbound stores its list: it now has, or has not, the user of the change.
LEMMA UsStoreInv ==
  ASSUME UsInv, NEW a \in UsAdmins, UsStore(a)
  PROVE  UsInv'
<1>1. PICK o : o = usOp[a]
  OBVIOUS
<1>2. PICK n : n = o.name
  OBVIOUS
<1>3. /\ o \in UsChanges /\ UsOpOK(o) /\ n \in UsNames /\ n # "none" /\ o.pc = "store"
      /\ n \notin usRaced => UsOf(n) /\ UsUnderWay(n, o)
  BY <1>1, <1>2, UsMine DEF UsStore
<1>4. /\ usList' \in [UsInbounds -> UsLists] /\ o.at \in UsInbounds /\ usRaced \subseteq usRaced'
      /\ \A i \in UsInbounds : i # o.at => usList'[i] = usList[i]
      /\ UsHas(usList'[o.at], o.name, o)
      /\ \A i \in UsInbounds, m \in UsNames \ usRaced' : m # o.name => UsSame(usList'[i], usList[i], m)
  BY <1>1, UsStored
<1>5. PICK q : q = [o EXCEPT !.todo = o.todo \ {o.at}, !.at = "none", !.snap = UsNone,
                              !.pc = IF o.todo = {o.at} THEN "commit" ELSE "apply"]
  OBVIOUS
<1>6. /\ q \in UsChanges /\ q.pc \in {"commit", "apply"} /\ (q.pc = "commit" => o.todo = {o.at})
      /\ q.do = o.do /\ q.name = n /\ q.pw = o.pw /\ q.todo = o.todo \ {o.at}
  BY <1>2, <1>3, <1>5, UsConfigIs DEF UsChanges, UsEarly
<1>7. /\ usOp' = [usOp EXCEPT ![a] = q]
      /\ UNCHANGED <<usCreds, usStats, usPw, usDisk, usKept, usTick, usHold, usBoots, usBroken, usGone, usSafe>>
  BY <1>1, <1>5 DEF UsStore, usTable
<1>8. UsOpOK(q)
  BY <1>3, <1>6 DEF UsOpOK
<1>9. /\ usOp' \in [UsAdmins -> UsChanges] /\ usOp'[a] = q
      /\ \A b \in UsAdmins : b # a => usOp'[b] = usOp[b]
      /\ \A b \in UsAdmins : UsOpOK(usOp'[b])
  BY <1>6, <1>7, <1>8, UsMoves DEF UsInv
<1>10. UsTyped'
  BY <1>4, <1>7, <1>9 DEF UsInv, UsTyped
<1>11. ASSUME NEW m \in UsNames \ usRaced', m # n PROVE UsOf(m)'
  <2>1. /\ \A j \in UsInbounds : UsSame(usList'[j], usList[j], m) /\ UsSame(usCreds'[j], usCreds[j], m)
        /\ UsSame(usPw', usPw, m)
    BY <1>2, <1>4, <1>7, <1>11, UsSameStays
  <2>2. usOp'[a].name = n /\ usOp[a].name = n
    BY <1>1, <1>2, <1>6, <1>9
  <2> QED
    BY <1>4, <1>7, <1>9, <1>11, <2>1, <2>2, UsApart
<1>12. ASSUME n \notin usRaced' PROVE UsOf(n)'
  <2>1. UsUnderWay(n, o) /\ UsOf(n) /\ usOp[a].name = n
    BY <1>1, <1>2, <1>3, <1>4, <1>12
  <2>2. \A i \in UsInbounds \ q.todo : UsHas(usList'[i], n, q)
    <3> SUFFICES ASSUME NEW i \in UsInbounds \ q.todo PROVE UsHas(usList'[i], n, q)
      OBVIOUS
    <3>1. CASE i = o.at
      BY <1>2, <1>4, <1>6, <3>1 DEF UsHas
    <3>2. CASE i # o.at
      BY <1>4, <1>6, <2>1, <3>2 DEF UsUnderWay, UsHas
    <3> QED
      BY <3>1, <3>2
  <2>3. n \notin usBroken => \A i \in q.todo : UsTakes(i, n) => UsSame(usList'[i], usPw', n)
    <3>1. o.todo \subseteq UsInbounds
      BY <1>3 DEF UsChanges
    <3> QED
      BY <1>4, <1>6, <1>7, <2>1, <3>1 DEF UsUnderWay
  <2>4. UsKnown(n) => UsKnown(n)'
    BY <1>7 DEF UsKnown
  <2>5. o.pc \in UsEarly /\ q.pc \in UsEarly /\ q.pc \notin {"read", "write", "creds", "delete", "stats"}
    BY <1>3, <1>6 DEF UsEarly
  <2>6. UsUnderWay(n, q)'
    BY <1>7, <2>1, <2>2, <2>3, <2>4, <2>5 DEF UsUnderWay
  <2> QED
    BY <1>3, <1>6, <1>9, <2>1, <2>6, UsGoesOn
<1> QED
  BY <1>4, <1>10, <1>11, <1>12 DEF UsInv

\* A change that fails leaves the user among the broken ones.
LEMMA UsRefuseInv ==
  ASSUME UsInv, NEW a \in UsAdmins, UsRefuse(a)
  PROVE  UsInv'
<1>1. PICK n : n = usOp[a].name
  OBVIOUS
<1>2. /\ n \in UsNames /\ n # "none" /\ (n \notin usRaced => UsOf(n) /\ UsUnderWay(n, usOp[a]))
  BY <1>1, UsMine DEF UsRefuse
<1>3. /\ usOp' = [usOp EXCEPT ![a] = UsNoOp] /\ usBroken' = usBroken \cup {n}
      /\ UNCHANGED <<usList, usCreds, usStats, usPw, usDisk, usKept, usTick, usHold, usBoots, usRaced, usGone, usSafe>>
  BY <1>1 DEF UsRefuse, usMem, usTable
<1>4. /\ usOp' \in [UsAdmins -> UsChanges] /\ usOp'[a] = UsNoOp
      /\ \A b \in UsAdmins : b # a => usOp'[b] = usOp[b]
      /\ \A b \in UsAdmins : UsOpOK(usOp'[b])
  BY <1>3, UsIdle, UsMoves DEF UsInv
<1>5. UsTyped'
  BY <1>3, <1>4 DEF UsInv, UsTyped
<1>6. ASSUME NEW m \in UsNames \ usRaced, m # n PROVE UsOf(m)'
  <2>1. /\ \A j \in UsInbounds : UsSame(usList'[j], usList[j], m) /\ UsSame(usCreds'[j], usCreds[j], m)
        /\ UsSame(usPw', usPw, m)
    BY <1>3, UsSameStays
  <2>2. usOp'[a].name = "none" /\ usOp[a].name = n
    BY <1>1, <1>4, UsIdle
  <2> QED
    BY <1>3, <1>4, <1>6, <2>1, <2>2, UsApart
<1>7. ASSUME n \notin usRaced PROVE UsOf(n)'
  <2>1. UsUnderWay(n, usOp[a]) /\ UsOf(n)
    BY <1>2, <1>7
  <2>2. UsAtRest(n)'
    BY <1>3, <2>1 DEF UsUnderWay, UsAtRest
  <2>3. usOp'[a].name # n
    BY <1>2, <1>4, UsIdle
  <2> QED
    BY <1>1, <1>2, <1>4, <2>1, <2>2, <2>3, UsEnds
<1> QED
  BY <1>3, <1>5, <1>6, <1>7 DEF UsInv

\* Where a request may go on to.
UsOrder(from, do, to) ==
    /\ from \notin {"idle", "apply", "store"} /\ to \in {"stats", "words", "read", "creds", "delete"}
    /\ to \in {"stats", "read"} => do = "add"
    /\ to \in {"creds", "delete"} => do = "remove"

\* A request goes on to its next place: what it is from now on.
UsWent(a, o, q, from, do, to) ==
    /\ q.pc = to /\ q.do = do /\ o.do = do /\ o.pc = from /\ q.name = o.name /\ q.pw = o.pw /\ q.todo = {} /\ o.todo = {}
    /\ o.name \in UsNames /\ o.name # "none" /\ (do = "add" => o.pw \in UsWords)
    /\ o.name \notin usRaced => UsOf(o.name) /\ UsUnderWay(o.name, o)
    /\ usOp' \in [UsAdmins -> UsChanges] /\ usOp'[a] = q
    /\ \A b \in UsAdmins : b # a => usOp'[b] = usOp[b]
    /\ \A b \in UsAdmins : UsOpOK(usOp'[b])

\* A step of UsStep takes the request there.
LEMMA UsSteps ==
  ASSUME UsInv, NEW a \in UsAdmins, NEW o, o = usOp[a], NEW from, NEW do, NEW to, UsStep(a, from, do, to),
         UsOrder(from, do, to), NEW q, q = [o EXCEPT !.pc = to]
  PROVE  UsWent(a, o, q, from, do, to)
<1>1. o.pc = from /\ o.do = do /\ usOp' = [usOp EXCEPT ![a] = q]
  BY DEF UsStep
<1>2. /\ o \in UsChanges /\ UsOpOK(o) /\ o.name \in UsNames /\ o.name # "none"
      /\ o.name \notin usRaced => UsOf(o.name) /\ UsUnderWay(o.name, o)
  BY <1>1, UsMine DEF UsOrder
<1>3. /\ q \in UsChanges /\ q.pc = to /\ q.do = do /\ q.name = o.name /\ q.pw = o.pw /\ q.todo = o.todo
  BY <1>1, <1>2 DEF UsChanges, UsOrder
<1>4. o.todo = {} /\ (do = "add" => o.pw \in UsWords)
  BY <1>1, <1>2 DEF UsOpOK, UsOrder
<1>5. UsOpOK(q)
  BY <1>1, <1>2, <1>3, <1>4 DEF UsOpOK, UsOrder
<1>6. /\ usOp' \in [UsAdmins -> UsChanges] /\ usOp'[a] = q
      /\ \A b \in UsAdmins : b # a => usOp'[b] = usOp[b]
      /\ \A b \in UsAdmins : UsOpOK(usOp'[b])
  BY <1>1, <1>3, <1>5, UsMoves DEF UsInv
<1> QED
  BY <1>1, <1>2, <1>3, <1>4, <1>6 DEF UsWent

\* A step of a request that changes the registry in the name of its change alone.
LEMMA UsRegistry ==
  ASSUME UsInv, NEW a \in UsAdmins, NEW o, o = usOp[a], NEW q, q.name = o.name, o.name \in UsNames, o.name # "none",
         usOp' \in [UsAdmins -> UsChanges], usOp'[a] = q, \A b \in UsAdmins : b # a => usOp'[b] = usOp[b],
         \A b \in UsAdmins : UsOpOK(usOp'[b]), o.name \notin usRaced => UsOf(o.name),
         UNCHANGED <<usList, usDisk, usKept, usTick, usHold, usBoots, usBroken, usRaced, usGone, usSafe>>,
         usCreds' \in [UsInbounds -> UsLists], usPw' \in UsLists, usStats' \subseteq UsNames,
         \A m \in UsNames : m # o.name =>
             /\ \A i \in UsInbounds : UsSame(usCreds'[i], usCreds[i], m)
             /\ UsSame(usPw', usPw, m) /\ (m \in usStats' <=> m \in usStats),
         o.name \notin usRaced => UsUnderWay(o.name, q)'
  PROVE  UsInv'
<1>1. PICK n : n = o.name
  OBVIOUS
<1>2. UsTyped'
  BY DEF UsInv, UsTyped
<1>3. ASSUME NEW m \in UsNames \ usRaced, m # n PROVE UsOf(m)'
  <2>1. \A i \in UsInbounds : UsSame(usList'[i], usList[i], m) /\ UsSame(usCreds'[i], usCreds[i], m)
    BY <1>1, <1>3, UsSameStays
  <2>2. UsSame(usPw', usPw, m) /\ (m \in usStats' <=> m \in usStats)
    BY <1>1, <1>3
  <2>3. usOp'[a].name = n /\ usOp[a].name = n
    BY <1>1
  <2> QED
    BY <1>3, <2>1, <2>2, <2>3, UsApart
<1>4. ASSUME n \notin usRaced PROVE UsOf(n)'
  <2>1. UsOf(n) /\ UsUnderWay(n, q)' /\ usOp[a].name = n /\ q.name = n /\ n \in UsNames
    BY <1>1, <1>4
  <2> QED
    BY <2>1, UsGoesOn
<1> QED
  BY <1>2, <1>3, <1>4 DEF UsInv

\* Observer::add_user sets the credentials,
LEMMA UsSetCredsInv ==
  ASSUME UsInv, NEW a \in UsAdmins, UsSetCreds(a)
  PROVE  UsInv'
<1>1. PICK o : o = usOp[a]
  OBVIOUS
<1>2. PICK q : q = [o EXCEPT !.pc = "stats"]
  OBVIOUS
<1>3. PICK from, do, to : from = "commit" /\ do = "add" /\ to = "stats" /\ q = [o EXCEPT !.pc = to]
  BY <1>2
<1>4. UsStep(a, from, do, to)
  BY <1>3 DEF UsSetCreds
<1>5. UsOrder(from, do, to)
  BY <1>3 DEF UsOrder
<1>6. q = [o EXCEPT !.pc = to]
  BY <1>3
<1>7. /\ q.pc = to /\ q.do = do /\ o.do = do /\ o.pc = from /\ q.name = o.name /\ q.pw = o.pw /\ q.todo = {} /\ o.todo = {}
      /\ o.name \in UsNames /\ o.name # "none" /\ (do = "add" => o.pw \in UsWords)
      /\ o.name \notin usRaced => UsOf(o.name) /\ UsUnderWay(o.name, o)
      /\ usOp' \in [UsAdmins -> UsChanges] /\ usOp'[a] = q
      /\ \A b \in UsAdmins : b # a => usOp'[b] = usOp[b]
      /\ \A b \in UsAdmins : UsOpOK(usOp'[b])
  <2>1. UsWent(a, o, q, from, do, to)
    BY <1>1, <1>4, <1>5, <1>6, UsSteps
  <2> QED
    BY <2>1 DEF UsWent
<1>8. PICK n, p : n = o.name /\ p = o.pw
  OBVIOUS
<1>9. /\ usCreds' = [i \in UsInbounds |-> IF UsTakes(i, n) THEN UsPut(usCreds[i], n, p) ELSE usCreds[i]]
      /\ UNCHANGED <<usList, usStats, usPw, usDisk, usKept, usTick, usHold, usBoots, usBroken, usRaced, usGone, usSafe>>
  BY <1>1, <1>8 DEF UsSetCreds, usTable, usPast
<1>10. ASSUME NEW i \in UsInbounds
       PROVE  /\ usCreds'[i] \in UsLists
              /\ UsTakes(i, n) => n \in DOMAIN usCreds'[i] /\ usCreds'[i][n] = p
              /\ \A m \in UsNames : m # n => UsSame(usCreds'[i], usCreds[i], m)
  <2>1. PICK g : g = usCreds[i]
    OBVIOUS
  <2>2. g \in UsLists /\ usCreds'[i] = IF UsTakes(i, n) THEN UsPut(g, n, p) ELSE g
    BY <1>9, <2>1 DEF UsInv, UsTyped
  <2>3. /\ UsPut(g, n, p) \in UsLists /\ DOMAIN UsPut(g, n, p) = DOMAIN g \cup {n} /\ UsPut(g, n, p)[n] = p
        /\ \A m \in DOMAIN g : m # n => UsPut(g, n, p)[m] = g[m]
    <3>1. n \in UsNames /\ p \in UsWords
      BY <1>3, <1>7, <1>8
    <3> QED
      BY <2>2, <3>1, UsPutIs
  <2> QED
    BY <2>1, <2>2, <2>3 DEF UsSame
<1>11. usCreds' \in [UsInbounds -> UsLists]
  BY <1>9, <1>10
<1>12. ASSUME o.name \notin usRaced PROVE UsUnderWay(o.name, q)'
  <2>1. UsUnderWay(n, o)
    BY <1>7, <1>8, <1>12
  <2>2. \A i \in UsInbounds : UsTakes(i, n) => UsHas(usCreds'[i], n, q)
    BY <1>3, <1>7, <1>8, <1>10 DEF UsHas
  <2>3. n \notin usGone' /\ \A i \in UsInbounds : UsHas(usList'[i], n, q)
    BY <1>7, <1>9, <2>1 DEF UsUnderWay, UsHas
  <2>4. UsUnderWay(n, q)'
    BY <1>3, <1>7, <2>2, <2>3 DEF UsUnderWay, UsEarly
  <2> QED
    BY <1>8, <2>4
<1>13. \A m \in UsNames : m # o.name => UsSame(usPw', usPw, m) /\ (m \in usStats' <=> m \in usStats)
  BY <1>9, UsSameStays
<1>14. usPw' \in UsLists /\ usStats' \subseteq UsNames
  BY <1>9 DEF UsInv, UsTyped
<1>15. UsOf(o.name) \/ o.name \in usRaced
  BY <1>7
<1> QED
  BY <1>1, <1>7, <1>8, <1>9, <1>10, <1>11, <1>12, <1>13, <1>14, UsRegistry

\* then the counters,
LEMMA UsUpsertInv ==
  ASSUME UsInv, NEW a \in UsAdmins, UsUpsert(a)
  PROVE  UsInv'
<1>1. PICK o : o = usOp[a]
  OBVIOUS
<1>2. PICK q : q = [o EXCEPT !.pc = "words"]
  OBVIOUS
<1>3. PICK from, do, to : from = "stats" /\ do = "add" /\ to = "words" /\ q = [o EXCEPT !.pc = to]
  BY <1>2
<1>4. UsStep(a, from, do, to)
  BY <1>3 DEF UsUpsert
<1>5. UsOrder(from, do, to)
  BY <1>3 DEF UsOrder
<1>6. q = [o EXCEPT !.pc = to]
  BY <1>3
<1>7. /\ q.pc = to /\ q.do = do /\ o.do = do /\ o.pc = from /\ q.name = o.name /\ q.pw = o.pw /\ q.todo = {} /\ o.todo = {}
      /\ o.name \in UsNames /\ o.name # "none" /\ (do = "add" => o.pw \in UsWords)
      /\ o.name \notin usRaced => UsOf(o.name) /\ UsUnderWay(o.name, o)
      /\ usOp' \in [UsAdmins -> UsChanges] /\ usOp'[a] = q
      /\ \A b \in UsAdmins : b # a => usOp'[b] = usOp[b]
      /\ \A b \in UsAdmins : UsOpOK(usOp'[b])
  <2>1. UsWent(a, o, q, from, do, to)
    BY <1>1, <1>4, <1>5, <1>6, UsSteps
  <2> QED
    BY <2>1 DEF UsWent
<1>8. PICK n : n = o.name
  OBVIOUS
<1>9. /\ usStats' = usStats \cup {n}
      /\ UNCHANGED <<usList, usCreds, usPw, usDisk, usKept, usTick, usHold, usBoots, usBroken, usRaced, usGone, usSafe>>
  BY <1>1, <1>8 DEF UsUpsert, usTable, usPast
<1>10. usCreds' \in [UsInbounds -> UsLists] /\ usPw' \in UsLists /\ usStats' \subseteq UsNames
  BY <1>7, <1>8, <1>9 DEF UsInv, UsTyped
<1>11. ASSUME o.name \notin usRaced PROVE UsUnderWay(o.name, q)'
  <2>1. UsUnderWay(n, o)
    BY <1>7, <1>8, <1>11
  <2>2. UsUnderWay(n, q)'
    BY <1>3, <1>7, <1>9, <2>1 DEF UsUnderWay, UsHas, UsEarly
  <2> QED
    BY <1>8, <2>2
<1>12. \A m \in UsNames : m # o.name =>
         /\ \A i \in UsInbounds : UsSame(usCreds'[i], usCreds[i], m)
         /\ UsSame(usPw', usPw, m) /\ (m \in usStats' <=> m \in usStats)
  BY <1>8, <1>9, UsSameStays
<1> QED
  BY <1>1, <1>7, <1>9, <1>10, <1>11, <1>12, UsRegistry

\* then the password.
LEMMA UsSetPasswordInv ==
  ASSUME UsInv, NEW a \in UsAdmins, UsSetPassword(a)
  PROVE  UsInv'
<1>1. PICK o : o = usOp[a]
  OBVIOUS
<1>2. PICK q : q = [o EXCEPT !.pc = "read"]
  OBVIOUS
<1>3. PICK from, do, to : from = "words" /\ do = "add" /\ to = "read" /\ q = [o EXCEPT !.pc = to]
  BY <1>2
<1>4. UsStep(a, from, do, to)
  BY <1>3 DEF UsSetPassword
<1>5. UsOrder(from, do, to)
  BY <1>3 DEF UsOrder
<1>6. q = [o EXCEPT !.pc = to]
  BY <1>3
<1>7. /\ q.pc = to /\ q.do = do /\ o.do = do /\ o.pc = from /\ q.name = o.name /\ q.pw = o.pw /\ q.todo = {} /\ o.todo = {}
      /\ o.name \in UsNames /\ o.name # "none" /\ (do = "add" => o.pw \in UsWords)
      /\ o.name \notin usRaced => UsOf(o.name) /\ UsUnderWay(o.name, o)
      /\ usOp' \in [UsAdmins -> UsChanges] /\ usOp'[a] = q
      /\ \A b \in UsAdmins : b # a => usOp'[b] = usOp[b]
      /\ \A b \in UsAdmins : UsOpOK(usOp'[b])
  <2>1. UsWent(a, o, q, from, do, to)
    BY <1>1, <1>4, <1>5, <1>6, UsSteps
  <2> QED
    BY <2>1 DEF UsWent
<1>8. PICK n, p, w : n = o.name /\ p = o.pw /\ w = usPw
  OBVIOUS
<1>9. /\ usPw' = UsPut(w, n, p)
      /\ UNCHANGED <<usList, usCreds, usStats, usDisk, usKept, usTick, usHold, usBoots, usBroken, usRaced, usGone, usSafe>>
  BY <1>1, <1>8 DEF UsSetPassword, usTable, usPast
<1>10. /\ UsPut(w, n, p) \in UsLists /\ DOMAIN UsPut(w, n, p) = DOMAIN w \cup {n} /\ UsPut(w, n, p)[n] = p
       /\ \A m \in DOMAIN w : m # n => UsPut(w, n, p)[m] = w[m]
  <2>1. w \in UsLists
    BY <1>8 DEF UsInv, UsTyped
  <2> QED
    <3>1. n \in UsNames /\ p \in UsWords
      BY <1>3, <1>7, <1>8
    <3> QED
      BY <2>1, <3>1, UsPutIs
<1>11. usCreds' \in [UsInbounds -> UsLists] /\ usPw' \in UsLists /\ usStats' \subseteq UsNames
  BY <1>9, <1>10 DEF UsInv, UsTyped
<1>12. ASSUME o.name \notin usRaced PROVE UsUnderWay(o.name, q)'
  <2>1. UsUnderWay(n, o)
    BY <1>7, <1>8, <1>12
  <2>2. UsHas(usPw', n, q)
    BY <1>3, <1>7, <1>8, <1>9, <1>10 DEF UsHas
  <2>3. /\ n \notin usGone' /\ n \in usStats' /\ \A i \in UsInbounds : UsHas(usList'[i], n, q)
        /\ \A i \in UsInbounds : UsTakes(i, n) => UsHas(usCreds'[i], n, q)
    BY <1>3, <1>7, <1>9, <2>1 DEF UsUnderWay, UsHas, UsEarly
  <2>4. UsUnderWay(n, q)'
    BY <1>3, <1>7, <2>2, <2>3 DEF UsUnderWay, UsEarly
  <2> QED
    BY <1>8, <2>4
<1>13. \A m \in UsNames : m # o.name =>
         /\ \A i \in UsInbounds : UsSame(usCreds'[i], usCreds[i], m)
         /\ UsSame(usPw', usPw, m) /\ (m \in usStats' <=> m \in usStats)
  <2>1. \A m \in UsNames : m # n => UsSame(usPw', usPw, m)
    BY <1>8, <1>9, <1>10 DEF UsSame
  <2> QED
    BY <1>8, <1>9, <2>1, UsSameStays
<1> QED
  BY <1>1, <1>7, <1>9, <1>11, <1>12, <1>13, UsRegistry

\* Observer::remove_user drops the counters, which no save holds,
LEMMA UsDropStatsInv ==
  ASSUME UsInv, NEW a \in UsAdmins, UsDropStats(a)
  PROVE  UsInv'
<1>1. PICK o : o = usOp[a]
  OBVIOUS
<1>2. PICK q : q = [o EXCEPT !.pc = "words"]
  OBVIOUS
<1>3. PICK from, do, to : from = "commit" /\ do = "remove" /\ to = "words" /\ q = [o EXCEPT !.pc = to]
  BY <1>2
<1>4. UsStep(a, from, do, to) /\ UsOrder(from, do, to)
  BY <1>3 DEF UsDropStats, UsOrder
<1>5. q = [o EXCEPT !.pc = to]
  BY <1>3
<1>6. UsWent(a, o, q, from, do, to)
  BY <1>1, <1>4, <1>5, UsSteps
<1>7. PICK n : n = o.name
  OBVIOUS
<1>8. /\ usStats' = usStats \ {n} /\ usHold.name # n
      /\ UNCHANGED <<usList, usCreds, usPw, usDisk, usKept, usTick, usHold, usBoots, usBroken, usRaced, usGone, usSafe>>
  BY <1>1, <1>7 DEF UsDropStats, usTable, usPast, UsHeld
<1>9. usCreds' \in [UsInbounds -> UsLists] /\ usPw' \in UsLists /\ usStats' \subseteq UsNames
  BY <1>8 DEF UsInv, UsTyped
<1>10. ASSUME o.name \notin usRaced PROVE UsUnderWay(o.name, q)'
  <2>1. UsUnderWay(n, o)
    BY <1>6, <1>7, <1>10 DEF UsWent
  <2>2. q.pc = "words" /\ q.do = "remove" /\ o.do = "remove" /\ q.todo = {} /\ o.todo = {}
    BY <1>3, <1>6 DEF UsWent
  <2>3. UsUnderWay(n, q)'
    BY <1>8, <2>1, <2>2 DEF UsUnderWay, UsHas, UsEarly
  <2> QED
    BY <1>7, <2>3
<1>11. \A m \in UsNames : m # o.name =>
         /\ \A i \in UsInbounds : UsSame(usCreds'[i], usCreds[i], m)
         /\ UsSame(usPw', usPw, m) /\ (m \in usStats' <=> m \in usStats)
  BY <1>7, <1>8, UsSameStays
<1> QED
  BY <1>1, <1>6, <1>8, <1>9, <1>10, <1>11, UsRegistry DEF UsWent

\* then the password,
LEMMA UsDropPasswordInv ==
  ASSUME UsInv, NEW a \in UsAdmins, UsDropPassword(a)
  PROVE  UsInv'
<1>1. PICK o : o = usOp[a]
  OBVIOUS
<1>2. PICK q : q = [o EXCEPT !.pc = "creds"]
  OBVIOUS
<1>3. PICK from, do, to : from = "words" /\ do = "remove" /\ to = "creds" /\ q = [o EXCEPT !.pc = to]
  BY <1>2
<1>4. UsStep(a, from, do, to) /\ UsOrder(from, do, to)
  BY <1>3 DEF UsDropPassword, UsOrder
<1>5. q = [o EXCEPT !.pc = to]
  BY <1>3
<1>6. UsWent(a, o, q, from, do, to)
  BY <1>1, <1>4, <1>5, UsSteps
<1>7. PICK n, w : n = o.name /\ w = usPw
  OBVIOUS
<1>8. /\ usPw' = UsDel(w, n)
      /\ UNCHANGED <<usList, usCreds, usStats, usDisk, usKept, usTick, usHold, usBoots, usBroken, usRaced, usGone, usSafe>>
  BY <1>1, <1>7 DEF UsDropPassword, usTable, usPast
<1>9. UsDel(w, n) \in UsLists /\ DOMAIN UsDel(w, n) = DOMAIN w \ {n} /\ \A m \in DOMAIN w : m # n => UsDel(w, n)[m] = w[m]
  <2>1. w \in UsLists
    BY <1>7 DEF UsInv, UsTyped
  <2> QED
    BY <2>1, UsDelIs
<1>10. usCreds' \in [UsInbounds -> UsLists] /\ usPw' \in UsLists /\ usStats' \subseteq UsNames
  BY <1>8, <1>9 DEF UsInv, UsTyped
<1>11. ASSUME o.name \notin usRaced PROVE UsUnderWay(o.name, q)'
  <2>1. UsUnderWay(n, o)
    BY <1>6, <1>7, <1>11 DEF UsWent
  <2>2. q.pc = "creds" /\ o.pc = "words" /\ q.do = "remove" /\ o.do = "remove" /\ q.todo = {} /\ o.todo = {}
    BY <1>3, <1>6 DEF UsWent
  <2>3. UsHas(usPw', n, q)
    BY <1>8, <1>9, <2>2 DEF UsHas
  <2>4. UsUnderWay(n, q)'
    BY <1>8, <2>1, <2>2, <2>3 DEF UsUnderWay, UsHas, UsEarly
  <2> QED
    BY <1>7, <2>4
<1>12. \A m \in UsNames : m # o.name =>
         /\ \A i \in UsInbounds : UsSame(usCreds'[i], usCreds[i], m)
         /\ UsSame(usPw', usPw, m) /\ (m \in usStats' <=> m \in usStats)
  <2>1. \A m \in UsNames : m # n => UsSame(usPw', usPw, m)
    BY <1>7, <1>8, <1>9 DEF UsSame
  <2> QED
    BY <1>7, <1>8, <2>1, UsSameStays
<1> QED
  BY <1>1, <1>6, <1>8, <1>10, <1>11, <1>12, UsRegistry DEF UsWent

\* then the credentials.
LEMMA UsDropCredsInv ==
  ASSUME UsInv, NEW a \in UsAdmins, UsDropCreds(a)
  PROVE  UsInv'
<1>1. PICK o : o = usOp[a]
  OBVIOUS
<1>2. PICK q : q = [o EXCEPT !.pc = "delete"]
  OBVIOUS
<1>3. PICK from, do, to : from = "creds" /\ do = "remove" /\ to = "delete" /\ q = [o EXCEPT !.pc = to]
  BY <1>2
<1>4. UsStep(a, from, do, to) /\ UsOrder(from, do, to)
  BY <1>3 DEF UsDropCreds, UsOrder
<1>5. q = [o EXCEPT !.pc = to]
  BY <1>3
<1>6. UsWent(a, o, q, from, do, to)
  BY <1>1, <1>4, <1>5, UsSteps
<1>7. PICK n : n = o.name
  OBVIOUS
<1>8. /\ usCreds' = [i \in UsInbounds |-> UsDel(usCreds[i], n)]
      /\ UNCHANGED <<usList, usPw, usStats, usDisk, usKept, usTick, usHold, usBoots, usBroken, usRaced, usGone, usSafe>>
  BY <1>1, <1>7 DEF UsDropCreds, usTable, usPast
<1>9. ASSUME NEW i \in UsInbounds
      PROVE  /\ usCreds'[i] \in UsLists /\ n \notin DOMAIN usCreds'[i]
             /\ \A m \in UsNames : m # n => UsSame(usCreds'[i], usCreds[i], m)
  <2>1. PICK g : g = usCreds[i]
    OBVIOUS
  <2>2. g \in UsLists /\ usCreds'[i] = UsDel(g, n)
    BY <1>8, <2>1 DEF UsInv, UsTyped
  <2>3. /\ UsDel(g, n) \in UsLists /\ DOMAIN UsDel(g, n) = DOMAIN g \ {n}
        /\ \A m \in DOMAIN g : m # n => UsDel(g, n)[m] = g[m]
    BY <2>2, UsDelIs
  <2> QED
    BY <2>1, <2>2, <2>3 DEF UsSame
<1>10. usCreds' \in [UsInbounds -> UsLists] /\ usPw' \in UsLists /\ usStats' \subseteq UsNames
  BY <1>8, <1>9 DEF UsInv, UsTyped
<1>11. ASSUME o.name \notin usRaced PROVE UsUnderWay(o.name, q)'
  <2>1. UsUnderWay(n, o)
    BY <1>6, <1>7, <1>11 DEF UsWent
  <2>2. q.pc = "delete" /\ o.pc = "creds" /\ q.do = "remove" /\ o.do = "remove" /\ q.todo = {} /\ o.todo = {}
    BY <1>3, <1>6 DEF UsWent
  <2>3. \A i \in UsInbounds : UsHas(usCreds'[i], n, q)
    BY <1>9, <2>2 DEF UsHas
  <2>4. UsUnderWay(n, q)'
    BY <1>8, <2>1, <2>2, <2>3 DEF UsUnderWay, UsHas, UsEarly
  <2> QED
    BY <1>7, <2>4
<1>12. \A m \in UsNames : m # o.name =>
         /\ \A i \in UsInbounds : UsSame(usCreds'[i], usCreds[i], m)
         /\ UsSame(usPw', usPw, m) /\ (m \in usStats' <=> m \in usStats)
  BY <1>7, <1>8, <1>9, UsSameStays
<1> QED
  BY <1>1, <1>6, <1>8, <1>10, <1>11, <1>12, UsRegistry DEF UsWent

\* The password a save reads is one.
LEMMA UsWordIs ==
  ASSUME UsTyped, NEW n
  PROVE  UsWord(n) \in UsWords
<1>1. PICK w : w = usPw
  OBVIOUS
<1>2. w \in UsLists
  BY <1>1 DEF UsTyped
<1>3. w \in [DOMAIN w -> UsWords]
  BY <1>2, UsListHas
<1>4. "" \in UsWords
  BY DEF UsWords
<1> QED
  BY <1>1, <1>3, <1>4 DEF UsWord

\* The save of an addition reads the password of the addition.
LEMMA UsSaveReadInv ==
  ASSUME UsInv, NEW a \in UsAdmins, UsSaveRead(a)
  PROVE  UsInv'
<1>1. PICK o : o = usOp[a]
  OBVIOUS
<1>2. PICK n, p : n = o.name /\ p = UsWord(n)
  OBVIOUS
<1>3. /\ o \in UsChanges /\ UsOpOK(o) /\ n \in UsNames /\ n # "none" /\ o.pc = "read"
      /\ n \notin usRaced => UsOf(n) /\ UsUnderWay(n, o)
  BY <1>1, <1>2, UsMine DEF UsSaveRead
<1>4. PICK q : q = IF n \in usStats THEN [o EXCEPT !.pc = "write", !.pw = p] ELSE UsNoOp
  OBVIOUS
<1>5. p \in UsWords
  BY <1>2, UsWordIs DEF UsInv
<1>6. /\ usOp' = [usOp EXCEPT ![a] = q]
      /\ UNCHANGED <<usList, usCreds, usStats, usPw, usDisk, usKept, usTick, usHold, usBoots, usBroken, usRaced, usGone, usSafe>>
  BY <1>1, <1>2, <1>4 DEF UsSaveRead, usMem, usTable, usPast
<1>7. CASE n \in usStats
  <2>1. /\ q \in UsChanges /\ q.pc = "write" /\ q.do = o.do /\ q.name = n /\ q.pw = p /\ q.todo = o.todo
    BY <1>2, <1>3, <1>4, <1>5, <1>7 DEF UsChanges
  <2>2. UsOpOK(q) /\ o.todo = {} /\ o.do = "add"
    BY <1>3, <1>5, <2>1 DEF UsOpOK
  <2>3. /\ usOp' \in [UsAdmins -> UsChanges] /\ usOp'[a] = q
        /\ \A b \in UsAdmins : b # a => usOp'[b] = usOp[b]
        /\ \A b \in UsAdmins : UsOpOK(usOp'[b])
    BY <1>6, <2>1, <2>2, UsMoves DEF UsInv
  <2>4. ASSUME n \notin usRaced PROVE UsUnderWay(n, q)'
    <3>1. UsUnderWay(n, o)
      BY <1>3, <2>4
    <3>2. UsHas(usPw, n, o)
      BY <1>3, <3>1 DEF UsUnderWay
    <3>3. q.pw = o.pw
      BY <1>2, <2>1, <2>2, <3>2 DEF UsHas, UsWord
    <3>4. /\ n \notin usGone /\ \A i \in UsInbounds : UsHas(usList[i], n, o)
          /\ \A i \in UsInbounds : UsTakes(i, n) => UsHas(usCreds[i], n, o)
      BY <1>3, <2>2, <3>1 DEF UsUnderWay, UsEarly
    <3> QED
      BY <1>6, <1>7, <2>1, <2>2, <3>2, <3>3, <3>4 DEF UsUnderWay, UsHas, UsEarly
  <2>5. usCreds' \in [UsInbounds -> UsLists] /\ usPw' \in UsLists /\ usStats' \subseteq UsNames
    BY <1>6 DEF UsInv, UsTyped
  <2>6. \A m \in UsNames : m # o.name =>
         /\ \A i \in UsInbounds : UsSame(usCreds'[i], usCreds[i], m)
         /\ UsSame(usPw', usPw, m) /\ (m \in usStats' <=> m \in usStats)
    BY <1>6, UsSameStays
  <2>7. o.name \in UsNames /\ o.name # "none" /\ q.name = o.name /\ (o.name \notin usRaced => UsOf(o.name) /\ UsUnderWay(o.name, q)')
    BY <1>2, <1>3, <2>1, <2>4
  <2> QED
    BY <1>1, <1>6, <2>3, <2>5, <2>6, <2>7, UsRegistry
<1>8. CASE n \notin usStats
  <2>1. n \in usRaced
    <3>1. o.do = "add"
      BY <1>3 DEF UsOpOK
    <3> QED
      BY <1>3, <1>8, <3>1 DEF UsUnderWay, UsEarly
  <2>2. q = UsNoOp
    BY <1>4, <1>8
  <2>3. /\ usOp' \in [UsAdmins -> UsChanges] /\ usOp'[a] = UsNoOp
        /\ \A b \in UsAdmins : b # a => usOp'[b] = usOp[b]
        /\ \A b \in UsAdmins : UsOpOK(usOp'[b])
    BY <1>6, <2>2, UsIdle, UsMoves DEF UsInv
  <2>4. UsTyped'
    BY <1>6, <2>3 DEF UsInv, UsTyped
  <2>5. ASSUME NEW m \in UsNames \ usRaced, m # n PROVE UsOf(m)'
    <3>1. /\ \A j \in UsInbounds : UsSame(usList'[j], usList[j], m) /\ UsSame(usCreds'[j], usCreds[j], m)
          /\ UsSame(usPw', usPw, m)
      BY <1>6, UsSameStays
    <3>2. usOp'[a].name = "none" /\ usOp[a].name = n
      BY <1>1, <1>2, <2>3, UsIdle
    <3> QED
      BY <1>6, <2>3, <2>5, <3>1, <3>2, UsApart
  <2> QED
    BY <1>6, <2>1, <2>4, <2>5 DEF UsInv
<1> QED
  BY <1>7, <1>8

\* What is written, or not, is a table again.
LEMMA UsWritten ==
  ASSUME NEW d \in UsLists, NEW n \in UsNames, NEW p \in UsWords, NEW e \in {UsPut(d, n, p), d}
  PROVE  e \in UsLists /\ DOMAIN e \subseteq DOMAIN d \cup {n}
<1>1. UsPut(d, n, p) \in UsLists /\ DOMAIN UsPut(d, n, p) = DOMAIN d \cup {n}
  BY UsPutIs
<1> QED
  BY <1>1

\* The request is answered; its name is at rest.
LEMMA UsAnswered ==
  ASSUME UsInv, NEW a \in UsAdmins, NEW n, n = usOp[a].name, n \in UsNames, n # "none", n \notin usRaced => UsOf(n),
         usOp' = [usOp EXCEPT ![a] = UsNoOp],
         UNCHANGED <<usList, usCreds, usStats, usPw, usKept, usTick, usHold, usBoots, usBroken, usRaced, usSafe>>,
         usDisk' \in UsLists, DOMAIN usDisk' \subseteq DOMAIN usDisk \cup {n}, usGone' \in {usGone, usGone \cup {n}},
         n \notin usRaced => UsAtRest(n)'
  PROVE  UsInv'
<1>1. /\ usOp' \in [UsAdmins -> UsChanges] /\ usOp'[a] = UsNoOp
      /\ \A b \in UsAdmins : b # a => usOp'[b] = usOp[b]
      /\ \A b \in UsAdmins : UsOpOK(usOp'[b])
  BY UsIdle, UsMoves DEF UsInv
<1>2. UsTyped'
  <2>1. usGone' \subseteq UsNames /\ usSafe' \subseteq usGone'
    BY DEF UsInv, UsTyped
  <2> QED
    BY <1>1, <2>1 DEF UsInv, UsTyped
<1>3. ASSUME NEW m \in UsNames \ usRaced, m # n PROVE UsOf(m)'
  <2>1. /\ \A j \in UsInbounds : UsSame(usList'[j], usList[j], m) /\ UsSame(usCreds'[j], usCreds[j], m)
        /\ UsSame(usPw', usPw, m)
    BY UsSameStays
  <2>2. usOp'[a].name = "none" /\ usOp[a].name = n
    BY <1>1, UsIdle
  <2>3. (m \in usGone' <=> m \in usGone) /\ (m \in DOMAIN usDisk' => m \in DOMAIN usDisk)
    BY <1>3
  <2> QED
    BY <1>1, <1>3, <2>1, <2>2, <2>3, UsApart
<1>4. ASSUME n \notin usRaced PROVE UsOf(n)'
  <2>1. usOp'[a].name # n /\ UsOf(n) /\ UsAtRest(n)'
    BY <1>1, <1>4, UsIdle
  <2> QED
    BY <1>1, <2>1, UsEnds
<1> QED
  BY <1>2, <1>3, <1>4 DEF UsInv

\* Every part of an addition is done: the name is the same everywhere.
LEMMA UsAdded ==
  ASSUME NEW n \in UsNames, NEW o, UsUnderWay(n, o), o.do = "add", o.pc = "write", o.todo = {}
  PROVE  n \notin usGone /\ UsKnown(n) /\ \A i \in UsInbounds : UsTakes(i, n) => UsSame(usList[i], usPw, n)
<1>1. n \notin usGone /\ n \in usStats /\ UsHas(usPw, n, o)
  BY DEF UsUnderWay, UsEarly
<1>2. ASSUME NEW i \in UsInbounds, UsTakes(i, n) PROVE UsSame(usList[i], usPw, n) /\ UsSame(usCreds[i], usPw, n)
  <2>1. UsHas(usList[i], n, o) /\ UsHas(usCreds[i], n, o)
    BY <1>2 DEF UsUnderWay, UsEarly
  <2> QED
    BY <1>1, <2>1 DEF UsHas, UsSame
<1> QED
  BY <1>1, <1>2 DEF UsKnown, UsHas

\* ... and of a removal.
LEMMA UsRemoved ==
  ASSUME NEW n \in UsNames, NEW o, UsUnderWay(n, o), o.do = "remove", o.pc = "delete", o.todo = {}
  PROVE  /\ n \notin usGone /\ n \notin usStats /\ usHold.name # n /\ UsKnown(n)
         /\ \A i \in UsInbounds : n \notin DOMAIN usList[i] /\ UsSame(usList[i], usPw, n)
<1>1. n \notin usGone /\ n \notin usStats /\ usHold.name # n /\ UsHas(usPw, n, o)
  BY DEF UsUnderWay, UsEarly
<1>2. ASSUME NEW i \in UsInbounds
      PROVE  n \notin DOMAIN usList[i] /\ UsSame(usList[i], usPw, n) /\ UsSame(usCreds[i], usPw, n)
  <2>1. UsHas(usList[i], n, o) /\ UsHas(usCreds[i], n, o)
    BY <1>2 DEF UsUnderWay, UsEarly
  <2> QED
    BY <1>1, <2>1 DEF UsHas, UsSame
<1> QED
  BY <1>1, <1>2 DEF UsKnown, UsHas

\* save_persisted writes the record of an addition, and the request is answered.
LEMMA UsSaveWriteInv ==
  ASSUME UsInv, NEW a \in UsAdmins, UsSaveWrite(a)
  PROVE  UsInv'
<1>1. PICK o : o = usOp[a]
  OBVIOUS
<1>2. PICK n, p, d : n = o.name /\ p = o.pw /\ d = usDisk
  OBVIOUS
<1>3. /\ o \in UsChanges /\ UsOpOK(o) /\ n \in UsNames /\ n # "none" /\ o.pc = "write"
      /\ n \notin usRaced => UsOf(n) /\ UsUnderWay(n, o)
  BY <1>1, <1>2, UsMine DEF UsSaveWrite
<1>4. o.do = "add" /\ p \in UsWords /\ o.todo = {}
  BY <1>2, <1>3 DEF UsOpOK
<1>5. /\ usOp' = [usOp EXCEPT ![a] = UsNoOp] /\ usDisk' \in {UsPut(d, n, p), d}
      /\ UNCHANGED <<usList, usCreds, usStats, usPw, usKept, usTick, usHold, usBoots, usBroken, usRaced, usGone, usSafe>>
  BY <1>1, <1>2 DEF UsSaveWrite, usMem, usPast
<1>6. usDisk' \in UsLists /\ DOMAIN usDisk' \subseteq DOMAIN usDisk \cup {n}
  <2>1. d \in UsLists
    BY <1>2 DEF UsInv, UsTyped
  <2>2. PICK e : e = usDisk'
    OBVIOUS
  <2>3. e \in UsLists /\ DOMAIN e \subseteq DOMAIN d \cup {n}
    BY <1>3, <1>4, <1>5, <2>1, <2>2, UsWritten
  <2> QED
    BY <1>2, <2>2, <2>3
<1>7. ASSUME n \notin usRaced PROVE UsAtRest(n)'
  <2>1. n \notin usGone /\ UsKnown(n) /\ \A i \in UsInbounds : UsTakes(i, n) => UsSame(usList[i], usPw, n)
    BY <1>3, <1>4, <1>7, UsAdded
  <2>2. UsKnown(n)'
    BY <1>5, <2>1 DEF UsKnown
  <2> QED
    BY <1>5, <2>1, <2>2 DEF UsAtRest
<1>8. n = usOp[a].name /\ (n \notin usRaced => UsOf(n)) /\ usGone' \in {usGone, usGone \cup {n}}
  BY <1>1, <1>2, <1>3, <1>5
<1> QED
  BY <1>3, <1>5, <1>6, <1>7, <1>8, UsAnswered

\* remove_user deletes the record, and the request is answered.
LEMMA UsDeleteInv ==
  ASSUME UsInv, NEW a \in UsAdmins, UsDelete(a)
  PROVE  UsInv'
<1>1. PICK o : o = usOp[a]
  OBVIOUS
<1>2. PICK n, d : n = o.name /\ d = usDisk
  OBVIOUS
<1>3. /\ o \in UsChanges /\ UsOpOK(o) /\ n \in UsNames /\ n # "none" /\ o.pc = "delete"
      /\ n \notin usRaced => UsOf(n) /\ UsUnderWay(n, o)
  BY <1>1, <1>2, UsMine DEF UsDelete
<1>4. o.do = "remove" /\ o.todo = {}
  BY <1>3 DEF UsOpOK
<1>5. /\ usOp' = [usOp EXCEPT ![a] = UsNoOp]
      /\ (usDisk' = UsDel(d, n) /\ usGone' = usGone \cup {n}) \/ (usDisk' = d /\ usGone' = usGone)
      /\ UNCHANGED <<usList, usCreds, usStats, usPw, usKept, usTick, usHold, usBoots, usBroken, usRaced, usSafe>>
  BY <1>1, <1>2 DEF UsDelete, usMem
<1>6. UsDel(d, n) \in UsLists /\ DOMAIN UsDel(d, n) = DOMAIN d \ {n} /\ d \in UsLists
  <2>1. d \in UsLists
    BY <1>2 DEF UsInv, UsTyped
  <2> QED
    BY <2>1, UsDelIs
<1>7. /\ usDisk' \in UsLists /\ DOMAIN usDisk' \subseteq DOMAIN usDisk \cup {n}
      /\ usGone' \in {usGone, usGone \cup {n}} /\ (n \in usGone' => n \in usGone \/ n \notin DOMAIN usDisk')
  BY <1>2, <1>5, <1>6
<1>8. ASSUME n \notin usRaced PROVE UsAtRest(n)'
  <2>1. /\ n \notin usGone /\ n \notin usStats /\ usHold.name # n /\ UsKnown(n)
        /\ \A i \in UsInbounds : n \notin DOMAIN usList[i] /\ UsSame(usList[i], usPw, n)
    BY <1>3, <1>4, <1>8, UsRemoved
  <2>2. UsKnown(n)'
    BY <1>5, <2>1 DEF UsKnown
  <2>3. n \notin usSafe
    BY <2>1 DEF UsInv, UsTyped
  <2> QED
    BY <1>5, <1>7, <2>1, <2>2, <2>3 DEF UsAtRest
<1>9. n = usOp[a].name /\ (n \notin usRaced => UsOf(n))
  BY <1>1, <1>2, <1>3
<1> QED
  BY <1>3, <1>5, <1>7, <1>8, <1>9, UsAnswered

\* The periodic save reads only users that have counters and writes what it read; a
\* flush makes durable what is there.
LEMMA UsSaverInv ==
  ASSUME UsInv, UsSaver
  PROVE  UsInv'
<1>1. /\ UNCHANGED <<usList, usCreds, usStats, usPw, usOp, usBoots, usBroken, usRaced, usGone>>
      /\ usTick' \subseteq UsNames /\ usDisk' \in UsLists /\ usKept' \in UsLists /\ usSafe' \subseteq usGone
      /\ usHold' \in UsRecords /\ (usHold'.name # "none" => usHold'.pw \in UsWords)
      /\ usHold'.name # "none" => usHold'.name = usHold.name \/ usHold'.name \in usStats
      /\ DOMAIN usDisk' \subseteq DOMAIN usDisk \cup ({usHold.name} \ {"none"})
      /\ (usSafe' = usSafe /\ usKept' = usKept) \/ (usKept' = usDisk)
  <2>1. UsTyped
    BY DEF UsInv
  <2>2. UsNoRecord \in UsRecords /\ UsNoRecord.name = "none"
    BY DEF UsNoRecord, UsRecords
  <2>3. CASE UsPersist
    BY <2>1, <2>3 DEF UsPersist, usMem, UsTyped
  <2>4. CASE \E n \in UsNames : UsPersistRead(n)
    <3>1. PICK n \in UsNames : UsPersistRead(n)
      BY <2>4
    <3>2. PICK r : r = UsRead(n)
      OBVIOUS
    <3>3. /\ r \in UsRecords /\ (r.name # "none" => r.pw \in UsWords /\ r.name \in usStats)
      <4>1. CASE n \in usStats
        <5>1. PICK p \in UsWords : p = UsWord(n)
          BY <2>1, UsWordIs
        <5>2. r = [name |-> n, pw |-> p]
          BY <3>2, <4>1, <5>1 DEF UsRead
        <5> QED
          BY <4>1, <5>2 DEF UsRecords
      <4>2. CASE n \notin usStats
        BY <2>2, <3>2, <4>2 DEF UsRead
      <4> QED
        BY <4>1, <4>2
    <3>4. /\ usHold' = r /\ usTick' = usTick \ {n}
          /\ UNCHANGED <<usList, usCreds, usStats, usPw, usOp, usBoots, usBroken, usRaced, usGone, usDisk, usKept, usSafe>>
      BY <3>1, <3>2 DEF UsPersistRead, usMem, usPast
    <3> QED
      BY <2>1, <3>3, <3>4 DEF UsTyped
  <2>5. CASE UsPersistWrite
    <3>1. PICK n, p, d, e : n = usHold.name /\ p = usHold.pw /\ d = usDisk /\ e = usDisk'
      OBVIOUS
    <3>2. /\ e \in {UsPut(d, n, p), d} /\ n # "none" /\ usHold' = UsNoRecord
          /\ UNCHANGED <<usList, usCreds, usStats, usPw, usOp, usBoots, usBroken, usRaced, usGone, usTick, usKept, usSafe>>
      BY <2>5, <3>1 DEF UsPersistWrite, usMem, usPast
    <3>3. e \in UsLists /\ DOMAIN e \subseteq DOMAIN d \cup ({n} \ {"none"})
      <4>1. d \in UsLists /\ n \in UsNames \cup {"none"} /\ (n # "none" => p \in UsWords)
        BY <2>1, <3>1 DEF UsTyped, UsRecords
      <4>2. n \in UsNames /\ p \in UsWords
        BY <3>2, <4>1
      <4>3. e \in UsLists /\ DOMAIN e \subseteq DOMAIN d \cup {n}
        BY <3>2, <4>1, <4>2, UsWritten
      <4> QED
        BY <3>2, <4>3
    <3> QED
      BY <2>1, <2>2, <3>1, <3>2, <3>3 DEF UsTyped
  <2>6. CASE UsFlush
    BY <2>1, <2>6 DEF UsFlush, usMem, UsTyped
  <2> QED
    BY <2>3, <2>4, <2>5, <2>6 DEF UsSaver
<1>2. UsTyped'
  BY <1>1 DEF UsInv, UsTyped
<1>3. ASSUME NEW m \in UsNames \ usRaced PROVE UsOf(m)'
  <2>1. UsTyped /\ UsOf(m) /\ m # "none"
    BY UsAssumption DEF UsInv
  <2>2. /\ \A j \in UsInbounds : UsSame(usList'[j], usList[j], m) /\ UsSame(usCreds'[j], usCreds[j], m)
        /\ UsSame(usPw', usPw, m)
    BY <1>1, UsSameStays
  <2>3. usHold'.name = m => usHold.name = m \/ m \in usStats
    BY <1>1, <2>1
  <2>4. m \in DOMAIN usDisk' => m \in DOMAIN usDisk \/ usHold.name = m \/ \E a \in UsAdmins : usOp[a].name = m
    BY <1>1
  <2>5. m \in usSafe' /\ m \in DOMAIN usKept' => (m \in usSafe /\ m \in DOMAIN usKept) \/ m \in DOMAIN usDisk
    BY <1>1
  <2>6. \A a \in UsAdmins : (usOp'[a].name = m <=> usOp[a].name = m) /\ (usOp[a].name = m => usOp'[a] = usOp[a])
    BY <1>1
  <2> QED
    BY <1>1, <2>1, <2>2, <2>3, <2>4, <2>5, <2>6, UsOthers
<1> QED
  BY <1>1, <1>2, <1>3 DEF UsInv

\* What an inbound starts with agrees with the registry for the names it takes.
LEMMA UsBootIs ==
  ASSUME NEW d \in UsLists, UsBoot(d)
  PROVE  /\ usList' \in [UsInbounds -> UsLists] /\ usCreds' = usList' /\ usPw' \in UsLists
         /\ usStats' = DOMAIN d \cup DOMAIN UsConfig /\ DOMAIN usPw' \subseteq usStats'
         /\ \A i \in UsInbounds : DOMAIN usList'[i] \subseteq usStats'
         /\ \A i \in UsInbounds, m \in UsNames : UsTakes(i, m) => UsSame(usList'[i], usPw', m)
<1>1. PICK c, h, H : c = UsConfig /\ h = UsLoaded(d) /\ H = {n \in DOMAIN d : d[n] # ""}
  OBVIOUS
<1>2. c \in UsLists
  BY <1>1, UsConfigIs
<1>3. H \in SUBSET DOMAIN d
  BY <1>1
<1>4. h \in UsLists /\ DOMAIN h = H
  <2>1. h = Restrict(d, H)
    BY <1>1 DEF UsLoaded
  <2> QED
    BY <1>3, <2>1, UsRestrictIs
<1>5. PICK w : w = UsMerge(c, h)
  OBVIOUS
<1>6. w \in UsLists /\ DOMAIN w = DOMAIN c \cup H /\ \A m \in DOMAIN c \cup H : w[m] = IF m \in DOMAIN c THEN c[m] ELSE h[m]
  <2>1. /\ UsMerge(c, h) \in UsLists /\ DOMAIN UsMerge(c, h) = DOMAIN c \cup DOMAIN h
        /\ \A m \in DOMAIN c \cup DOMAIN h : UsMerge(c, h)[m] = IF m \in DOMAIN c THEN c[m] ELSE h[m]
    BY <1>2, <1>4, UsMergeIs
  <2> QED
    BY <1>4, <1>5, <2>1
<1>7. usPw' = w /\ usStats' = DOMAIN d \cup DOMAIN c
  BY <1>1, <1>5 DEF UsBoot
<1>8. ASSUME NEW i \in UsInbounds
      PROVE  /\ usList'[i] \in UsLists /\ DOMAIN usList'[i] \subseteq DOMAIN c \cup H
             /\ \A m \in UsNames : UsTakes(i, m) => UsSame(usList'[i], w, m)
  <2>1. PICK S, g, l : S = {n \in DOMAIN h : UsTakes(i, n)} /\ g = Restrict(h, S) /\ l = usList'[i]
    OBVIOUS
  <2>2. S \in SUBSET DOMAIN h
    BY <2>1
  <2>3. g \in UsLists /\ DOMAIN g = S /\ \A m \in S : g[m] = h[m]
    BY <1>4, <2>1, <2>2, UsRestrictIs
  <2>4. l = UsMerge(c, g)
    BY <1>1, <2>1 DEF UsBoot
  <2>5. l \in UsLists /\ DOMAIN l = DOMAIN c \cup DOMAIN g
        /\ \A m \in DOMAIN c \cup DOMAIN g : l[m] = IF m \in DOMAIN c THEN c[m] ELSE g[m]
    <3>1. /\ UsMerge(c, g) \in UsLists /\ DOMAIN UsMerge(c, g) = DOMAIN c \cup DOMAIN g
          /\ \A m \in DOMAIN c \cup DOMAIN g : UsMerge(c, g)[m] = IF m \in DOMAIN c THEN c[m] ELSE g[m]
      BY <1>2, <2>3, UsMergeIs
    <3> QED
      BY <2>4, <3>1
  <2>6. l \in UsLists /\ DOMAIN l = DOMAIN c \cup S
        /\ \A m \in DOMAIN c \cup S : l[m] = IF m \in DOMAIN c THEN c[m] ELSE h[m]
    BY <2>3, <2>5
  <2>7. ASSUME NEW m \in UsNames, UsTakes(i, m) PROVE UsSame(l, w, m)
    <3>1. m \in H => m \in S
      BY <1>4, <2>1, <2>7
    <3> QED
      BY <1>4, <1>6, <2>2, <2>6, <3>1 DEF UsSame
  <2> QED
    BY <1>4, <2>1, <2>2, <2>6, <2>7
<1>9. usList' = [i \in UsInbounds |-> usList'[i]] /\ usCreds' = usList'
  BY DEF UsBoot
<1>10. usList' \in [UsInbounds -> UsLists]
  BY <1>8, <1>9
<1>11. DOMAIN usPw' \subseteq usStats' /\ \A i \in UsInbounds : DOMAIN usList'[i] \subseteq usStats'
  BY <1>1, <1>3, <1>6, <1>7, <1>8
<1> QED
  BY <1>1, <1>6, <1>7, <1>8, <1>9, <1>10, <1>11

\* No user that is gone is in the table, however the process stops.
LEMMA UsTableLeft ==
  ASSUME UsInv, UsRestart, NEW m \in usGone' \ (DOMAIN UsConfig \cup usRaced)
  PROVE  m \notin DOMAIN usDisk'
<1>1. m \in usGone /\ m \in UsNames
  BY DEF UsInv, UsTyped, UsRestart
<1>2. UsOf(m)
  BY <1>1 DEF UsInv
<1>3. \A a \in UsAdmins : usOp[a].name # m
  BY <1>1, <1>2 DEF UsOf, UsUnderWay
<1>4. UsAtRest(m)
  BY <1>2, <1>3 DEF UsOf
<1>5. m \notin DOMAIN usDisk /\ (m \in usSafe => m \notin DOMAIN usKept)
  BY <1>1, <1>4 DEF UsAtRest
<1> QED
  BY <1>5 DEF UsRestart

\* After a restart nothing is under way and everyone who is on disk or configured is known.
LEMMA UsRestartInv ==
  ASSUME UsInv, UsRestart
  PROVE  UsInv'
<1>1. PICK d : d = usDisk'
  OBVIOUS
<1>2. d \in UsLists /\ UsBoot(d)
  <2>1. usDisk \in UsLists /\ usKept \in UsLists
    BY DEF UsInv, UsTyped
  <2> QED
    BY <1>1, <2>1 DEF UsRestart
<1>3. /\ usList' \in [UsInbounds -> UsLists] /\ usCreds' = usList' /\ usPw' \in UsLists
      /\ usStats' = DOMAIN d \cup DOMAIN UsConfig /\ DOMAIN usPw' \subseteq usStats'
      /\ \A i \in UsInbounds : DOMAIN usList'[i] \subseteq usStats'
      /\ \A i \in UsInbounds, m \in UsNames : UsTakes(i, m) => UsSame(usList'[i], usPw', m)
  BY <1>2, UsBootIs
<1>4. /\ usOp' = [a \in UsAdmins |-> UsNoOp] /\ usTick' = {} /\ UNCHANGED <<usBroken, usRaced>>
      /\ usHold' = UsNoRecord /\ usKept' = usDisk' /\ usSafe' = usGone' /\ usBoots' = usBoots + 1
  BY DEF UsRestart
<1>5. UsNoOp \in UsChanges /\ UsOpOK(UsNoOp) /\ UsNoOp.name = "none" /\ "none" \notin UsNames
  BY UsIdle, UsAssumption
<1>6. usOp' \in [UsAdmins -> UsChanges] /\ \A a \in UsAdmins : usOp'[a] = UsNoOp
  BY <1>4, <1>5
<1>7. \A a \in UsAdmins : UsOpOK(usOp'[a]) /\ usOp'[a].name = "none"
  BY <1>5, <1>6
<1>8. usHold' \in UsRecords /\ usHold'.name = "none" /\ usBoots' \in Nat /\ usBoots' > 0
  <2>1. usBoots \in Nat
    BY DEF UsInv, UsTyped
  <2>2. usHold' \in UsRecords /\ usHold'.name = "none"
    BY <1>4 DEF UsRecords, UsNoRecord
  <2> QED
    BY <1>4, <2>1, <2>2
<1>9. usGone' \subseteq UsNames /\ usStats' \subseteq UsNames /\ usDisk' \in UsLists
  <2>1. usGone' \subseteq UsNames
    BY DEF UsInv, UsTyped, UsRestart
  <2>2. DOMAIN d \subseteq UsNames /\ DOMAIN UsConfig \subseteq UsNames
    BY <1>2, UsListHas, UsConfigIs
  <2> QED
    BY <1>1, <1>2, <1>3, <2>1, <2>2
<1>10. UsTyped'
  BY <1>3, <1>4, <1>6, <1>7, <1>8, <1>9 DEF UsTyped
<1>11. ASSUME NEW m \in UsNames \ usRaced PROVE UsOf(m)'
  <2>1. UsKnown(m)' /\ \A i \in UsInbounds : UsTakes(i, m) => UsSame(usList'[i], usPw', m)
    <3>1. m \in DOMAIN usPw' => m \in usStats'
      BY <1>3
    <3>2. \A i \in UsInbounds : UsTakes(i, m) => UsSame(usList'[i], usPw', m) /\ UsSame(usCreds'[i], usPw', m)
      BY <1>3
    <3> QED
      BY <1>8, <3>1, <3>2 DEF UsKnown
  <2>2. ASSUME m \in usGone' \ DOMAIN UsConfig
        PROVE  /\ m \notin usStats' /\ m \notin DOMAIN usDisk' /\ m \notin DOMAIN usKept'
               /\ usHold'.name # m /\ \A i \in UsInbounds : m \notin DOMAIN usList'[i]
    <3>1. m \notin DOMAIN usDisk'
      BY <2>2, UsTableLeft
    <3>2. m \notin usStats'
      BY <1>1, <1>3, <2>2, <3>1
    <3>3. usHold'.name # m
      BY <1>5, <1>8
    <3> QED
      BY <1>3, <1>4, <3>1, <3>2, <3>3
  <2>3. UsAtRest(m)'
    BY <2>1, <2>2 DEF UsAtRest
  <2>4. \A a \in UsAdmins : usOp'[a].name # m
    BY <1>5, <1>7
  <2> QED
    BY <2>3, <2>4 DEF UsOf
<1> QED
  BY <1>4, <1>10, <1>11 DEF UsInv

\* The first state satisfies the invariant of the users.
LEMMA UsInitInv ==
  ASSUME UsInit
  PROVE  UsInv
<1>1. PICK c : c = UsConfig
  OBVIOUS
<1>2. c \in UsLists /\ UsNone \in UsLists /\ DOMAIN c \subseteq UsNames
  BY <1>1, UsConfigIs, UsListHas
<1>3. /\ usList = [i \in UsInbounds |-> c] /\ usCreds = [i \in UsInbounds |-> c] /\ usPw = c /\ usStats = DOMAIN c
      /\ usDisk = UsNone /\ usKept = UsNone /\ usOp = [a \in UsAdmins |-> UsNoOp] /\ usTick = {} /\ usGone = {}
      /\ usSafe = {} /\ usHold = UsNoRecord /\ usBoots = 0
  BY <1>1 DEF UsInit
<1>4. UsNoOp \in UsChanges /\ UsOpOK(UsNoOp) /\ UsNoOp.name = "none" /\ "none" \notin UsNames
  BY UsIdle, UsAssumption
<1>5. usOp \in [UsAdmins -> UsChanges] /\ \A a \in UsAdmins : usOp[a] = UsNoOp
  BY <1>3, <1>4
<1>6. \A a \in UsAdmins : UsOpOK(usOp[a]) /\ usOp[a].name = "none"
  BY <1>4, <1>5
<1>7. usHold \in UsRecords /\ usHold.name = "none"
  BY <1>3 DEF UsRecords, UsNoRecord
<1>8. UsTyped
  BY <1>2, <1>3, <1>5, <1>6, <1>7 DEF UsTyped
<1>9. ASSUME NEW m \in UsNames PROVE UsOf(m)
  <2>1. \A a \in UsAdmins : usOp[a].name # m
    BY <1>4, <1>6
  <2>2. \A i \in UsInbounds : UsSame(usList[i], usPw, m) /\ UsSame(usCreds[i], usPw, m)
    BY <1>3 DEF UsSame
  <2>3. UsKnown(m)
    BY <1>3, <2>2 DEF UsKnown
  <2>4. UsAtRest(m)
    BY <1>3, <2>2, <2>3 DEF UsAtRest
  <2> QED
    BY <2>1, <2>4 DEF UsOf
<1> QED
  BY <1>8, <1>9 DEF UsInv

\* Steps of the connections leave the users alone.
LEMMA UsStays ==
  ASSUME UsInv, UNCHANGED usVars
  PROVE  UsInv'
<1>1. UNCHANGED <<usList, usCreds, usStats, usPw, usDisk, usKept, usTick, usHold, usOp, usBoots, usBroken, usRaced,
                  usGone, usSafe>>
  BY DEF usVars, usMem, usTable, usPast
<1>2. UsTyped'
  BY <1>1 DEF UsInv, UsTyped
<1>3. ASSUME NEW m \in UsNames \ usRaced PROVE UsOf(m)'
  <2>1. UsOf(m)
    BY DEF UsInv
  <2>2. UsKnown(m)' = UsKnown(m)
    BY <1>1 DEF UsKnown
  <2>3. UsAtRest(m) => UsAtRest(m)'
    BY <1>1, <2>2 DEF UsAtRest
  <2>4. ASSUME NEW a \in UsAdmins, UsUnderWay(m, usOp[a]) PROVE UsUnderWay(m, usOp[a])'
    BY <1>1, <2>2, <2>4 DEF UsUnderWay
  <2> QED
    BY <1>1, <2>1, <2>3, <2>4 DEF UsOf
<1> QED
  BY <1>1, <1>2, <1>3 DEF UsInv

\* A request takes a step: the invariant of the users holds on, and no name stops
\* counting as raced.
LEMMA UsRequestInv ==
  ASSUME UsInv, NEW a \in UsAdmins, UsRequest(a)
  PROVE  UsInv' /\ usRaced \subseteq usRaced'
<1>1. CASE \E n \in UsNames, p \in UsPasswords : UsBegin(a, "add", n, p)
  <2>1. PICK n \in UsNames, p \in UsPasswords : UsBegin(a, "add", n, p)
    BY <1>1
  <2>2. UsInv'
    <3>1. PICK do \in {"add", "remove"} : do = "add"
      OBVIOUS
    <3>2. UsBegin(a, do, n, p) /\ p \in UsPasswords \cup {"none"}
      BY <2>1, <3>1
    <3> QED
      BY <3>2, UsBeginInv
  <2> QED
    BY <2>1, <2>2 DEF UsBegin
<1>2. CASE \E n \in UsNames : UsBegin(a, "remove", n, "none")
  <2>1. PICK n \in UsNames : UsBegin(a, "remove", n, "none")
    BY <1>2
  <2>2. UsInv'
    <3>1. PICK do \in {"add", "remove"}, p \in UsPasswords \cup {"none"} : do = "remove" /\ p = "none"
      OBVIOUS
    <3>2. UsBegin(a, do, n, p) /\ (do = "add" => p \in UsPasswords)
      BY <2>1, <3>1
    <3> QED
      BY <3>2, UsBeginInv
  <2> QED
    BY <2>1, <2>2 DEF UsBegin
<1>3. CASE \E i \in UsInbounds : UsLoad(a, i)
  BY <1>3, UsLoadInv DEF UsLoad, usPast
<1>4. CASE UsRefuse(a)
  BY <1>4, UsRefuseInv DEF UsRefuse
<1>5. CASE UsSetCreds(a) \/ UsUpsert(a) \/ UsSetPassword(a)
  BY <1>5, UsSetCredsInv, UsUpsertInv, UsSetPasswordInv DEF UsSetCreds, UsUpsert, UsSetPassword, usPast
<1>6. CASE UsDropStats(a) \/ UsDropPassword(a) \/ UsDropCreds(a)
  BY <1>6, UsDropStatsInv, UsDropPasswordInv, UsDropCredsInv DEF UsDropStats, UsDropPassword, UsDropCreds, usPast
<1>7. CASE UsSaveRead(a) \/ UsSaveWrite(a)
  BY <1>7, UsSaveReadInv, UsSaveWriteInv DEF UsSaveRead, UsSaveWrite, usPast
<1>8. CASE UsDelete(a)
  BY <1>8, UsDeleteInv DEF UsDelete
<1> QED
  BY <1>1, <1>2, <1>3, <1>4, <1>5, <1>6, <1>7, <1>8 DEF UsRequest

\* Whoever comes late for a user that is gone finds neither registry.
LEMMA SiLoginRefused ==
  ASSUME UsInv, SiInv, NEW c \in SiConns, siConn[c].late, siConn[c].name \notin DOMAIN UsConfig \cup usRaced
  PROVE  ~SiAuthenticate(c) /\ ~SiLocalOk(c)
<1>1. PICK n : n = siConn[c].name
  OBVIOUS
<1>2. n \in usGone \ (DOMAIN UsConfig \cup usRaced) /\ n \in UsNames
  BY <1>1 DEF SiInv, UsInv, UsTyped
<1>3. UsAtRest(n)
  <2>1. UsOf(n)
    BY <1>2 DEF UsInv
  <2>2. \A a \in UsAdmins : usOp[a].name # n
    BY <1>2, <2>1 DEF UsOf, UsUnderWay
  <2> QED
    BY <2>1, <2>2 DEF UsOf
<1>4. n \notin usStats /\ n \notin DOMAIN usList[SiTag]
  BY <1>2, <1>3, SiAssumption DEF UsAtRest
<1> QED
  BY <1>1, <1>4 DEF SiAuthenticate, SiLocalOk, SiHas

\* The handler of one connection moves.
LEMMA SiMoves ==
  ASSUME SiInv, NEW c \in SiConns, NEW h \in SiHandlers, siConn' = [siConn EXCEPT ![c] = h],
         UNCHANGED <<usGone, usRaced>>, h.late => h.name \in usGone, h.pc # "new",
         h.late /\ h.name \notin DOMAIN UsConfig \cup usRaced => h.pc \notin {"record", "open", "served"}
  PROVE  SiInv'
<1>1. siConn' \in [SiConns -> SiHandlers] /\ siConn'[c] = h /\ \A e \in SiConns : e # c => siConn'[e] = siConn[e]
  BY DEF SiInv
<1>2. ASSUME NEW e \in SiConns
      PROVE  /\ siConn'[e].late => siConn'[e].name \in usGone /\ siConn'[e].pc # "new"
             /\ siConn'[e].late /\ siConn'[e].name \notin DOMAIN UsConfig \cup usRaced
                  => siConn'[e].pc \notin {"record", "open", "served"}
  <2>1. CASE e = c
    BY <1>1, <2>1
  <2>2. CASE e # c
    BY <1>1, <2>2 DEF SiInv, SiRefusesGone, SiLoggedIn
  <2> QED
    BY <2>1, <2>2
<1> QED
  BY <1>1, <1>2 DEF SiInv, SiRefusesGone, SiLoggedIn

\* A step of one connection's handler keeps the invariant of the connections.
LEMMA SiConnInv ==
  ASSUME UsInv, SiInv, UNCHANGED usVars, NEW c \in SiConns,
         \/ \E n \in UsNames, p \in UsPasswords : SiAccept(c, n, p)
         \/ SiLogin(c) \/ SiRecord(c) \/ SiServe(c) \/ SiEnd(c)
  PROVE  SiInv'
<1>1. UNCHANGED <<usGone, usRaced>>
  BY DEF usVars, usPast
<1>2. PICK k : k = siConn[c]
  OBVIOUS
<1>3. k \in SiHandlers /\ (k.late => k.name \in usGone)
      /\ (k.late /\ k.name \notin DOMAIN UsConfig \cup usRaced => k.pc \notin {"record", "open", "served"})
  BY <1>2 DEF SiInv, SiRefusesGone, SiLoggedIn
<1>4. CASE \E n \in UsNames, p \in UsPasswords : SiAccept(c, n, p)
  <2>1. PICK n \in UsNames, p \in UsPasswords : SiAccept(c, n, p)
    BY <1>4
  <2>2. PICK w \in BOOLEAN : w = (n \in usGone)
    <3>1. (n \in usGone) \in BOOLEAN
      OBVIOUS
    <3> QED
      BY <3>1, Zenon
  <2>3. PICK h : h = [pc |-> "auth", name |-> n, pw |-> p, known |-> FALSE, late |-> w]
    OBVIOUS
  <2>4. h \in SiHandlers /\ h.pc = "auth" /\ h.name = n /\ (h.late => n \in usGone)
    <3>1. h \in SiHandlers /\ h.pc = "auth" /\ h.name = n /\ h.late = w
      BY <2>3 DEF SiHandlers
    <3> QED
      BY <2>2, <3>1
  <2>5. siConn' = [siConn EXCEPT ![c] = h]
    BY <2>2, <2>1, <2>3 DEF SiAccept
  <2> QED
    BY <1>1, <2>4, <2>5, SiMoves
<1>5. ASSUME siConn' = [siConn EXCEPT ![c].pc = "closed"] PROVE SiInv'
  <2>1. PICK h : h = [k EXCEPT !.pc = "closed"]
    OBVIOUS
  <2>2. h \in SiHandlers /\ h.pc = "closed" /\ h.name = k.name /\ h.late = k.late
    BY <1>3, <2>1 DEF SiHandlers
  <2>3. siConn' = [siConn EXCEPT ![c] = h]
    BY <1>5, <1>2, <2>1
  <2> QED
    BY <1>1, <1>3, <2>2, <2>3, SiMoves
<1>6. CASE SiLogin(c)
  <2>1. CASE SiAuthenticate(c) \/ SiLocalOk(c)
    <3>1. PICK h : h = [k EXCEPT !.pc = "record", !.known = SiAuthenticate(c)]
      OBVIOUS
    <3>2. SiAuthenticate(c) \in BOOLEAN
      BY DEF SiAuthenticate, SiHas
    <3>3. h \in SiHandlers /\ h.name = k.name /\ h.late = k.late /\ h.pc = "record"
      BY <1>3, <3>1, <3>2 DEF SiHandlers
    <3>4. siConn' = [siConn EXCEPT ![c] = h]
      BY <1>6, <1>2, <2>1, <3>1 DEF SiLogin
    <3>5. ~(h.late /\ h.name \notin DOMAIN UsConfig \cup usRaced)
      BY <1>2, <2>1, <3>3, SiLoginRefused
    <3> QED
      BY <1>1, <1>3, <3>3, <3>4, <3>5, SiMoves
  <2>2. CASE ~(SiAuthenticate(c) \/ SiLocalOk(c))
    BY <1>6, <1>5, <2>2 DEF SiLogin, SiClose
  <2> QED
    BY <2>1, <2>2
<1>7. CASE SiRecord(c) \/ SiServe(c)
  <2>1. PICK w \in {"open", "served"} : siConn' = [siConn EXCEPT ![c].pc = w]
    BY <1>7 DEF SiRecord, SiServe
  <2>2. k.pc \in {"record", "open"}
    BY <1>7, <1>2 DEF SiRecord, SiServe
  <2>3. PICK h : h = [k EXCEPT !.pc = w]
    OBVIOUS
  <2>4. h \in SiHandlers /\ h.name = k.name /\ h.late = k.late /\ h.pc # "new"
    BY <1>3, <2>3 DEF SiHandlers
  <2>5. siConn' = [siConn EXCEPT ![c] = h]
    BY <1>2, <2>1, <2>3
  <2> QED
    BY <1>1, <1>3, <2>2, <2>4, <2>5, SiMoves
<1>8. CASE SiEnd(c)
  BY <1>8, <1>5 DEF SiEnd, SiClose
<1> QED
  BY <1>4, <1>6, <1>7, <1>8

\* The other steps change of a handler at most its place and whether it is late: none
\* logs in, and none becomes late.
LEMMA SiKept ==
  ASSUME SiInv, siConn' \in [SiConns -> SiHandlers], usRaced \subseteq usRaced',
         \A c \in SiConns :
           /\ siConn'[c].name = siConn[c].name
           /\ siConn'[c].pc \in {siConn[c].pc, "closed"}
           /\ siConn'[c].late => siConn[c].late /\ siConn[c].name \in usGone'
  PROVE  SiInv'
<1>1. \A c \in SiConns : siConn'[c].late => siConn'[c].name \in usGone' /\ siConn'[c].pc # "new"
  BY DEF SiInv
<1>2. SiRefusesGone'
  <2> SUFFICES ASSUME NEW c \in SiConns, siConn'[c].late, siConn'[c].name \notin DOMAIN UsConfig \cup usRaced'
               PROVE  siConn'[c].pc \notin {"record", "open", "served"}
    BY DEF SiRefusesGone, SiLoggedIn
  <2>1. siConn[c].pc \notin {"record", "open", "served"}
    BY DEF SiInv, SiRefusesGone, SiLoggedIn
  <2> QED
    BY <2>1
<1> QED
  BY <1>1, <1>2 DEF SiInv

\* Every step keeps both invariants.
LEMMA SiStepInv ==
  ASSUME UsInv, SiInv, [SiNext]_<<usVars, siVars>>
  PROVE  UsInv' /\ SiInv'
<1>1. /\ siConn \in [SiConns -> SiHandlers]
      /\ \A c \in SiConns : siConn[c].late => siConn[c].name \in usGone /\ siConn[c].pc # "new"
  BY DEF SiInv
<1>2. ASSUME NEW c \in SiConns
      PROVE  LET h == siConn[c] IN
             /\ [h EXCEPT !.pc = "closed"] \in SiHandlers
             /\ [h EXCEPT !.pc = "closed"].name = h.name /\ [h EXCEPT !.pc = "closed"].pc = "closed"
             /\ [h EXCEPT !.pc = "closed"].late = h.late
  <2>1. PICK h : h = siConn[c]
    OBVIOUS
  <2>2. h \in SiHandlers
    BY <1>1, <2>1
  <2> QED
    BY <2>1, <2>2 DEF SiHandlers
<1>3. CASE UsSaver /\ UNCHANGED siVars
  <2>1. UNCHANGED <<siConn, usRaced, usGone>>
    BY <1>3 DEF siVars, UsSaver, UsPersist, UsPersistRead, UsPersistWrite, UsFlush, usPast
  <2>2. SiInv'
    BY <2>1, <1>1, SiKept
  <2> QED
    BY <1>3, <2>2, UsSaverInv
<1>4. CASE UNCHANGED <<usVars, siVars>>
  <2>1. UNCHANGED usVars /\ UNCHANGED <<siConn, usRaced, usGone>>
    BY <1>4 DEF siVars, usVars, usPast
  <2>2. SiInv'
    BY <2>1, <1>1, SiKept
  <2> QED
    BY <2>1, <2>2, UsStays
<1>5. CASE \E a \in UsAdmins : SiStore(a)
  <2>1. PICK a \in UsAdmins : SiStore(a)
    BY <1>5
  <2>2. UsStore(a) /\ UNCHANGED <<siConn, usGone>> /\ usRaced \subseteq usRaced'
    BY <2>1 DEF SiStore, UsStore
  <2>3. SiInv'
    BY <2>2, <1>1, SiKept
  <2> QED
    BY <2>2, <2>3, UsStoreInv
<1>6. CASE \E a \in UsAdmins : SiCutUser(a)
  <2>1. PICK a \in UsAdmins : SiCutUser(a)
    BY <1>6
  <2>2. PICK D : D = {c \in SiConns : \E x \in {y \in SiAddrs : siMap[y].user = siCut[a]} : siMap[x].conn = c}
    OBVIOUS
  <2>3. siConn' = [c \in SiConns |-> IF c \in D THEN [siConn[c] EXCEPT !.pc = "closed"] ELSE siConn[c]]
    BY <2>1, <2>2 DEF SiCutUser
  <2>4. UNCHANGED usVars /\ UNCHANGED <<usGone, usRaced>>
    BY <2>1 DEF SiCutUser, usVars, usPast
  <2>5. ASSUME NEW c \in SiConns
        PROVE  /\ siConn'[c] \in SiHandlers /\ siConn'[c].name = siConn[c].name
               /\ siConn'[c].pc \in {siConn[c].pc, "closed"} /\ siConn'[c].late = siConn[c].late
    <3>1. CASE c \in D
      BY <1>2, <2>3, <3>1
    <3>2. CASE c \notin D
      BY <1>1, <2>3, <3>2
    <3> QED
      BY <3>1, <3>2
  <2>6. siConn' \in [SiConns -> SiHandlers]
    BY <2>3, <2>5
  <2>7. SiInv'
    BY <1>1, <2>4, <2>5, <2>6, SiKept
  <2> QED
    BY <2>4, <2>7, UsStays
<1>7. CASE UsRestart /\ siConn' = [c \in SiConns |-> IF siConn[c].pc = "new" THEN siConn[c] ELSE SiEnded(c)]
  <2>1. UNCHANGED usRaced
    BY <1>7 DEF UsRestart
  <2>2. ASSUME NEW c \in SiConns
        PROVE  /\ siConn'[c] \in SiHandlers /\ siConn'[c].name = siConn[c].name
               /\ siConn'[c].pc \in {siConn[c].pc, "closed"} /\ ~siConn'[c].late
    <3>1. PICK h : h = siConn[c]
      OBVIOUS
    <3>2. h \in SiHandlers /\ (h.pc = "new" => ~h.late)
      BY <1>1, <3>1
    <3>3. CASE h.pc = "new"
      BY <1>7, <3>1, <3>2, <3>3
    <3>4. CASE h.pc # "new"
      <4>1. siConn'[c] = [h EXCEPT !.pc = "closed", !.late = FALSE]
        BY <1>7, <3>1, <3>4 DEF SiEnded
      <4> QED
        BY <3>1, <3>2, <4>1 DEF SiHandlers
    <3> QED
      BY <3>3, <3>4
  <2>3. siConn' \in [SiConns -> SiHandlers]
    BY <1>7, <2>2
  <2>4. SiInv'
    BY <1>1, <2>1, <2>2, <2>3, SiKept
  <2> QED
    BY <1>7, <2>4, UsRestartInv
<1>8. ASSUME NEW a \in UsAdmins, SiStillLate, UsRequest(a)
      PROVE  UsInv' /\ SiInv'
  <2>1. UsInv' /\ usRaced \subseteq usRaced'
    BY <1>8, UsRequestInv
  <2>2. ASSUME NEW c \in SiConns
        PROVE  /\ siConn'[c] \in SiHandlers /\ siConn'[c].name = siConn[c].name
               /\ siConn'[c].pc = siConn[c].pc /\ (siConn'[c].late => siConn[c].late /\ siConn[c].name \in usGone')
    <3>1. PICK h : h = siConn[c]
      OBVIOUS
    <3>2. PICK w \in BOOLEAN : w = (h.late /\ h.name \in usGone')
      BY <1>1, <3>1 DEF SiHandlers
    <3>3. siConn'[c] = [h EXCEPT !.late = w]
      BY <1>8, <3>1, <3>2 DEF SiStillLate
    <3>4. h \in SiHandlers
      BY <1>1, <3>1
    <3>5. [h EXCEPT !.late = w] \in SiHandlers /\ [h EXCEPT !.late = w].name = h.name
          /\ [h EXCEPT !.late = w].pc = h.pc /\ [h EXCEPT !.late = w].late = w
      BY <3>2, <3>4 DEF SiHandlers
    <3> QED
      BY <3>1, <3>2, <3>3, <3>5
  <2>3. siConn' \in [SiConns -> SiHandlers]
    BY <1>8, <2>2 DEF SiStillLate
  <2>4. SiInv'
    BY <1>1, <2>1, <2>2, <2>3, SiKept
  <2> QED
    BY <2>1, <2>4
<1>9. CASE /\ \E c \in SiConns :
                \/ \E n \in UsNames, p \in UsPasswords : SiAccept(c, n, p)
                \/ SiLogin(c) \/ SiRecord(c) \/ SiServe(c) \/ SiEnd(c)
           /\ UNCHANGED usVars
  <2>1. SiInv'
    BY <1>9, SiConnInv
  <2> QED
    BY <1>9, <2>1, UsStays
<1>10. CASE SiUsers
  BY <1>3, <1>7, <1>8, <1>10 DEF SiUsers
<1> QED
  BY <1>4, <1>5, <1>6, <1>9, <1>10 DEF SiNext

\* The invariants imply what the run checks.
LEMMA SiInvSound ==
  ASSUME UsInv, SiInv
  PROVE  SiUsersSound
<1>1. UsAgree
  <2> SUFFICES ASSUME NEW n \in UsNames, UsAlone(n)
               PROVE  /\ n \in DOMAIN usPw => n \in usStats
                      /\ n \in usStats \ DOMAIN usPw => usBoots > 0
                      /\ \A i \in {j \in UsInbounds : UsTakes(j, n)} : \A f \in {usList[i], usCreds[i]} :
                           /\ n \in DOMAIN f <=> n \in DOMAIN usPw
                           /\ n \in DOMAIN f => f[n] = usPw[n]
    BY DEF UsAgree
  <2>1. n \notin usBroken /\ UsOf(n) /\ \A a \in UsAdmins : usOp[a].name # n
    BY DEF UsInv, UsAlone
  <2>2. UsKnown(n) /\ \A i \in UsInbounds : UsTakes(i, n) => UsSame(usList[i], usPw, n)
    BY <2>1 DEF UsOf, UsAtRest
  <2>3. \A i \in UsInbounds : UsTakes(i, n) => UsSame(usCreds[i], usPw, n)
    BY <2>2 DEF UsKnown
  <2> QED
    BY <2>2, <2>3 DEF UsKnown, UsSame
<1>2. UsStaysOut
  <2> SUFFICES ASSUME NEW n \in usGone \ (DOMAIN UsConfig \cup usRaced)
               PROVE  n \notin DOMAIN usDisk \cup usStats /\ (n \in usSafe => n \notin DOMAIN usKept)
    BY DEF UsStaysOut
  <2>1. n \in UsNames /\ UsOf(n)
    BY DEF UsInv, UsTyped
  <2>2. \A a \in UsAdmins : usOp[a].name # n
    BY <2>1 DEF UsOf, UsUnderWay
  <2> QED
    BY <2>1, <2>2 DEF UsOf, UsAtRest
<1> QED
  BY <1>1, <1>2 DEF SiInv, SiUsersSound

\* The users of the registry, the inbounds' lists and credentials and the disk agree
\* and a removed user is refused, for any number of requests, users, inbounds,
\* connections, changes and restarts (core_api post_user and delete_user, the
\* observer's persist_users, accept of the ShadowQUIC inbound).
THEOREM SiSafe == SiSpec => []SiUsersSound
<1>1. ASSUME UsInit, SiInit PROVE UsInv /\ SiInv
  <2>1. siConn = [c \in SiConns |->
                    [pc |-> "new", name |-> "none", pw |-> "none", known |-> FALSE, late |-> FALSE]]
    BY <1>1 DEF SiInit
  <2>2. SiInv
    BY <2>1 DEF SiInv, SiHandlers, SiRefusesGone, SiLoggedIn
  <2> QED
    BY <1>1, <2>2, UsInitInv
<1>2. UsInv /\ SiInv /\ [SiNext]_<<usVars, siVars>> => UsInv' /\ SiInv'
  BY SiStepInv
<1>3. UsInv /\ SiInv => SiUsersSound
  BY SiInvSound
<1> QED
  BY <1>1, <1>2, <1>3, PTL DEF SiSpec
=============================================================================
