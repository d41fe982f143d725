-------------------------- MODULE ShadowQuicProofs --------------------------
(***************************************************************************)
(* ShadowQUIC: the connection cache of the outbound, for any number of     *)
(* calls, connections and changes of the network, and the UDP sessions at  *)
(* both ends of a connection, for any sessions, targets and bounds.        *)
(***************************************************************************)
EXTENDS ShadowQuicConn, ShadowUdp, SequenceTheorems, FiniteSetTheorems, TLAPS

SqPcs == {"ensure", "probe", "socket", "connect", "store", "open", "clear", "capacity", "evict",
          "verdict", "watch", "unmap", "done", "failed"}
SqLocked == {"probe", "socket", "connect", "store"}
SqCalls == [pc : SqPcs, got : Nat, net : Nat, try : {0, 1}, cap : {0, 1}, settle : {0, 1}]
SqLinks == [up : BOOLEAN, hs : {"early", "full", "accepted", "rejected"}, marked : BOOLEAN,
            full : BOOLEAN, net : Nat, watch : {"none", "wait", "unmap"}]

SqTyped ==
    /\ sqCall \in [SqCallers -> SqCalls]
    /\ sqConn \in Seq(SqLinks)
    /\ sqChan \in [n : Nat, lag : BOOLEAN] /\ sqMon \in {"idle", "notify"}

\* A change of the network that the cached connection has still to follow.
SqPending == sqMon = "notify" \/ sqChan.n > 0 \/ sqMig # "idle"

\* What a call knows of the connection it was given.
SqKnows(t, s) ==
    /\ s.pc \in {"open", "clear", "capacity", "evict", "verdict", "watch", "unmap"} => s.got \in SqIds
    /\ s.pc = "evict" => sqConn[s.got].full
    /\ s.pc = "unmap" => ~sqConn[s.got].up
    /\ s.pc = "done" /\ t \in SqTcp \cup SqUdp =>
         /\ s.got \in SqIds /\ sqConn[s.got].hs # "early"
         /\ ~(SqAuth /\ sqConn[s.got].hs = "rejected")

\* What the call that holds the lock knows of the cache.
SqInside(s) ==
    /\ s.pc = "probe" => sqCached # 0
    /\ s.pc \in {"socket", "connect", "store"} /\ sqCached # 0 => ~sqConn[sqCached].up
    /\ s.pc = "connect" => s.net = sqNet \/ SqPending
    /\ s.pc = "store" => Len(sqConn) > 0 /\ (sqConn[Len(sqConn)].net = sqNet \/ SqPending)

SqKept ==
    /\ \A c \in SqIds : sqConn[c].watch = "unmap" => ~sqConn[c].up
    /\ sqMig = "socket" => sqCached # 0 /\ (sqIface = sqNet \/ sqMon = "notify" \/ sqChan.n > 0)
    /\ sqCached # 0 => sqConn[sqCached].net = sqNet \/ SqPending

SqInv ==
    /\ SqTyped /\ SqTypeOK /\ SqKept /\ SqNoOrphan
    /\ \A t \in SqCallers : SqKnows(t, sqCall[t]) /\ SqInside(sqCall[t])

-----------------------------------------------------------------------------
(* Steps on connections *)

\* Connections only age: none comes up again, none gets its ids back, and a handshake that
\* is over stays as it ended.
SqAges ==
    /\ sqConn' \in Seq(SqLinks) /\ Len(sqConn') = Len(sqConn)
    /\ \A c \in SqIds :
         /\ sqConn'[c].up => sqConn[c].up
         /\ sqConn[c].full => sqConn'[c].full
         /\ sqConn[c].hs # "early" => sqConn'[c].hs = sqConn[c].hs
         /\ sqConn'[c].net = sqConn[c].net
         /\ sqConn'[c].watch = "unmap" => ~sqConn'[c].up

\* A step on one connection.
SqOn(c, k) ==
    /\ c \in SqIds /\ k \in SqLinks /\ sqConn' = [sqConn EXCEPT ![c] = k]
    /\ k.up => sqConn[c].up
    /\ sqConn[c].full => k.full
    /\ sqConn[c].hs # "early" => k.hs = sqConn[c].hs
    /\ k.net = sqConn[c].net
    /\ k.watch = "unmap" => ~k.up

\* A step on one connection takes none of them back to an earlier stage,
LEMMA SqOnConn ==
    ASSUME SqInv, NEW c, NEW k, SqOn(c, k)
    PROVE  SqAges /\ sqConn'[c] = k
  <1>1. sqConn \in Seq(SqLinks) /\ c \in 1 .. Len(sqConn) /\ k \in SqLinks
    BY DEF SqOn, SqInv, SqTyped, SqIds
  <1>2. /\ sqConn' \in Seq(SqLinks) /\ Len(sqConn') = Len(sqConn)
        /\ \A j \in 1 .. Len(sqConn) : sqConn'[j] = IF j = c THEN k ELSE sqConn[j]
    BY <1>1, ExceptSeq DEF SqOn
  <1> QED
    BY <1>1, <1>2 DEF SqOn, SqAges, SqInv, SqKept, SqIds

\* nor does a step on none.
LEMMA SqStill ==
    ASSUME SqInv, sqConn' = sqConn
    PROVE  SqAges
  BY DEF SqInv, SqTyped, SqKept, SqAges

\* The records of calls.
LEMMA SqRecords ==
    ASSUME SqTyped, NEW t \in SqCallers, NEW pc \in SqPcs
    PROVE  /\ [sqCall[t] EXCEPT !.pc = pc] \in SqCalls
           /\ [sqCall[t] EXCEPT !.pc = pc].pc = pc
           /\ [sqCall[t] EXCEPT !.pc = pc].got = sqCall[t].got
           /\ [SqIdle EXCEPT !.pc = pc] \in SqCalls
           /\ [SqIdle EXCEPT !.pc = pc].pc = pc
           /\ SqIdle \in SqCalls /\ SqIdle.pc = "ensure"
  <1>1. sqCall[t] \in SqCalls
    BY DEF SqTyped
  <1> QED
    BY <1>1 DEF SqCalls, SqIdle, SqPcs

\* The names of the callers are no marks, and a caller does one kind of call.
LEMMA SqPart ==
    /\ "free" \notin SqCallers /\ "watcher" \notin SqCallers
    /\ \A t \in SqStat : t \notin SqTcp \cup SqUdp
  BY SqAssumption DEF SqCallers

\* A step of one call: what it must know of its connection and of the cache in the state
\* it goes to, how it handles the lock, and what it may take out of the cache.
LEMMA SqCallStep ==
    ASSUME SqInv, NEW t \in SqCallers, NEW s \in SqCalls,
           sqCall' = [sqCall EXCEPT ![t] = s], SqAges,
           UNCHANGED <<sqNet, sqChan, sqMon, sqMig, sqIface>>,
           sqCall[t].pc # "store",
           \/ s.pc \in SqLocked /\ sqLock \in {SqFree, t} /\ sqLock' = t
           \/ s.pc \notin SqLocked /\ sqLock' = IF sqLock = t THEN SqFree ELSE sqLock,
           \/ sqCached' = sqCached
           \/ /\ sqCached' = 0 /\ sqLock \in {SqFree, t}
              /\ sqCached # 0 => ~sqConn'[sqCached].up \/ sqConn'[sqCached].full,
           SqKnows(t, s)', SqInside(s)'
    PROVE  SqInv'
  <1>q. sqCall'[t] = s /\ \A r \in SqCallers \ {t} : sqCall'[r] = sqCall[r]
    BY DEF SqInv, SqTyped
  <1>p. SqPending' = SqPending
    BY DEF SqPending
  <1>l. Len(sqConn) \in Nat /\ SqIds' = SqIds /\ SqIds = 1 .. Len(sqConn)
    BY DEF SqInv, SqTyped, SqIds, SqAges
  <1>1. SqTyped'
    BY DEF SqInv, SqTyped, SqAges
  <1>2. SqTypeOK'
    <2>1. sqLock' \in SqCallers \cup {SqFree, SqWatcher}
      BY DEF SqInv, SqTypeOK
    <2>2. ASSUME NEW r \in SqCallers PROVE sqLock' = r <=> sqCall'[r].pc \in SqLocked
      <3>1. sqLock = r <=> sqCall[r].pc \in SqLocked
        BY DEF SqInv, SqTypeOK, SqLocked
      <3>2. CASE r = t
        BY <3>1, <3>2, <1>q, SqPart DEF SqFree
      <3>3. CASE r # t
        BY <3>1, <3>3, <1>q, SqPart DEF SqFree
      <3> QED
        BY <3>2, <3>3
    <2>3. sqLock' = SqWatcher <=> sqMig' = "socket"
      BY SqPart DEF SqInv, SqTypeOK, SqFree, SqWatcher
    <2>4. sqCached' \in 0 .. Len(sqConn')
      BY <1>l DEF SqInv, SqTypeOK, SqAges
    <2> QED
      BY <2>1, <2>2, <2>3, <2>4 DEF SqInv, SqTypeOK, SqLocked
  <1>c. sqCached # 0 => sqCached \in SqIds
    BY <1>l DEF SqInv, SqTypeOK
  <1>3. SqKept'
    <2>1. sqCached' # sqCached => sqMig # "socket"
      BY SqPart DEF SqInv, SqTypeOK, SqFree, SqWatcher
    <2> QED
      BY <2>1, <1>c, <1>l, <1>p DEF SqInv, SqKept, SqAges
  <1>4. SqNoOrphan'
    <2> SUFFICES ASSUME NEW c \in SqIds, sqConn'[c].up
                 PROVE  \/ c = sqCached' \/ sqConn'[c].full
                        \/ \E r \in SqCallers : sqCall'[r].pc = "store" /\ c = Len(sqConn')
      BY <1>l DEF SqNoOrphan
    <2>1. sqConn[c].up /\ (sqConn[c].full => sqConn'[c].full)
      BY DEF SqAges
    <2>2. CASE c = sqCached
      BY <2>2, <1>l
    <2>3. CASE sqConn[c].full
      BY <2>3, <2>1
    <2>4. ASSUME NEW r \in SqCallers, sqCall[r].pc = "store", c = Len(sqConn)
          PROVE  sqCall'[r].pc = "store" /\ c = Len(sqConn')
      BY <2>4, <1>q DEF SqAges
    <2> QED
      BY <2>1, <2>2, <2>3, <2>4 DEF SqInv, SqNoOrphan
  <1>5. ASSUME NEW r \in SqCallers \ {t} PROVE SqKnows(r, sqCall[r])' /\ SqInside(sqCall[r])'
    <2>1. SqKnows(r, sqCall[r]) /\ SqInside(sqCall[r]) /\ sqCall'[r] = sqCall[r]
      BY <1>q DEF SqInv
    <2>2. SqKnows(r, sqCall[r])'
      BY <2>1, <1>l DEF SqKnows, SqAges
    <2>3. CASE sqCached' = sqCached
      <3>1. Len(sqConn) > 0 => Len(sqConn) \in SqIds
        BY <1>l
      <3> QED
        BY <2>1, <2>2, <2>3, <3>1, <1>c, <1>p DEF SqInside, SqAges
    <2>4. CASE sqLock \in {SqFree, t}
      <3>1. sqCall[r].pc \notin SqLocked
        BY <2>4, SqPart DEF SqInv, SqTypeOK, SqFree, SqLocked
      <3> QED
        BY <2>1, <2>2, <3>1 DEF SqInside, SqLocked
    <2> QED
      BY <2>3, <2>4
  <1>6. SqKnows(t, sqCall[t])' /\ SqInside(sqCall[t])'
    BY <1>q DEF SqKnows, SqInside
  <1> QED
    BY <1>1, <1>2, <1>3, <1>4, <1>5, <1>6 DEF SqInv

-----------------------------------------------------------------------------
(* The steps of a call *)

\* A connection that closes stays known.
LEMMA SqCloses ==
    ASSUME SqInv, NEW c \in SqIds, sqConn' = [sqConn EXCEPT ![c].up = FALSE]
    PROVE  SqAges /\ ~sqConn'[c].up
  <1> DEFINE k == [sqConn[c] EXCEPT !.up = FALSE]
  <1>1. sqConn[c] \in SqLinks
    BY ElementOfSeq DEF SqInv, SqTyped, SqIds
  <1>2. /\ k \in SqLinks /\ ~k.up /\ k.full = sqConn[c].full /\ k.hs = sqConn[c].hs
        /\ k.net = sqConn[c].net
    BY <1>1 DEF SqLinks
  <1>3. SqOn(c, k)
    BY <1>2 DEF SqOn
  <1> HIDE DEF k
  <1> QED
    BY <1>2, <1>3, SqOnConn

\* A caller that is given a connection goes on with it,
LEMMA SqGives ==
    ASSUME SqInv, NEW t \in SqCallers, NEW c \in SqIds, SqGive(t, c)
    PROVE  \E s \in SqCalls : /\ sqCall' = [sqCall EXCEPT ![t] = s] /\ s.got = c
                              /\ s.pc = IF t \in SqStat THEN "done" ELSE "open"
  <1>1. sqCall[t] \in SqCalls /\ c \in Nat
    BY DEF SqInv, SqTyped, SqIds
  <1>2. PICK s : s = [sqCall[t] EXCEPT !.got = c, !.net = 0, !.pc = IF t \in SqStat THEN "done" ELSE "open"]
    OBVIOUS
  <1>3. s \in SqCalls /\ s.got = c /\ s.pc = IF t \in SqStat THEN "done" ELSE "open"
    BY <1>1, <1>2 DEF SqCalls, SqPcs
  <1>4. sqCall' = [sqCall EXCEPT ![t] = s]
    BY <1>1, <1>2 DEF SqGive, SqInv, SqTyped, SqCalls
  <1> QED
    BY <1>3, <1>4

\* one that moves keeps the connection it has,
LEMMA SqGotos ==
    ASSUME SqInv, NEW t \in SqCallers, NEW pc \in SqPcs, SqGoto(t, pc)
    PROVE  \E s \in SqCalls : sqCall' = [sqCall EXCEPT ![t] = s] /\ s.got = sqCall[t].got /\ s.pc = pc
  <1>1. PICK s : s = [sqCall[t] EXCEPT !.pc = pc]
    OBVIOUS
  <1>2. s \in SqCalls /\ s.got = sqCall[t].got /\ s.pc = pc
    BY <1>1, SqRecords DEF SqInv
  <1>3. sqCall' = [sqCall EXCEPT ![t] = s]
    BY <1>1 DEF SqGoto
  <1> QED
    BY <1>2, <1>3

\* A call that ends or begins again knows nothing.
LEMMA SqBlank ==
    ASSUME SqInv, NEW t \in SqCallers, NEW s \in SqCalls, s.pc \in {"failed", "ensure"}
    PROVE  SqKnows(t, s)' /\ SqInside(s)' /\ s.pc \notin SqLocked
  BY DEF SqKnows, SqInside, SqLocked

\* and one that fails gives up or asks again.
LEMMA SqFailing ==
    ASSUME SqInv, NEW t \in SqCallers, SqFail(t) \/ SqAgain(t)
    PROVE  \E s \in SqCalls : sqCall' = [sqCall EXCEPT ![t] = s] /\ s.pc \in {"failed", "ensure"}
  <1>1. CASE SqFail(t)
    <2>1. PICK s : s = [SqIdle EXCEPT !.pc = "failed"]
      OBVIOUS
    <2>2. s \in SqCalls /\ s.pc = "failed"
      BY <2>1, SqRecords DEF SqInv, SqPcs
    <2> QED
      BY <2>1, <2>2, <1>1 DEF SqFail
  <1>2. CASE SqAgain(t) /\ ~SqFail(t)
    <2>1. PICK s : s = [SqIdle EXCEPT !.settle = IF t \in SqUdp THEN 1 ELSE 0]
      OBVIOUS
    <2>2. s \in SqCalls /\ s.pc = "ensure"
      BY <2>1 DEF SqIdle, SqCalls, SqPcs
    <2> QED
      BY <2>1, <2>2, <1>2 DEF SqAgain
  <1> QED
    BY <1>1, <1>2

\* ensure_connection and establish_connection up to the new connection.
LEMMA SqEnsures ==
    ASSUME SqInv, NEW t \in SqCallers,
           \/ SqEnsure(t) \/ SqProbeAnswered(t) \/ SqProbeSilent(t) \/ SqSocket(t) \/ SqConnectFails(t)
    PROVE  SqInv'
  <1>k. SqKnows(t, sqCall[t]) /\ SqInside(sqCall[t]) /\ sqCall[t] \in SqCalls
    BY DEF SqInv, SqTyped
  <1>c. (sqCached # 0 => sqCached \in SqIds) /\ Len(sqConn) \in Nat
    BY DEF SqInv, SqTyped, SqTypeOK, SqIds
  <1>l. sqLock = t <=> sqCall[t].pc \in SqLocked
    BY DEF SqInv, SqTypeOK, SqLocked
  <1>1. CASE SqEnsure(t)
    <2>0. sqCall[t].pc = "ensure" /\ sqLock = SqFree /\ UNCHANGED <<sqNet, sqChan, sqMon, sqMig, sqIface>> /\ sqLock # t
      BY <1>1, SqPart DEF SqEnsure, SqAt, SqNetVars, SqFree
    <2>1. CASE sqCached # 0 /\ SqGive(t, sqCached) /\ UNCHANGED <<sqLock, sqCached, sqConn>>
      <3>1. PICK s \in SqCalls : /\ sqCall' = [sqCall EXCEPT ![t] = s] /\ s.got = sqCached
                                 /\ s.pc = IF t \in SqStat THEN "done" ELSE "open"
        BY <2>1, <1>c, SqGives
      <3>2. SqKnows(t, s)' /\ SqInside(s)' /\ s.pc \notin SqLocked
        BY <3>1, <2>1, <1>c, SqPart DEF SqKnows, SqInside, SqLocked, SqIds
      <3> QED
        BY <2>0, <2>1, <3>1, <3>2, SqStill, SqCallStep
    <2>2. CASE sqCached # 0 /\ SqGoto(t, "probe") /\ sqLock' = t /\ UNCHANGED <<sqCached, sqConn>>
      <3>1. PICK s \in SqCalls : sqCall' = [sqCall EXCEPT ![t] = s] /\ s.pc = "probe"
        BY <2>2, SqGotos DEF SqPcs
      <3>2. SqKnows(t, s)' /\ SqInside(s)' /\ s.pc \in SqLocked
        BY <3>1, <2>2 DEF SqKnows, SqInside, SqLocked
      <3> QED
        BY <2>0, <2>2, <3>1, <3>2, SqStill, SqCallStep
    <2>3. CASE /\ SqGoto(t, "socket") /\ sqLock' = t /\ sqCached' = sqCached /\ sqConn' = sqConn
               /\ sqCached # 0 => ~sqConn[sqCached].up
      <3>1. PICK s \in SqCalls : sqCall' = [sqCall EXCEPT ![t] = s] /\ s.pc = "socket"
        BY <2>3, SqGotos DEF SqPcs
      <3>2. SqKnows(t, s)' /\ SqInside(s)' /\ s.pc \in SqLocked
        BY <3>1, <2>3 DEF SqKnows, SqInside, SqLocked
      <3> QED
        BY <2>0, <2>3, <3>1, <3>2, SqStill, SqCallStep
    <2>4. CASE /\ SqGoto(t, "socket") /\ sqLock' = t /\ sqCached # 0 /\ sqCached' = 0
               /\ sqConn' = [sqConn EXCEPT ![sqCached].up = FALSE]
      <3>1. PICK s \in SqCalls : sqCall' = [sqCall EXCEPT ![t] = s] /\ s.pc = "socket"
        BY <2>4, SqGotos DEF SqPcs
      <3>2. SqKnows(t, s)' /\ SqInside(s)' /\ s.pc \in SqLocked
        BY <3>1, <2>4 DEF SqKnows, SqInside, SqLocked
      <3>3. SqAges /\ ~sqConn'[sqCached].up
        BY <2>4, <1>c, SqCloses
      <3> QED
        BY <2>0, <2>4, <3>1, <3>2, <3>3, SqCallStep
    <2> QED
      BY <2>1, <2>2, <2>3, <2>4, <1>1 DEF SqEnsure
  <1>2. CASE SqProbeAnswered(t)
    <2>0. /\ sqCall[t].pc = "probe" /\ sqLock = t /\ sqLock' = SqFree
          /\ UNCHANGED <<sqNet, sqChan, sqMon, sqMig, sqIface, sqCached, sqConn>> /\ SqGive(t, sqCached)
      BY <1>2, <1>l DEF SqProbeAnswered, SqAt, SqNetVars, SqLocked
    <2>c. sqCached \in SqIds
      BY <2>0, <1>k, <1>c DEF SqInside
    <2>1. PICK s \in SqCalls : /\ sqCall' = [sqCall EXCEPT ![t] = s] /\ s.got = sqCached
                               /\ s.pc = IF t \in SqStat THEN "done" ELSE "open"
      BY <2>0, <2>c, SqGives
    <2>2. SqKnows(t, s)' /\ SqInside(s)' /\ s.pc \notin SqLocked
      BY <2>0, <2>1, <2>c, SqPart DEF SqKnows, SqInside, SqLocked, SqIds
    <2> QED
      BY <2>0, <2>1, <2>2, SqStill, SqCallStep
  <1>3. CASE SqProbeSilent(t)
    <2>0. /\ sqCall[t].pc = "probe" /\ sqLock = t /\ sqLock' = SqFree /\ sqCached' = 0
          /\ UNCHANGED <<sqNet, sqChan, sqMon, sqMig, sqIface>> /\ SqFail(t)
          /\ sqConn' = [sqConn EXCEPT ![sqCached].up = FALSE]
      BY <1>3, <1>l DEF SqProbeSilent, SqAt, SqNetVars, SqLocked
    <2>c. sqCached \in SqIds
      BY <2>0, <1>k, <1>c DEF SqInside
    <2>1. PICK s \in SqCalls : sqCall' = [sqCall EXCEPT ![t] = s] /\ s.pc \in {"failed", "ensure"}
      BY <2>0, SqFailing
    <2>2. SqAges /\ ~sqConn'[sqCached].up
      BY <2>0, <2>c, SqCloses
    <2>3. SqKnows(t, s)' /\ SqInside(s)' /\ s.pc \notin SqLocked
      BY <2>1, SqBlank
    <2> QED
      BY <2>0, <2>1, <2>2, <2>3, SqCallStep
  <1>4. CASE SqSocket(t)
    <2>0. /\ sqCall[t].pc = "socket" /\ sqLock = t
          /\ UNCHANGED <<sqLock, sqNet, sqChan, sqMon, sqMig, sqIface, sqCached, sqConn>>
      BY <1>4, <1>l DEF SqSocket, SqAt, SqNetVars, SqLocked
    <2>n. sqNet \in Nat
      BY SqAssumption DEF SqInv, SqTypeOK
    <2>1. PICK s : s = [sqCall[t] EXCEPT !.pc = "connect", !.net = sqNet]
      OBVIOUS
    <2>2. s \in SqCalls /\ s.pc = "connect" /\ s.net = sqNet
      BY <2>1, <2>n, <1>k DEF SqCalls, SqPcs
    <2>3. sqCall' = [sqCall EXCEPT ![t] = s]
      BY <2>1, <1>4, <1>k DEF SqSocket, SqInv, SqTyped, SqCalls
    <2>4. SqKnows(t, s)' /\ SqInside(s)' /\ s.pc \in SqLocked
      BY <2>0, <2>2, <1>k DEF SqKnows, SqInside, SqLocked
    <2> QED
      BY <2>0, <2>2, <2>3, <2>4, SqStill, SqCallStep
  <1>5. CASE SqConnectFails(t)
    <2>0. /\ sqCall[t].pc \in {"socket", "connect"} /\ sqLock = t /\ sqLock' = SqFree /\ sqCached' = 0
          /\ UNCHANGED <<sqNet, sqChan, sqMon, sqMig, sqIface, sqConn>> /\ SqFail(t)
      BY <1>5, <1>l DEF SqConnectFails, SqAt, SqNetVars, SqLocked
    <2>1. PICK s \in SqCalls : sqCall' = [sqCall EXCEPT ![t] = s] /\ s.pc \in {"failed", "ensure"}
      BY <2>0, SqFailing
    <2>2. sqCached # 0 => ~sqConn'[sqCached].up
      BY <2>0, <1>k DEF SqInside
    <2>3. SqKnows(t, s)' /\ SqInside(s)' /\ s.pc \notin SqLocked
      BY <2>1, SqBlank
    <2> QED
      BY <2>0, <2>1, <2>2, <2>3, SqStill, SqCallStep
  <1> QED
    BY <1>1, <1>2, <1>3, <1>4, <1>5

\* Opening a stream, the retries, and the verdicts on early data.
LEMMA SqRetries ==
    ASSUME SqInv, NEW t \in SqCallers,
           \/ SqOpen(t) \/ SqClear(t) \/ SqCapacity(t) \/ SqEvict(t) \/ SqNoVerdict(t) \/ SqVerdict(t)
           \/ SqUnmap(t) \/ SqGiveUp(t)
    PROVE  SqInv'
  <1>k. SqKnows(t, sqCall[t]) /\ SqInside(sqCall[t]) /\ sqCall[t] \in SqCalls
    BY DEF SqInv, SqTyped
  <1>l. sqLock = t <=> sqCall[t].pc \in SqLocked
    BY DEF SqInv, SqTypeOK, SqLocked
  <1>f. SqFree # t
    BY SqPart DEF SqFree
  <1>1. CASE SqOpen(t) \/ SqCapacity(t) \/ SqNoVerdict(t)
    <2>0. /\ sqCall[t].pc \in {"open", "capacity", "verdict"} /\ sqLock # t
          /\ UNCHANGED <<sqLock, sqNet, sqChan, sqMon, sqMig, sqIface, sqCached, sqConn>>
      BY <1>1, <1>l DEF SqOpen, SqCapacity, SqNoVerdict, SqAt, SqNetVars, SqLocked
    <2>c. sqCall[t].got \in SqIds
      BY <2>0, <1>k DEF SqKnows
    <2>1. PICK pc \in {"clear", "capacity", "verdict", "evict", "watch", "done"} :
            /\ SqGoto(t, pc)
            /\ pc = "evict" => sqConn[sqCall[t].got].full
            /\ pc = "done" => sqConn[sqCall[t].got].hs # "early" /\ ~SqRejected(sqCall[t].got)
      <3>1. CASE SqOpen(t)
        BY <3>1 DEF SqOpen, SqGot
      <3>2. CASE SqCapacity(t)
        BY <3>2 DEF SqCapacity, SqGot
      <3>3. CASE SqNoVerdict(t)
        BY <3>3 DEF SqNoVerdict, SqGot
      <3> QED
        BY <1>1, <3>1, <3>2, <3>3
    <2>2. PICK s \in SqCalls : sqCall' = [sqCall EXCEPT ![t] = s] /\ s.got = sqCall[t].got /\ s.pc = pc
      BY <2>1, SqGotos DEF SqPcs
    <2>3. SqKnows(t, s)' /\ SqInside(s)' /\ s.pc \notin SqLocked
      BY <2>0, <2>1, <2>2, <2>c DEF SqKnows, SqInside, SqLocked, SqIds, SqRejected
    <2> QED
      BY <2>0, <2>2, <2>3, SqStill, SqCallStep
  <1>2. CASE SqClear(t)
    <2>0. /\ sqCall[t].pc = "clear" /\ sqLock = SqFree /\ sqLock # t
          /\ UNCHANGED <<sqLock, sqNet, sqChan, sqMon, sqMig, sqIface>>
      BY <1>2, <1>f DEF SqClear, SqAt, SqNetVars
    <2>c. sqCall[t].got \in SqIds
      BY <2>0, <1>k DEF SqKnows
    <2>1. PICK s \in SqCalls : sqCall' = [sqCall EXCEPT ![t] = s] /\ s.pc \in {"failed", "ensure"}
      <3>1. CASE SqFail(t)
        BY <3>1, SqFailing
      <3>2. CASE sqCall' = [sqCall EXCEPT ![t].try = 1, ![t].got = 0, ![t].pc = "ensure"]
        <4>1. PICK u : u = [sqCall[t] EXCEPT !.try = 1, !.got = 0, !.pc = "ensure"]
          OBVIOUS
        <4>2. u \in SqCalls /\ u.pc = "ensure"
          BY <4>1, <1>k DEF SqCalls, SqPcs
        <4>3. sqCall' = [sqCall EXCEPT ![t] = u]
          BY <4>1, <3>2, <1>k DEF SqInv, SqTyped, SqCalls
        <4> QED
          BY <4>2, <4>3
      <3> QED
        BY <3>1, <3>2, <1>2 DEF SqClear
    <2>2. SqKnows(t, s)' /\ SqInside(s)' /\ s.pc \notin SqLocked
      BY <2>1, SqBlank
    <2>3. CASE UNCHANGED <<sqConn, sqCached>>
      BY <2>0, <2>1, <2>2, <2>3, SqStill, SqCallStep
    <2>4. CASE /\ sqCached = sqCall[t].got /\ sqCached' = 0
               /\ sqConn' = [sqConn EXCEPT ![sqCall[t].got].up = FALSE]
      <3>1. SqAges /\ ~sqConn'[sqCached].up
        BY <2>4, <2>c, SqCloses
      <3> QED
        BY <2>0, <2>1, <2>2, <2>4, <3>1, SqCallStep
    <2> QED
      BY <2>3, <2>4, <1>2 DEF SqClear, SqForget, SqGot
  <1>3. CASE SqEvict(t)
    <2>0. /\ sqCall[t].pc = "evict" /\ sqLock = SqFree /\ sqLock # t
          /\ UNCHANGED <<sqLock, sqNet, sqChan, sqMon, sqMig, sqIface, sqConn>>
      BY <1>3, <1>f DEF SqEvict, SqAt, SqNetVars
    <2>1. PICK s \in SqCalls : sqCall' = [sqCall EXCEPT ![t] = s] /\ s.pc \in {"failed", "ensure"}
      <3>1. CASE SqFail(t)
        BY <3>1, SqFailing
      <3>2. CASE sqCall' = [sqCall EXCEPT ![t].cap = 1, ![t].try = 0, ![t].got = 0, ![t].pc = "ensure"]
        <4>1. PICK u : u = [sqCall[t] EXCEPT !.cap = 1, !.try = 0, !.got = 0, !.pc = "ensure"]
          OBVIOUS
        <4>2. u \in SqCalls /\ u.pc = "ensure"
          BY <4>1, <1>k DEF SqCalls, SqPcs
        <4>3. sqCall' = [sqCall EXCEPT ![t] = u]
          BY <4>1, <3>2, <1>k DEF SqInv, SqTyped, SqCalls
        <4> QED
          BY <4>2, <4>3
      <3> QED
        BY <3>1, <3>2, <1>3 DEF SqEvict
    <2>2. SqKnows(t, s)' /\ SqInside(s)' /\ s.pc \notin SqLocked
      BY <2>1, SqBlank
    <2>3. sqCached' = sqCached \/ (sqCached' = 0 /\ sqConn'[sqCached].full)
      BY <1>3, <2>0, <1>k DEF SqEvict, SqForget, SqGot, SqKnows
    <2> QED
      BY <2>0, <2>1, <2>2, <2>3, SqStill, SqCallStep
  <1>4. CASE SqVerdict(t)
    <2>0. /\ sqCall[t].pc = "watch" /\ sqLock # t
          /\ UNCHANGED <<sqLock, sqNet, sqChan, sqMon, sqMig, sqIface, sqCached>>
      BY <1>4, <1>l DEF SqVerdict, SqAt, SqNetVars, SqLocked
    <2>c. sqCall[t].got \in SqIds
      BY <2>0, <1>k DEF SqKnows
    <2>1. CASE sqConn[sqCall[t].got].hs = "accepted" /\ SqGoto(t, "done") /\ UNCHANGED sqConn
      <3>1. PICK s \in SqCalls : sqCall' = [sqCall EXCEPT ![t] = s] /\ s.got = sqCall[t].got /\ s.pc = "done"
        BY <2>1, SqGotos DEF SqPcs
      <3>2. SqKnows(t, s)' /\ SqInside(s)' /\ s.pc \notin SqLocked
        BY <2>1, <3>1, <2>c DEF SqKnows, SqInside, SqLocked, SqIds
      <3> QED
        BY <2>0, <2>1, <3>1, <3>2, SqStill, SqCallStep
    <2>2. CASE SqAgain(t) /\ UNCHANGED sqConn
      <3>1. PICK s \in SqCalls : sqCall' = [sqCall EXCEPT ![t] = s] /\ s.pc \in {"failed", "ensure"}
        BY <2>2, SqFailing
      <3>2. SqKnows(t, s)' /\ SqInside(s)' /\ s.pc \notin SqLocked
        BY <3>1, SqBlank
      <3> QED
        BY <2>0, <2>2, <3>1, <3>2, SqStill, SqCallStep
    <2>3. CASE SqGoto(t, "unmap") /\ sqConn' = [sqConn EXCEPT ![sqCall[t].got].marked = TRUE, ![sqCall[t].got].up = FALSE]
      <3> DEFINE c == sqCall[t].got
                 k == [sqConn[c] EXCEPT !.marked = TRUE, !.up = FALSE]
      <3>1. sqConn[c] \in SqLinks
        BY <2>c, ElementOfSeq DEF SqInv, SqTyped, SqIds
      <3>2. /\ k \in SqLinks /\ ~k.up /\ k.full = sqConn[c].full /\ k.hs = sqConn[c].hs
            /\ k.net = sqConn[c].net
        BY <3>1 DEF SqLinks
      <3>3. sqConn' = [sqConn EXCEPT ![c] = k]
        BY <2>3, <2>c, <3>1 DEF SqInv, SqTyped, SqIds, SqLinks
      <3>4. SqAges /\ sqConn'[c] = k
        <4>1. SqOn(c, k)
          BY <3>2, <3>3, <2>c DEF SqOn
        <4> HIDE DEF k, c
        <4> QED
          BY <4>1, SqOnConn
      <3>5. PICK s \in SqCalls : sqCall' = [sqCall EXCEPT ![t] = s] /\ s.got = sqCall[t].got /\ s.pc = "unmap"
        BY <2>3, SqGotos DEF SqPcs
      <3> HIDE DEF k
      <3>6. SqKnows(t, s)' /\ SqInside(s)' /\ s.pc \notin SqLocked
        BY <3>2, <3>4, <3>5, <2>c DEF SqKnows, SqInside, SqLocked, SqIds, SqAges
      <3> QED
        BY <2>0, <3>4, <3>5, <3>6, SqCallStep
    <2> QED
      BY <2>1, <2>2, <2>3, <1>4 DEF SqVerdict, SqGot
  <1>5. CASE SqUnmap(t)
    <2>0. /\ sqCall[t].pc = "unmap" /\ sqLock = SqFree /\ sqLock # t /\ SqAgain(t)
          /\ UNCHANGED <<sqLock, sqNet, sqChan, sqMon, sqMig, sqIface, sqConn>>
      BY <1>5, <1>f DEF SqUnmap, SqAt, SqNetVars
    <2>1. PICK s \in SqCalls : sqCall' = [sqCall EXCEPT ![t] = s] /\ s.pc \in {"failed", "ensure"}
      BY <2>0, SqFailing
    <2>2. SqKnows(t, s)' /\ SqInside(s)' /\ s.pc \notin SqLocked
      BY <2>1, SqBlank
    <2>3. sqCached' = sqCached \/ (sqCached' = 0 /\ ~sqConn'[sqCached].up)
      BY <1>5, <2>0, <1>k DEF SqUnmap, SqForget, SqGot, SqKnows
    <2> QED
      BY <2>0, <2>1, <2>2, <2>3, SqStill, SqCallStep
  <1>6. CASE SqGiveUp(t)
    <2>0. /\ sqCall[t].pc # "store" /\ sqLock' = (IF sqLock = t THEN SqFree ELSE sqLock)
          /\ UNCHANGED <<sqCached, sqConn, sqNet, sqChan, sqMon, sqMig, sqIface>> /\ SqFail(t)
      BY <1>6 DEF SqGiveUp, SqNetVars
    <2>1. PICK s \in SqCalls : sqCall' = [sqCall EXCEPT ![t] = s] /\ s.pc \in {"failed", "ensure"}
      BY <2>0, SqFailing
    <2>2. SqKnows(t, s)' /\ SqInside(s)' /\ s.pc \notin SqLocked
      BY <2>1, SqBlank
    <2> QED
      BY <2>0, <2>1, <2>2, SqStill, SqCallStep
  <1> QED
    BY <1>1, <1>2, <1>3, <1>4, <1>5, <1>6

\* A new connection belongs to the call that stores it.
LEMMA SqConnects ==
    ASSUME SqInv, NEW t \in SqCallers, SqConnect(t)
    PROVE  SqInv'
  <1>0. /\ sqCall[t].pc = "connect" /\ UNCHANGED <<sqLock, sqCached, sqNet, sqChan, sqMon, sqMig, sqIface>>
        /\ SqGoto(t, "store")
    BY DEF SqConnect, SqAt, SqNetVars
  <1>k. SqInside(sqCall[t]) /\ sqCall[t] \in SqCalls /\ sqCall[t].net \in Nat
    BY DEF SqInv, SqTyped, SqCalls
  <1>l. sqLock = t
    BY <1>0 DEF SqInv, SqTypeOK
  <1>1. PICK k \in SqLinks : sqConn' = Append(sqConn, k) /\ k.net = sqCall[t].net /\ k.watch # "unmap"
    <2>1. PICK hs \in {"early", "full"} :
            sqConn' = Append(sqConn,
              [up |-> TRUE, hs |-> hs, marked |-> FALSE, full |-> FALSE, net |-> sqCall[t].net,
               watch |-> IF SqAuth /\ hs = "early" THEN "wait" ELSE "none"])
      BY DEF SqConnect
    <2>2. PICK k : k = [up |-> TRUE, hs |-> hs, marked |-> FALSE, full |-> FALSE, net |-> sqCall[t].net,
                        watch |-> IF SqAuth /\ hs = "early" THEN "wait" ELSE "none"]
      OBVIOUS
    <2>3. k \in SqLinks /\ k.net = sqCall[t].net /\ k.watch # "unmap"
      BY <2>2, <1>k DEF SqLinks
    <2> QED
      BY <2>1, <2>2, <2>3
  <1> DEFINE n == Len(sqConn)
  <1>2. /\ sqConn' \in Seq(SqLinks) /\ Len(sqConn') = n + 1 /\ n \in Nat
        /\ \A i \in 1 .. n : sqConn'[i] = sqConn[i]
        /\ sqConn'[n + 1] = k
    BY <1>1, AppendProperties DEF SqInv, SqTyped
  <1>3. /\ SqIds = 1 .. n /\ SqIds' = 1 .. n + 1 /\ SqIds \subseteq SqIds'
    BY <1>2 DEF SqIds
  <1>q. /\ sqCall' \in [SqCallers -> SqCalls] /\ sqCall'[t].pc = "store"
        /\ \A r \in SqCallers \ {t} : sqCall'[r] = sqCall[r]
    <2>1. PICK s \in SqCalls : sqCall' = [sqCall EXCEPT ![t] = s] /\ s.pc = "store"
      BY <1>0, SqGotos DEF SqPcs
    <2> QED
      BY <2>1 DEF SqInv, SqTyped
  <1>p. SqPending' = SqPending
    BY <1>0 DEF SqPending
  <1>c. sqCached # 0 => sqCached \in SqIds /\ sqConn'[sqCached] = sqConn[sqCached]
    BY <1>2, <1>3 DEF SqInv, SqTypeOK
  <1>4. SqTyped'
    BY <1>0, <1>2, <1>q DEF SqInv, SqTyped
  <1>5. SqTypeOK'
    <2>1. ASSUME NEW r \in SqCallers PROVE sqLock' = r <=> sqCall'[r].pc \in SqLocked
      BY <1>0, <1>l, <1>q DEF SqInv, SqTypeOK, SqLocked
    <2>2. sqCached' \in 0 .. Len(sqConn')
      BY <1>0, <1>2 DEF SqInv, SqTypeOK
    <2> QED
      BY <2>1, <2>2, <1>0 DEF SqInv, SqTypeOK, SqLocked
  <1>6. SqKept'
    BY <1>0, <1>1, <1>2, <1>3, <1>c, <1>p DEF SqInv, SqKept
  <1>7. SqNoOrphan'
    <2> SUFFICES ASSUME NEW c \in 1 .. n + 1, sqConn'[c].up
                 PROVE  \/ c = sqCached' \/ sqConn'[c].full
                        \/ \E r \in SqCallers : sqCall'[r].pc = "store" /\ c = Len(sqConn')
      BY <1>3 DEF SqNoOrphan
    <2>1. CASE c = n + 1
      BY <2>1, <1>2, <1>q
    <2>2. CASE c \in SqIds
      <3>1. \A r \in SqCallers : sqCall[r].pc # "store"
        BY <1>0, <1>l DEF SqInv, SqTypeOK
      <3> QED
        BY <2>2, <3>1, <1>0, <1>2, <1>3 DEF SqInv, SqNoOrphan
    <2> QED
      BY <2>1, <2>2, <1>2, <1>3
  <1>8. ASSUME NEW r \in SqCallers \ {t} PROVE SqKnows(r, sqCall[r])' /\ SqInside(sqCall[r])'
    <2>1. SqKnows(r, sqCall[r]) /\ sqCall'[r] = sqCall[r] /\ sqCall[r].pc \notin SqLocked
      BY <1>q, <1>l DEF SqInv, SqTypeOK, SqLocked
    <2>2. SqKnows(r, sqCall[r])'
      BY <2>1, <1>2, <1>3 DEF SqKnows
    <2> QED
      BY <2>1, <2>2 DEF SqInside, SqLocked
  <1>9. SqKnows(t, sqCall[t])' /\ SqInside(sqCall[t])'
    <2>1. sqConn'[Len(sqConn')].net = sqNet' \/ SqPending'
      BY <1>0, <1>1, <1>2, <1>k, <1>p DEF SqInside
    <2>2. sqCached' # 0 => ~sqConn'[sqCached'].up
      BY <1>0, <1>c, <1>k DEF SqInside
    <2>3. Len(sqConn') > 0
      BY <1>2
    <2> QED
      BY <2>1, <2>2, <2>3, <1>q DEF SqKnows, SqInside
  <1> QED
    BY <1>4, <1>5, <1>6, <1>7, <1>8, <1>9 DEF SqInv

\* It takes the place of one that is closed, and never that of an open one.
LEMMA SqStores ==
    ASSUME SqInv, NEW t \in SqCallers, SqStore(t)
    PROVE  SqInv'
  <1> DEFINE n == Len(sqConn)
  <1>0. /\ sqCall[t].pc = "store" /\ UNCHANGED <<sqConn, sqNet, sqChan, sqMon, sqMig, sqIface>>
        /\ SqGive(t, n) /\ sqCached' = n /\ sqLock' = SqFree
    BY DEF SqStore, SqAt, SqNetVars
  <1>k. SqInside(sqCall[t])
    BY DEF SqInv
  <1>l. sqLock = t
    BY <1>0 DEF SqInv, SqTypeOK
  <1>1. n \in SqIds /\ n # 0 /\ n \in Nat /\ SqIds' = SqIds
    BY <1>0, <1>k DEF SqInv, SqTyped, SqIds, SqInside
  <1>2. PICK s \in SqCalls : /\ sqCall' = [sqCall EXCEPT ![t] = s] /\ s.got = n
                             /\ s.pc = IF t \in SqStat THEN "done" ELSE "open"
    BY <1>0, <1>1, SqGives
  <1>q. sqCall'[t] = s /\ (\A r \in SqCallers \ {t} : sqCall'[r] = sqCall[r]) /\ sqCall' \in [SqCallers -> SqCalls]
    BY <1>2 DEF SqInv, SqTyped
  <1>p. SqPending' = SqPending
    BY <1>0 DEF SqPending
  <1>u. \A r \in SqCallers : sqCall'[r].pc \notin SqLocked
    BY <1>2, <1>l, <1>q DEF SqInv, SqTypeOK, SqLocked
  <1>3. SqTyped'
    BY <1>0, <1>q DEF SqInv, SqTyped
  <1>4. SqTypeOK'
    <2>1. \A r \in SqCallers : sqLock' # r
      BY <1>0, SqPart DEF SqFree
    <2>2. sqLock' # SqWatcher /\ sqMig' # "socket"
      BY <1>0, <1>l, SqPart DEF SqInv, SqTypeOK, SqFree, SqWatcher
    <2>3. sqCached' \in 0 .. Len(sqConn')
      BY <1>0, <1>1
    <2> QED
      BY <2>1, <2>2, <2>3, <1>0, <1>u DEF SqInv, SqTypeOK, SqLocked
  <1>5. SqKept'
    <2>1. sqMig # "socket"
      BY <1>l, SqPart DEF SqInv, SqTypeOK, SqWatcher
    <2> QED
      BY <2>1, <1>0, <1>1, <1>k, <1>p DEF SqInv, SqKept, SqInside
  <1>6. SqNoOrphan'
    <2> SUFFICES ASSUME NEW c \in SqIds, sqConn[c].up PROVE c = n \/ sqConn[c].full
      BY <1>0, <1>1 DEF SqNoOrphan
    <2>1. c # sqCached
      BY <1>0, <1>k DEF SqInside, SqIds
    <2> QED
      BY <2>1 DEF SqInv, SqNoOrphan
  <1>7. ASSUME NEW r \in SqCallers PROVE SqKnows(r, sqCall[r])' /\ SqInside(sqCall[r])'
    <2>1. SqInside(sqCall[r])'
      BY <1>u DEF SqInside, SqLocked
    <2>2. CASE r # t
      <3>1. SqKnows(r, sqCall[r]) /\ sqCall'[r] = sqCall[r]
        BY <2>2, <1>q DEF SqInv
      <3> QED
        BY <2>1, <3>1, <1>0, <1>1 DEF SqKnows
    <2>3. CASE r = t
      BY <2>1, <2>3, <1>0, <1>1, <1>2, <1>q, SqPart DEF SqKnows
    <2> QED
      BY <2>2, <2>3
  <1> QED
    BY <1>3, <1>4, <1>5, <1>6, <1>7 DEF SqInv

-----------------------------------------------------------------------------
(* The watchers, the network and the peer *)

\* A step on the connections that no call takes: the watcher of an auth stream, the
\* handshake, the peer.
LEMMA SqConnStep ==
    ASSUME SqInv, SqAges, UNCHANGED <<sqCall, sqLock, sqNet, sqChan, sqMon, sqMig, sqIface>>,
           \/ sqCached' = sqCached
           \/ sqCached' = 0 /\ sqLock = SqFree /\ (sqCached # 0 => ~sqConn'[sqCached].up)
    PROVE  SqInv'
  <1>p. SqPending' = SqPending
    BY DEF SqPending
  <1>l. Len(sqConn) \in Nat /\ SqIds' = SqIds /\ SqIds = 1 .. Len(sqConn)
    BY DEF SqInv, SqTyped, SqIds, SqAges
  <1>c. sqCached # 0 => sqCached \in SqIds
    BY <1>l DEF SqInv, SqTypeOK
  <1>1. SqTyped'
    BY DEF SqInv, SqTyped, SqAges
  <1>2. SqTypeOK'
    BY <1>l DEF SqInv, SqTypeOK, SqAges
  <1>3. SqKept'
    <2>1. sqCached' # sqCached => sqMig # "socket"
      BY SqPart DEF SqInv, SqTypeOK, SqFree, SqWatcher
    <2> QED
      BY <2>1, <1>c, <1>l, <1>p DEF SqInv, SqKept, SqAges
  <1>4. SqNoOrphan'
    BY <1>l DEF SqInv, SqNoOrphan, SqAges
  <1>5. ASSUME NEW r \in SqCallers PROVE SqKnows(r, sqCall[r])' /\ SqInside(sqCall[r])'
    <2>1. SqKnows(r, sqCall[r]) /\ SqInside(sqCall[r])
      BY DEF SqInv
    <2>2. SqKnows(r, sqCall[r])'
      BY <2>1, <1>l DEF SqKnows, SqAges
    <2>3. CASE sqCached' = sqCached
      <3>1. Len(sqConn) > 0 => Len(sqConn) \in SqIds
        BY <1>l
      <3> QED
        BY <2>1, <2>2, <2>3, <3>1, <1>c, <1>p DEF SqInside, SqAges
    <2>4. CASE sqLock = SqFree
      <3>1. sqCall[r].pc \notin SqLocked
        BY <2>4, SqPart DEF SqInv, SqTypeOK, SqFree, SqLocked
      <3> QED
        BY <2>2, <3>1 DEF SqInside, SqLocked
    <2> QED
      BY <2>3, <2>4
  <1> QED
    BY <1>1, <1>2, <1>3, <1>4, <1>5 DEF SqInv

\* The authentication, its removal from the map and the fill of the cell keep the
\* invariant.
LEMMA SqConnEvents ==
    ASSUME SqInv, NEW c \in SqIds, SqAuthVerdict(c) \/ SqAuthUnmap(c) \/ SqSettle(c) \/ SqFill(c)
    PROVE  SqInv'
  <1>t. sqConn[c] \in SqLinks /\ (sqConn[c].watch = "unmap" => ~sqConn[c].up)
    BY ElementOfSeq DEF SqInv, SqTyped, SqKept, SqIds
  <1>1. CASE SqAuthVerdict(c)
    <2>0. UNCHANGED <<sqCall, sqLock, sqCached, sqNet, sqChan, sqMon, sqMig, sqIface>> /\ sqConn[c].watch = "wait"
      BY <1>1 DEF SqAuthVerdict, SqNetVars
    <2>1. CASE sqConn' = [sqConn EXCEPT ![c].watch = "none"]
      <3> DEFINE k == [sqConn[c] EXCEPT !.watch = "none"]
      <3>1. SqOn(c, k)
        BY <2>1, <1>t DEF SqOn, SqLinks
      <3> QED
        BY <3>1, <2>0, SqOnConn, SqConnStep
    <2>2. CASE sqConn' = [sqConn EXCEPT ![c].watch = "unmap", ![c].marked = TRUE, ![c].up = FALSE]
      <3> DEFINE k == [sqConn[c] EXCEPT !.watch = "unmap", !.marked = TRUE, !.up = FALSE]
      <3>1. sqConn' = [sqConn EXCEPT ![c] = k]
        BY <2>2, <1>t DEF SqInv, SqTyped, SqIds, SqLinks
      <3>2. /\ k \in SqLinks /\ ~k.up /\ k.full = sqConn[c].full /\ k.hs = sqConn[c].hs
            /\ k.net = sqConn[c].net
        BY <1>t DEF SqLinks
      <3>3. SqOn(c, k)
        BY <3>1, <3>2 DEF SqOn
      <3> QED
        BY <3>3, <2>0, SqOnConn, SqConnStep
    <2> QED
      BY <2>1, <2>2, <1>1 DEF SqAuthVerdict
  <1>2. CASE SqAuthUnmap(c)
    <2>0. /\ UNCHANGED <<sqCall, sqLock, sqNet, sqChan, sqMon, sqMig, sqIface>> /\ sqConn[c].watch = "unmap"
          /\ sqLock = SqFree /\ sqConn' = [sqConn EXCEPT ![c].watch = "none"]
          /\ sqCached' = sqCached \/ (sqCached' = 0 /\ sqCached = c)
      BY <1>2 DEF SqAuthUnmap, SqNetVars, SqForget
    <2> DEFINE k == [sqConn[c] EXCEPT !.watch = "none"]
    <2>1. SqOn(c, k) /\ ~k.up
      BY <2>0, <1>t DEF SqOn, SqLinks
    <2>2. SqAges /\ ~sqConn'[c].up
      BY <2>1, SqOnConn
    <2> QED
      BY <2>0, <2>2, SqConnStep
  <1>3. CASE SqHandshake(c)
    <2>0. UNCHANGED <<sqCall, sqLock, sqCached, sqNet, sqChan, sqMon, sqMig, sqIface>> /\ sqConn[c].hs = "early"
      BY <1>3 DEF SqHandshake, SqNetVars
    <2>1. PICK hs \in {"accepted", "rejected"} : sqConn' = [sqConn EXCEPT ![c].hs = hs]
      BY <1>3 DEF SqHandshake
    <2> DEFINE k == [sqConn[c] EXCEPT !.hs = hs]
    <2>2. SqOn(c, k)
      BY <2>0, <2>1, <1>t DEF SqOn, SqLinks
    <2> QED
      BY <2>0, <2>2, SqOnConn, SqConnStep
  <1>4. CASE SqConnDies(c)
    BY <1>4, SqCloses, SqConnStep DEF SqConnDies, SqNetVars
  <1>5. CASE SqFill(c)
    <2>0. UNCHANGED <<sqCall, sqLock, sqCached, sqNet, sqChan, sqMon, sqMig, sqIface>> /\ sqConn' = [sqConn EXCEPT ![c].full = TRUE]
      BY <1>5 DEF SqFill, SqNetVars
    <2> DEFINE k == [sqConn[c] EXCEPT !.full = TRUE]
    <2>2. SqOn(c, k)
      BY <2>0, <1>t DEF SqOn, SqLinks
    <2> QED
      BY <2>0, <2>2, SqOnConn, SqConnStep
  <1> QED
    BY <1>1, <1>2, <1>3, <1>4, <1>5 DEF SqSettle

\* A change is pending from the moment the interface is selected until the watcher has
\* the lock, and the calls that were ahead of it are done then.
LEMMA SqNetEvents ==
    ASSUME SqInv, SqNetChange \/ SqNotify \/ SqRecv \/ SqMigrate \/ SqDrop
    PROVE  SqInv'
  <1>0. UNCHANGED <<sqCall, sqCached, sqConn>>
    BY DEF SqNetChange, SqNotify, SqRecv, SqMigrate, SqDrop, SqNetVars
  <1>t. /\ sqChan \in [n : Nat, lag : BOOLEAN] /\ sqChan.n \in 0 .. SqChan /\ sqNet \in 0 .. SqMaxChanges
        /\ SqChan \in Nat /\ SqChan > 0 /\ SqMaxChanges \in Nat
    BY SqAssumption DEF SqInv, SqTyped, SqTypeOK
  <1>x. /\ \A m \in Nat : [sqChan EXCEPT !.n = m] \in [n : Nat, lag : BOOLEAN] /\ [sqChan EXCEPT !.n = m].n = m
        /\ \A b \in BOOLEAN : [sqChan EXCEPT !.lag = b] \in [n : Nat, lag : BOOLEAN] /\ [sqChan EXCEPT !.lag = b].n = sqChan.n
    BY DEF SqInv, SqTyped
  <1>y. sqChan.n \in Nat /\ sqChan.n + 1 \in Nat /\ (sqChan.n > 0 => sqChan.n - 1 \in Nat)
    BY <1>t
  <1>1. /\ sqChan' \in [n : Nat, lag : BOOLEAN] /\ sqChan'.n \in 0 .. SqChan /\ sqNet' \in 0 .. SqMaxChanges
        /\ sqMon' \in {"idle", "notify"} /\ sqMig' \in {"idle", "lock", "socket", "aborted"}
        /\ sqIface' \in 0 .. SqMaxChanges
    <2>1. CASE SqNetChange
      BY <2>1, <1>t DEF SqNetChange, SqInv, SqTypeOK
    <2>2. CASE SqNotify
      <3>1. /\ [sqChan EXCEPT !.lag = TRUE] \in [n : Nat, lag : BOOLEAN] /\ [sqChan EXCEPT !.lag = TRUE].n = sqChan.n
            /\ [sqChan EXCEPT !.n = sqChan.n + 1] \in [n : Nat, lag : BOOLEAN]
            /\ [sqChan EXCEPT !.n = sqChan.n + 1].n = sqChan.n + 1
        BY <1>x, <1>y
      <3>2. sqChan' \in [n : Nat, lag : BOOLEAN] /\ sqChan'.n \in 0 .. SqChan
        BY <2>2, <3>1, <1>t DEF SqNotify
      <3> QED
        BY <2>2, <3>2, <1>t DEF SqNotify, SqInv, SqTypeOK
    <2>3. CASE SqRecv
      <3>1. /\ [sqChan EXCEPT !.lag = FALSE] \in [n : Nat, lag : BOOLEAN] /\ [sqChan EXCEPT !.lag = FALSE].n = sqChan.n
            /\ sqChan.n > 0 => /\ [sqChan EXCEPT !.n = sqChan.n - 1] \in [n : Nat, lag : BOOLEAN]
                               /\ [sqChan EXCEPT !.n = sqChan.n - 1].n = sqChan.n - 1
        BY <1>x, <1>y
      <3>2. sqChan' \in [n : Nat, lag : BOOLEAN] /\ sqChan'.n \in 0 .. SqChan
        <4>1. CASE sqChan.lag
          <5>1. sqChan' = [sqChan EXCEPT !.lag = FALSE]
            BY <2>3, <4>1 DEF SqRecv
          <5> QED
            BY <5>1, <3>1, <1>t
        <4>2. CASE ~sqChan.lag
          <5>1. sqChan.n > 0 /\ sqChan' = [sqChan EXCEPT !.n = sqChan.n - 1]
            BY <2>3, <4>2 DEF SqRecv
          <5>2. sqChan' \in [n : Nat, lag : BOOLEAN] /\ sqChan'.n = sqChan.n - 1
            BY <5>1, <3>1
          <5> QED
            BY <5>1, <5>2, <1>t
        <4> QED
          BY <4>1, <4>2
      <3> QED
        BY <2>3, <3>2, <1>t DEF SqRecv, SqInv, SqTypeOK, SqTyped
    <2>4. CASE SqMigrate \/ SqDrop
      BY <2>4, <1>t DEF SqMigrate, SqDrop, SqNetVars, SqInv, SqTypeOK, SqTyped
    <2> QED
      BY <2>1, <2>2, <2>3, <2>4
  <1>2. /\ sqLock' \in SqCallers \cup {SqFree, SqWatcher}
        /\ \A t \in SqCallers : sqLock' = t <=> sqLock = t
        /\ sqLock' = SqWatcher <=> sqMig' = "socket"
    <2>1. CASE SqNetChange \/ SqNotify \/ SqRecv
      BY <2>1 DEF SqNetChange, SqNotify, SqRecv, SqInv, SqTypeOK
    <2>2. CASE SqMigrate \/ SqDrop
      BY <2>2, SqPart DEF SqMigrate, SqDrop, SqInv, SqTypeOK, SqFree, SqWatcher
    <2> QED
      BY <2>1, <2>2
  <1>3. /\ SqPending /\ ~SqPending' => sqCached = 0 /\ sqLock = SqFree
        /\ sqNet' # sqNet => SqPending'
        /\ sqMig' = "socket" => sqMig = "socket" \/ sqCached # 0
        /\ sqMig' = "socket" /\ (sqMig = "socket" => sqIface = sqNet \/ sqMon = "notify" \/ sqChan.n > 0)
             => sqIface' = sqNet' \/ sqMon' = "notify" \/ sqChan'.n > 0
    <2>1. CASE SqNetChange
      BY <2>1 DEF SqNetChange, SqPending
    <2>2. CASE SqNotify
      BY <2>2, <1>t DEF SqNotify, SqPending
    <2>3. CASE SqRecv
      BY <2>3, <1>t DEF SqRecv, SqPending
    <2>4. CASE SqMigrate
      BY <2>4 DEF SqMigrate, SqPending, SqNetVars
    <2>5. CASE SqDrop
      BY <2>5 DEF SqDrop, SqPending, SqNetVars
    <2> QED
      BY <2>1, <2>2, <2>3, <2>4, <2>5
  <1>4. SqTyped' /\ SqTypeOK'
    BY <1>0, <1>1, <1>2 DEF SqInv, SqTyped, SqTypeOK
  <1>5. SqKept'
    BY <1>0, <1>3 DEF SqInv, SqKept, SqIds
  <1>6. SqNoOrphan'
    BY <1>0 DEF SqInv, SqNoOrphan, SqIds
  <1>7. ASSUME NEW t \in SqCallers PROVE SqKnows(t, sqCall[t])' /\ SqInside(sqCall[t])'
    <2>1. SqKnows(t, sqCall[t]) /\ SqInside(sqCall[t])
      BY DEF SqInv
    <2>2. sqCall[t].pc \in {"connect", "store"} => sqLock # SqFree
      BY SqPart DEF SqInv, SqTypeOK, SqFree
    <2> QED
      BY <2>1, <2>2, <1>0, <1>3 DEF SqKnows, SqInside, SqIds
  <1> QED
    BY <1>4, <1>5, <1>6, <1>7 DEF SqInv

\* The watcher has the lock: the cached connection follows, or is given up and closed.
LEMMA SqRebinds ==
    ASSUME SqInv, SqRebind
    PROVE  SqInv'
  <1>0. sqMig = "socket" /\ sqMig' = "idle" /\ sqLock' = SqFree /\ UNCHANGED <<sqCall, sqNet, sqChan, sqMon>> /\ sqIface' = 0
    BY DEF SqRebind
  <1>c. sqCached \in SqIds /\ Len(sqConn) \in Nat /\ sqIface \in Nat /\ sqCached # 0
    BY <1>0, SqAssumption DEF SqInv, SqTyped, SqTypeOK, SqKept, SqIds
  <1>l. sqLock = SqWatcher /\ \A t \in SqCallers : sqCall[t].pc \notin SqLocked
    BY <1>0, SqPart DEF SqInv, SqTypeOK, SqLocked, SqWatcher
  <1>t. sqConn[sqCached] \in SqLinks
    BY <1>c, ElementOfSeq DEF SqInv, SqTyped, SqIds
  <1>1. /\ sqConn' \in Seq(SqLinks) /\ Len(sqConn') = Len(sqConn)
        /\ \A d \in SqIds : /\ sqConn'[d].up => sqConn[d].up
                            /\ sqConn'[d].full = sqConn[d].full /\ sqConn'[d].hs = sqConn[d].hs
                            /\ sqConn'[d].watch = sqConn[d].watch
        /\ \/ sqCached' = sqCached /\ sqConn'[sqCached].net = sqIface
           \/ sqCached' = 0 /\ ~sqConn'[sqCached].up
    <2>1. PICK k : /\ sqConn' = [sqConn EXCEPT ![sqCached] = k]
                   /\ \/ k = [sqConn[sqCached] EXCEPT !.net = sqIface] /\ sqCached' = sqCached
                      \/ k = [sqConn[sqCached] EXCEPT !.up = FALSE] /\ sqCached' = 0
      BY DEF SqRebind
    <2>2. /\ k \in SqLinks /\ (k.up => sqConn[sqCached].up) /\ k.full = sqConn[sqCached].full
          /\ k.hs = sqConn[sqCached].hs /\ k.watch = sqConn[sqCached].watch
          /\ \/ sqCached' = sqCached /\ k.net = sqIface
             \/ sqCached' = 0 /\ ~k.up
      BY <2>1, <1>c, <1>t DEF SqLinks
    <2>3. sqConn \in Seq(SqLinks) /\ sqCached \in 1 .. Len(sqConn)
      BY <1>c DEF SqInv, SqTyped, SqIds
    <2>4. /\ sqConn' \in Seq(SqLinks) /\ Len(sqConn') = Len(sqConn)
          /\ \A d \in 1 .. Len(sqConn) : sqConn'[d] = IF d = sqCached THEN k ELSE sqConn[d]
      BY <2>1, <2>2, <2>3, ExceptSeq
    <2> QED
      BY <2>2, <2>3, <2>4 DEF SqIds
  <1>i. SqIds' = SqIds
    BY <1>1 DEF SqIds
  <1>2. SqTyped'
    BY <1>0, <1>1 DEF SqInv, SqTyped
  <1>3. SqTypeOK'
    <2>1. \A t \in SqCallers : sqLock' # t
      BY <1>0, SqPart DEF SqFree
    <2>2. sqLock' # SqWatcher
      BY <1>0 DEF SqFree, SqWatcher
    <2>3. sqCached' \in 0 .. Len(sqConn')
      BY <1>1, <1>c DEF SqInv, SqTypeOK
    <2>4. sqIface' \in 0 .. SqMaxChanges
      BY <1>0, SqAssumption
    <2> QED
      BY <2>1, <2>2, <2>3, <2>4, <1>0, <1>l DEF SqInv, SqTypeOK, SqLocked
  <1>4. SqKept'
    BY <1>0, <1>1, <1>c, <1>i DEF SqInv, SqKept, SqPending
  <1>5. SqNoOrphan'
    <2> SUFFICES ASSUME NEW c \in SqIds, sqConn'[c].up PROVE c = sqCached' \/ sqConn'[c].full
      BY <1>i DEF SqNoOrphan
    <2>1. \A t \in SqCallers : sqCall[t].pc # "store"
      BY <1>l DEF SqLocked
    <2> QED
      BY <2>1, <1>1 DEF SqInv, SqNoOrphan
  <1>6. ASSUME NEW t \in SqCallers PROVE SqKnows(t, sqCall[t])' /\ SqInside(sqCall[t])'
    <2>1. SqKnows(t, sqCall[t]) /\ sqCall[t].pc \notin SqLocked /\ sqCall'[t] = sqCall[t]
      BY <1>0, <1>l DEF SqInv
    <2>2. SqKnows(t, sqCall[t])'
      BY <2>1, <1>1, <1>i DEF SqKnows
    <2> QED
      BY <2>1, <2>2 DEF SqInside, SqLocked
  <1> QED
    BY <1>2, <1>3, <1>4, <1>5, <1>6 DEF SqInv

\* For any number of calls, connections and changes of the network: the mutex is held by
\* exactly the task inside ensure_connection or migrate_cached_conn; no open connection falls
\* out of the cache, except one whose context ids ran out; a stream given out without a
\* verdict is one the server serves; and once every change of the network is handled, the
\* cached connection is bound to the current one.
THEOREM SqSafe == SqSpec => []SqCacheSound
  <1>1. SqInit => SqInv
    <2> SUFFICES ASSUME SqInit PROVE SqInv
      OBVIOUS
    <2>1. PICK m \in SqMixes :
            /\ sqCall = [t \in SqCallers |-> [SqIdle EXCEPT !.pc = IF t \in m.calls THEN "ensure" ELSE "failed"]]
            /\ sqNet = SqMaxChanges - m.changes
      BY DEF SqInit
    <2>2. \A t \in SqCallers : sqCall[t] \in SqCalls /\ sqCall[t].pc \in {"ensure", "failed"}
      BY <2>1 DEF SqIdle, SqCalls, SqPcs
    <2>3. sqNet \in 0 .. SqMaxChanges
      BY <2>1, SqAssumption
    <2>4. sqConn = <<>> /\ Len(sqConn) = 0 /\ SqIds = {} /\ sqConn \in Seq(SqLinks)
      BY EmptySeq DEF SqInit, SqIds
    <2>5. SqTyped
      BY <2>1, <2>2, <2>4 DEF SqInit, SqTyped
    <2>6. SqTypeOK
      <3>1. \A t \in SqCallers : sqLock # t
        BY SqPart DEF SqInit, SqFree
      <3> QED
        BY <3>1, <2>2, <2>3, <2>4, SqAssumption DEF SqInit, SqTypeOK, SqFree, SqWatcher
    <2> QED
      BY <2>2, <2>4, <2>5, <2>6 DEF SqInit, SqInv, SqKept, SqNoOrphan, SqKnows, SqInside
  <1>2. SqInv /\ [SqNext]_sqVars => SqInv'
    <2> SUFFICES ASSUME SqInv, [SqNext]_sqVars PROVE SqInv'
      OBVIOUS
    <2>1. CASE UNCHANGED sqVars
      <3>1. SqAges /\ UNCHANGED <<sqCall, sqLock, sqNet, sqChan, sqMon, sqMig, sqIface>> /\ sqCached' = sqCached
        BY <2>1, SqStill DEF sqVars
      <3> QED
        BY <3>1, SqConnStep
    <2>2. ASSUME NEW t \in SqCallers, SqStep(t) \/ SqGiveUp(t) PROVE SqInv'
      BY <2>2, SqEnsures, SqRetries, SqConnects, SqStores DEF SqStep
    <2> QED
      BY <2>1, <2>2, SqConnEvents, SqNetEvents, SqRebinds DEF SqNext
  <1>3. SqInv => SqCacheSound
    <2> SUFFICES ASSUME SqInv PROVE SqCacheSound
      OBVIOUS
    <2>1. SqNoDeafStream
      BY DEF SqInv, SqNoDeafStream, SqKnows, SqGot, SqCallers
    <2>2. SqFollowsNetwork
      BY DEF SqInv, SqTyped, SqKept, SqPending, SqFollowsNetwork
    <2> QED
      BY <2>1, <2>2 DEF SqInv, SqCacheSound
  <1> QED
    BY <1>1, <1>2, <1>3, PTL DEF SqSpec

-----------------------------------------------------------------------------

\* What a call to send_to knows, and the tasks of the receiving end.
UdCallOK(s, c) ==
    /\ c.pc # "idle" => c.t \in Targets /\ sent[s][c.t] < MaxSent
    /\ c.pc \in {"announce", "open", "write"} => c.id \in Ids
    /\ c.pc \in {"idle", "cell"} => c.id = 0

UdTasks ==
    /\ \A s \in Sessions : UdCallOK(s, call[s])
    /\ \A id \in Ids :
         /\ worker[id].pc \in {"found", "run", "unbind", "unmap", "last"} => worker[id].s \in Sessions
         /\ worker[id].pc = "run" => worker[id].t \in Targets
         /\ handler[id].pc = "run" => handler[id].s \in Sessions

\* The packet travels under the id.
UdUnder(id, p) ==
    \/ p \in Range(stream[id].data)
    \/ <<id, p>> \in dgrams
    \/ loop.pc # "read" /\ loop.id = id /\ loop.p = p
    \/ p \in Range(waiting[id])

\* What says that the id stands for the target t of session s: the sender, the
\* control stream and its listener, the id's worker, or a packet under way ...
UdSaid(id, s, t) == cell[s][t] = id \/ (call[s].id = id /\ call[s].t = t)
UdTold(id, s, t) == <<id, t>> \in Range(control[s]) \/ bound[s][id] = t
UdRuns(id, s, t) == worker[id].pc = "run" /\ worker[id].s = s /\ worker[id].t = t
UdCarries(id, s, t) == \E p \in Packet : p.s = s /\ p.t = t /\ UdUnder(id, p)
UdOwns(id, s, t) ==
    UdSaid(id, s, t) \/ UdTold(id, s, t) \/ UdRuns(id, s, t) \/ UdCarries(id, s, t)

\* ... says it of an id that was given out, and of one target.
UdOneOwner ==
    \A id \in Ids, s \in Sessions, t \in Targets : UdOwns(id, s, t) =>
        /\ id < nextId
        /\ \A u \in Sessions, v \in Targets : UdOwns(id, u, v) => u = s /\ v = t

\* Where a packet can be ...
UdPlaces == ({"stream", "dgram", "waiting"} \X Ids) \cup ({"arrived"} \X Sessions)
                \cup ({"loop"} \X {0})

UdAt(x, p) ==
    \/ x[1] = "stream" /\ p \in Range(stream[x[2]].data)
    \/ x[1] = "dgram" /\ <<x[2], p>> \in dgrams
    \/ x[1] = "waiting" /\ p \in Range(waiting[x[2]])
    \/ x[1] = "arrived" /\ \E t \in Targets : <<t, p>> \in Range(Arrived(x[2]))
    \/ x[1] = "loop" /\ loop.pc # "read" /\ loop.p = p

UdDistinct(q) == \A i, j \in DOMAIN q : q[i] = q[j] => i = j

\* ... is one place, and once in it.
UdPlaced ==
    \A x \in UdPlaces, p \in Packet : UdAt(x, p) =>
        /\ p.n <= sent[p.s][p.t]
        /\ \A y \in UdPlaces : UdAt(y, p) => x = y

UdLinear ==
    /\ \A id \in Ids : UdDistinct(stream[id].data) /\ UdDistinct(waiting[id])
    /\ \A s \in Sessions : UdDistinct(Arrived(s))

UdRight == \A s \in Sessions : \A a \in Range(Arrived(s)) : a[2].s = s /\ a[2].t = a[1]

-----------------------------------------------------------------------------
UdSendOK ==
    /\ nextId \in 1 .. MAX_ID + 2
    /\ session \in [Sessions -> {"new", "open", "refused", "dropped"}]
    /\ cell \in [Sessions -> [Targets -> 0 .. MAX_ID]]
    /\ call \in [Sessions -> Call]
    /\ sent \in [Sessions -> [Targets -> 0 .. MaxSent]]
    /\ \A s \in Sessions : UdCallOK(s, call[s])

UdLinkOK ==
    /\ control \in [Sessions -> Seq(Ids \X Targets)]
    /\ stream \in [Ids -> Stream]
    /\ dgrams \subseteq Ids \X Packet

UdBindOK ==
    /\ recvMap \in [Ids -> Sessions \cup {None}]
    /\ bound \in [Sessions -> [Ids -> Targets \cup {None}]]
    /\ closed \in [Sessions -> BOOLEAN]
    /\ lpc \in [Sessions -> {<<"read", 0>>, <<"clean", 0>>, <<"done", 0>>} \cup {"unmap"} \X Ids]

UdWorkerOK ==
    /\ worker \in [Ids -> WorkerState]
    /\ \A id \in Ids :
         /\ worker[id].pc \in {"found", "run", "unbind", "unmap", "last"} => worker[id].s \in Sessions
         /\ worker[id].pc = "run" => worker[id].t \in Targets

UdDgramOK ==
    /\ handler \in [Ids -> HandlerState]
    /\ \A id \in Ids : handler[id].pc = "run" => handler[id].s \in Sessions
    /\ loop \in LoopState
    /\ loop.pc # "read" => loop.id \in Ids /\ loop.p \in Packet
    /\ loop.pc = "feed" => loop.s \in Sessions
    /\ waiting \in [Ids -> Seq(Packet)]
    /\ \A id \in Ids : Len(waiting[id]) <= WAITING_DATAGRAM_QUEUE_CAPACITY

UdQueueOK ==
    /\ queue \in [Sessions -> Seq(Targets \X Packet)]
    /\ \A s \in Sessions : Len(queue[s]) <= UDP_RECEIVE_QUEUE_CAPACITY
    /\ delivered \in [Sessions -> Seq(Targets \X Packet)]

UdTyped == UdSendOK /\ UdLinkOK /\ UdBindOK /\ UdWorkerOK /\ UdDgramOK /\ UdQueueOK

\* The typing the proofs use is the model's and that of the tasks.
LEMMA UdTypedIs == UdTyped <=> TypeOK /\ UdTasks
  BY DEF UdTyped, TypeOK, UdTasks, UdSendOK, UdLinkOK, UdBindOK, UdWorkerOK, UdDgramOK, UdQueueOK

\* What a step leaves alone keeps its types.
LEMMA UdStill ==
    ASSUME UdTyped
    PROVE  /\ UNCHANGED sendVars => UdSendOK'
           /\ UNCHANGED linkVars => UdLinkOK'
           /\ UNCHANGED bindVars => UdBindOK'
           /\ UNCHANGED worker => UdWorkerOK'
           /\ UNCHANGED dgVars => UdDgramOK'
           /\ UNCHANGED <<queue, delivered>> => UdQueueOK'
  <1>1. UNCHANGED sendVars => UdSendOK'
    BY DEF UdTyped, UdSendOK, sendVars, UdCallOK
  <1>2. UNCHANGED linkVars => UdLinkOK'
    BY DEF UdTyped, UdLinkOK, linkVars
  <1>3. UNCHANGED bindVars => UdBindOK'
    BY DEF UdTyped, UdBindOK, bindVars
  <1>4. UNCHANGED worker => UdWorkerOK'
    BY DEF UdTyped, UdWorkerOK
  <1>5. UNCHANGED dgVars => UdDgramOK'
    BY DEF UdTyped, UdDgramOK, dgVars
  <1>6. UNCHANGED <<queue, delivered>> => UdQueueOK'
    BY DEF UdTyped, UdQueueOK
  <1> QED
    BY <1>1, <1>2, <1>3, <1>4, <1>5, <1>6

\* A step of one session's send_to.
LEMMA UdCalls ==
    ASSUME UdTyped, NEW s \in Sessions, NEW c \in Call, UdCallOK(s, c),
           call' = [call EXCEPT ![s] = c], UNCHANGED <<session, sent>>,
           nextId' \in 1 .. MAX_ID + 2, cell' \in [Sessions -> [Targets -> 0 .. MAX_ID]]
    PROVE  UdSendOK'
  <1>1. call' \in [Sessions -> Call] /\ \A u \in Sessions : call'[u] = IF u = s THEN c ELSE call[u]
    BY DEF UdTyped, UdSendOK
  <1>2. \A u \in Sessions : UdCallOK(u, call[u])'
    BY <1>1 DEF UdTyped, UdSendOK, UdCallOK
  <1> QED
    BY <1>1, <1>2 DEF UdTyped, UdSendOK

\* A session without a call has the idle one.
LEMMA UdIdle == Idle \in Call /\ Idle.pc = "idle" /\ Idle.id = 0 /\ Idle.t = None
  <1>1. 0 \in 0 .. MAX_ID
    BY UdpAssumption
  <1> QED
    BY <1>1 DEF Call, Idle

\* A call that asks for its cell has no id yet.
LEMMA UdAsks ==
    ASSUME NEW t \in Targets, NEW a \in {1, 2}
    PROVE  LET c == [pc |-> "cell", t |-> t, id |-> 0, attempt |-> a]
           IN c \in Call /\ c.pc = "cell" /\ c.id = 0 /\ c.t = t
  <1>1. 0 \in 0 .. MAX_ID
    BY UdpAssumption
  <1> QED
    BY <1>1 DEF Call

\* A call that goes on keeps its target and id.
LEMMA UdGoes ==
    ASSUME NEW c \in Call, NEW pc \in {"open", "write"}
    PROVE  LET d == [c EXCEPT !.pc = pc] IN d \in Call /\ d.pc = pc /\ d.id = c.id /\ d.t = c.t
  BY DEF Call

\* The parts of a stream,
LEMMA UdStreamRec ==
    ASSUME NEW r \in Stream
    PROVE  r.data \in Seq(Packet) /\ r.st \in {"none", "open", "finished", "stopped"}
  BY DEF Stream

\* one whose state changes,
LEMMA UdStreamSet ==
    ASSUME NEW r \in Stream, NEW st \in {"open", "finished"}
    PROVE  LET q == [r EXCEPT !.st = st] IN q \in Stream /\ q.st = st /\ q.data = r.data
  BY DEF Stream

\* one whose data change,
LEMMA UdStreamHas ==
    ASSUME NEW r \in Stream, NEW d \in Seq(Packet)
    PROVE  LET q == [r EXCEPT !.data = d] IN q \in Stream /\ q.st = r.st /\ q.data = d
  BY DEF Stream

\* and one that was stopped.
LEMMA UdStreamStops ==
    LET q == [st |-> "stopped", data |-> <<>>] IN q \in Stream /\ q.st = "stopped" /\ q.data = <<>>
  BY EmptySeq DEF Stream

\* The sending side keeps the types,
LEMMA UdSends ==
    ASSUME UdTyped, NEW s \in Sessions,
           OpenSession(s) \/ (\E t \in Targets : SendTo(s, t)) \/ SendSide(s) \/ DropSession(s)
    PROVE  UdTyped'
  <1> USE UdpAssumption
  <1>0. /\ call \in [Sessions -> Call] /\ call[s] \in Call /\ UdCallOK(s, call[s])
        /\ sent[s] \in [Targets -> 0 .. MaxSent] /\ nextId \in 1 .. MAX_ID + 2
        /\ cell \in [Sessions -> [Targets -> 0 .. MAX_ID]] /\ stream \in [Ids -> Stream]
    BY DEF UdTyped, UdSendOK, UdLinkOK
  <1>c. \A t \in Targets : cell[s][t] \in 0 .. MAX_ID
    BY <1>0
  <1>1. CASE OpenSession(s)
    <2>1. UdSendOK'
      BY <1>1, <1>0 DEF UdTyped, UdSendOK, UdCallOK, OpenSession
    <2> QED
      BY <1>1, <2>1, UdStill DEF UdTyped, OpenSession
  <1>2. ASSUME NEW t \in Targets, SendTo(s, t) PROVE UdTyped'
    <2> DEFINE c == [pc |-> "cell", t |-> t, id |-> 0, attempt |-> 1]
    <2>1. c \in Call /\ UdCallOK(s, c)
      BY <1>2, <1>0, UdAsks DEF SendTo, UdCallOK
    <2>2. UdSendOK'
      BY <1>2, <2>1, <1>0, UdCalls DEF SendTo
    <2> QED
      BY <1>2, <2>2, UdStill DEF UdTyped, SendTo
  <1>3. CASE GetSendContextId(s)
    <2>1. call[s].t \in Targets /\ sent[s][call[s].t] < MaxSent
      BY <1>3, <1>0 DEF GetSendContextId, CallAt, UdCallOK
    <2>2. UdSendOK'
      <3>1. CASE cell[s][call[s].t] # 0
        <4> DEFINE c == [call[s] EXCEPT !.pc = "write", !.id = cell[s][call[s].t]]
        <4>1. cell[s][call[s].t] \in Ids
          BY <2>1, <3>1, <1>c DEF Ids
        <4>a. c \in Call /\ c.pc = "write" /\ c.id \in Ids /\ c.t = call[s].t
          BY <2>1, <4>1, <1>c, <1>0 DEF Call
        <4>2. c \in Call /\ UdCallOK(s, c)
          BY <2>1, <4>a DEF UdCallOK
        <4>3. call' = [call EXCEPT ![s] = c] /\ nextId' = nextId
          BY <1>3, <3>1, <1>0 DEF GetSendContextId
        <4> QED
          BY <1>3, <4>2, <4>3, <1>0, UdCalls DEF GetSendContextId
      <3>2. CASE cell[s][call[s].t] = 0 /\ nextId <= MAX_ID
        <4> DEFINE c == [call[s] EXCEPT !.pc = "announce", !.id = nextId]
        <4>1. nextId \in Ids /\ nextId \in 0 .. MAX_ID /\ nextId + 1 \in 1 .. MAX_ID + 2
          BY <3>2, <1>0 DEF Ids
        <4>a. c \in Call /\ c.pc = "announce" /\ c.id \in Ids /\ c.t = call[s].t
          BY <4>1, <1>0 DEF Call
        <4>2. c \in Call /\ UdCallOK(s, c)
          BY <2>1, <4>a DEF UdCallOK
        <4>b. nextId' = nextId + 1 /\ call' = [call EXCEPT ![s].pc = "announce", ![s].id = nextId]
          BY <1>3, <3>2, <1>0 DEF GetSendContextId
        <4>3. call' = [call EXCEPT ![s] = c] /\ nextId' = nextId + 1
          BY <4>b, <1>0
        <4> QED
          BY <1>3, <4>1, <4>2, <4>3, <1>0, UdCalls DEF GetSendContextId
      <3>3. CASE cell[s][call[s].t] = 0 /\ nextId > MAX_ID
        <4>1. Idle \in Call /\ UdCallOK(s, Idle)
          BY UdIdle DEF UdCallOK
        <4>2. call' = [call EXCEPT ![s] = Idle] /\ nextId' = MAX_ID + 2
          BY <1>3, <3>3, <1>0 DEF GetSendContextId
        <4>3. nextId' \in 1 .. MAX_ID + 2
          BY <4>2
        <4> QED
          BY <1>3, <4>1, <4>2, <4>3, <1>0, UdCalls DEF GetSendContextId
      <3> QED
        BY <3>1, <3>2, <3>3, <1>0, <1>c, <2>1
    <2> QED
      BY <1>3, <2>2, UdStill DEF UdTyped, GetSendContextId
  <1>4. CASE Announce(s)
    <2>1. call[s].t \in Targets /\ sent[s][call[s].t] < MaxSent /\ call[s].id \in Ids /\ call[s].id \in 0 .. MAX_ID
      BY <1>4, <1>0 DEF Announce, CallAt, UdCallOK, Ids
    <2>2. UdSendOK'
      <3> DEFINE c == [call[s] EXCEPT !.pc = IF OverStream THEN "open" ELSE "write"]
      <3>1. c \in Call /\ UdCallOK(s, c)
        BY <2>1, <1>0, UdGoes DEF UdCallOK
      <3>2. call' = [call EXCEPT ![s] = c]
        BY <1>4, <1>0 DEF Announce
      <3>3. cell' \in [Sessions -> [Targets -> 0 .. MAX_ID]]
        <4>1. cell' = cell \/ cell' = [cell EXCEPT ![s] = [cell[s] EXCEPT ![call[s].t] = call[s].id]]
          BY <1>4, <1>0 DEF Announce
        <4>2. [cell[s] EXCEPT ![call[s].t] = call[s].id] \in [Targets -> 0 .. MAX_ID]
          BY <1>0, <2>1
        <4> QED
          BY <4>1, <4>2, <1>0
      <3> QED
        BY <1>4, <3>1, <3>2, <3>3, <1>0, UdCalls DEF Announce
    <2>3. UdLinkOK'
      <3>1. Append(control[s], <<call[s].id, call[s].t>>) \in Seq(Ids \X Targets)
        BY <2>1, AppendProperties DEF UdTyped, UdLinkOK
      <3> QED
        BY <3>1, <1>4 DEF Announce, UdTyped, UdLinkOK
    <2> QED
      BY <1>4, <2>2, <2>3, UdStill DEF UdTyped, Announce
  <1>5. CASE OpenUni(s)
    <2>1. call[s].t \in Targets /\ sent[s][call[s].t] < MaxSent /\ call[s].id \in Ids /\ call[s].id \in 0 .. MAX_ID
      BY <1>5, <1>0 DEF OpenUni, CallAt, UdCallOK, Ids
    <2>2. UdSendOK'
      <3> DEFINE c == [call[s] EXCEPT !.pc = "write"]
      <3>1. c \in Call /\ UdCallOK(s, c)
        BY <2>1, <1>0, UdGoes DEF UdCallOK
      <3>2. call' = [call EXCEPT ![s] = c]
        BY <1>5, <1>0 DEF OpenUni
      <3>3. cell' \in [Sessions -> [Targets -> 0 .. MAX_ID]]
        BY <1>5, <1>0, <2>1 DEF OpenUni
      <3> QED
        BY <1>5, <3>1, <3>2, <3>3, <1>0, UdCalls DEF OpenUni
    <2>3. UdLinkOK'
      <3>1. [stream[call[s].id] EXCEPT !.st = "open"] \in Stream
        BY <2>1, <1>0, UdStreamSet
      <3>2. stream' = [stream EXCEPT ![call[s].id] = [stream[call[s].id] EXCEPT !.st = "open"]]
        BY <1>5 DEF OpenUni
      <3>3. stream' \in [Ids -> Stream]
        BY <3>1, <3>2, <1>0
      <3> QED
        BY <3>3, <1>5 DEF OpenUni, UdTyped, UdLinkOK
    <2> QED
      BY <1>5, <2>2, <2>3, UdStill DEF UdTyped, OpenUni
  <1>6. CASE Write(s)
    <2>1. call[s].t \in Targets /\ sent[s][call[s].t] < MaxSent /\ call[s].id \in Ids /\ sent[s][call[s].t] \in 0 .. MaxSent
      BY <1>6, <1>0 DEF Write, CallAt, UdCallOK
    <2> DEFINE p == [s |-> s, t |-> call[s].t, n |-> sent[s][call[s].t] + 1]
    <2>2. p \in Packet
      BY <2>1 DEF Packet
    <2>3. UdSendOK'
      <3>1. sent' \in [Sessions -> [Targets -> 0 .. MaxSent]]
        <4>1. sent \in [Sessions -> [Targets -> 0 .. MaxSent]] /\ MaxSent \in Nat
          BY UdpAssumption DEF UdTyped, UdSendOK
        <4>2. sent' = [sent EXCEPT ![s] = [sent[s] EXCEPT ![call[s].t] = sent[s][call[s].t] + 1]]
          BY <1>6 DEF Write
        <4>3. sent[s][call[s].t] + 1 \in 0 .. MaxSent
          BY <2>1, <4>1
        <4> QED
          BY <4>1, <4>2, <4>3
      <3>2. \A u \in Sessions : u # s => sent'[u] = sent[u]
        BY <1>6 DEF Write, UdTyped, UdSendOK
      <3>3. call' \in [Sessions -> Call] /\ \A u \in Sessions : call'[u] = IF u = s THEN Idle ELSE call[u]
        BY <1>6, <1>0, UdIdle DEF Write
      <3>4. \A u \in Sessions : UdCallOK(u, call[u])'
        BY <3>2, <3>3, UdIdle DEF UdTyped, UdSendOK, UdCallOK
      <3> QED
        BY <1>6, <3>1, <3>3, <3>4 DEF Write, UdTyped, UdSendOK
    <2>4. UdLinkOK'
      <3>1. stream[call[s].id] \in Stream /\ stream[call[s].id].data \in Seq(Packet)
        BY <2>1, <1>0, UdStreamRec
      <3>2. [stream[call[s].id] EXCEPT !.data = Append(stream[call[s].id].data, p)] \in Stream
        BY <2>2, <3>1, UdStreamHas, AppendProperties
      <3>3. \/ stream' = stream
            \/ stream' = [stream EXCEPT ![call[s].id] = [stream[call[s].id] EXCEPT !.data = Append(stream[call[s].id].data, p)]]
        BY <1>6 DEF Write
      <3>4. dgrams' = dgrams \/ dgrams' = dgrams \cup {<<call[s].id, p>>}
        BY <1>6 DEF Write
      <3>5. stream' \in [Ids -> Stream]
        BY <3>2, <3>3, <1>0
      <3>6. dgrams' \subseteq Ids \X Packet
        BY <3>4, <2>1, <2>2 DEF UdTyped, UdLinkOK
      <3> QED
        BY <3>5, <3>6, <1>6 DEF Write, UdTyped, UdLinkOK
    <2> QED
      BY <1>6, <2>3, <2>4, UdStill DEF UdTyped, Write
  <1>7. CASE WriteStopped(s)
    <2>1. call[s].t \in Targets /\ sent[s][call[s].t] < MaxSent
      BY <1>7, <1>0 DEF WriteStopped, CallAt, UdCallOK
    <2> DEFINE c == IF call[s].attempt = 1 THEN [pc |-> "cell", t |-> call[s].t, id |-> 0, attempt |-> 2] ELSE Idle
    <2>2. c \in Call /\ UdCallOK(s, c)
      BY <2>1, <1>0, UdIdle, UdAsks DEF UdCallOK
    <2>3. call' = [call EXCEPT ![s] = c]
      BY <1>7, <1>0 DEF WriteStopped
    <2>4. cell' \in [Sessions -> [Targets -> 0 .. MAX_ID]]
      BY <1>7, <1>0, <2>1 DEF WriteStopped
    <2>5. UdSendOK'
      BY <1>7, <2>2, <2>3, <2>4, <1>0, UdCalls DEF WriteStopped
    <2> QED
      BY <1>7, <2>5, UdStill DEF UdTyped, WriteStopped
  <1>8. CASE DropSession(s)
    <2>1. UdSendOK'
      <3>1. call' \in [Sessions -> Call] /\ \A u \in Sessions : call'[u] = IF u = s THEN Idle ELSE call[u]
        BY <1>8, <1>0, UdIdle DEF DropSession
      <3>2. \A u \in Sessions : UdCallOK(u, call[u])'
        BY <1>8, <3>1, UdIdle DEF DropSession, UdTyped, UdSendOK, UdCallOK
      <3>3. cell' \in [Sessions -> [Targets -> 0 .. MAX_ID]]
        BY <1>8, <1>0 DEF DropSession
      <3> QED
        BY <1>8, <3>1, <3>2, <3>3 DEF DropSession, UdTyped, UdSendOK
    <2>2. UdLinkOK'
      <3>1. \A id \in Ids : [stream[id] EXCEPT !.st = "finished"] \in Stream
        BY <1>0, UdStreamSet
      <3> QED
        BY <1>8, <3>1, <1>0 DEF DropSession, UdTyped, UdLinkOK
    <2> QED
      BY <1>8, <2>1, <2>2, UdStill DEF UdTyped, DropSession
  <1> QED
    BY <1>1, <1>2, <1>3, <1>4, <1>5, <1>6, <1>7, <1>8 DEF SendSide

\* so does the listener of a session,
LEMMA UdListens ==
    ASSUME UdTyped, NEW s \in Sessions, Listener(s) \/ RelayCloses(s)
    PROVE  UdTyped'
  <1>0. /\ control[s] \in Seq(Ids \X Targets) /\ bound[s] \in [Ids -> Targets \cup {None}]
        /\ lpc[s] \in {<<"read", 0>>, <<"clean", 0>>, <<"done", 0>>} \cup {"unmap"} \X Ids
    BY DEF UdTyped, UdLinkOK, UdBindOK
  <1>1. CASE Bind(s)
    <2>1. Head(control[s]) \in Ids \X Targets /\ Tail(control[s]) \in Seq(Ids \X Targets)
      BY <1>0, <1>1, HeadTailProperties DEF Bind
    <2>2. PICK id \in Ids, t \in Targets : Head(control[s]) = <<id, t>>
      BY <2>1
    <2>3. UdLinkOK'
      BY <1>1, <2>1 DEF Bind, UdTyped, UdLinkOK
    <2>4. UdBindOK'
      <3>1. CASE recvMap[id] = None
        <4>1. /\ bound' = [bound EXCEPT ![s] = [bound[s] EXCEPT ![id] = t]]
              /\ recvMap' = [recvMap EXCEPT ![id] = s] /\ lpc' = lpc /\ closed' = closed
          BY <1>1, <2>2, <3>1 DEF Bind
        <4> QED
          BY <4>1, <1>0 DEF UdTyped, UdBindOK
      <3>2. CASE recvMap[id] # None
        <4>1. /\ lpc' = [lpc EXCEPT ![s] = <<"clean", 0>>] /\ UNCHANGED <<bound, recvMap, closed>>
          BY <1>1, <2>2, <3>2 DEF Bind
        <4> QED
          BY <4>1, <1>0 DEF UdTyped, UdBindOK
      <3> QED
        BY <3>1, <3>2
    <2> QED
      BY <1>1, <2>3, <2>4, UdStill DEF Bind, UdTyped
  <1>2. CASE ListenerEnds(s)
    <2>1. UdBindOK'
      BY <1>2 DEF ListenerEnds, UdTyped, UdBindOK
    <2> QED
      BY <1>2, <2>1, UdStill DEF ListenerEnds, UdTyped
  <1>3. CASE CleanUnbind(s)
    <2>1. PICK id \in Ids : /\ bound' = [bound EXCEPT ![s] = [bound[s] EXCEPT ![id] = None]]
                            /\ lpc' = [lpc EXCEPT ![s] = <<"unmap", id>>]
      BY <1>3 DEF CleanUnbind
    <2>2. UdBindOK'
      <3>1. bound' \in [Sessions -> [Ids -> Targets \cup {None}]]
        BY <2>1, <1>0 DEF UdTyped, UdBindOK
      <3>2. <<"unmap", id>> \in {"unmap"} \X Ids
        OBVIOUS
      <3> QED
        BY <1>3, <2>1, <3>1, <3>2 DEF CleanUnbind, UdTyped, UdBindOK
    <2> QED
      BY <1>3, <2>2, UdStill DEF CleanUnbind, UdTyped
  <1>4. CASE CleanUnmap(s)
    <2>1. lpc[s][2] \in Ids
      BY <1>0, <1>4 DEF CleanUnmap
    <2>2. UdBindOK'
      BY <2>1, <1>4 DEF CleanUnmap, UdTyped, UdBindOK
    <2> QED
      BY <1>4, <2>2, UdStill DEF CleanUnmap, UdTyped
  <1>5. CASE CleanDone(s)
    <2>1. UdBindOK'
      BY <1>5 DEF CleanDone, UdTyped, UdBindOK
    <2> QED
      BY <1>5, <2>1, UdStill DEF CleanDone, UdTyped
  <1>6. CASE RelayCloses(s)
    <2>1. UdBindOK'
      BY <1>6 DEF RelayCloses, UdTyped, UdBindOK
    <2> QED
      BY <1>6, <2>1, UdStill DEF RelayCloses, UdTyped
  <1> QED
    BY <1>1, <1>2, <1>3, <1>4, <1>5, <1>6 DEF Listener

\* The worker of one id moves.
LEMMA UdWorks ==
    ASSUME UdTyped, NEW id \in Ids, NEW w \in WorkerState, worker' = [worker EXCEPT ![id] = w],
           w.pc \in {"found", "run", "unbind", "unmap", "last"} => w.s \in Sessions,
           w.pc = "run" => w.t \in Targets
    PROVE  UdWorkerOK'
  BY DEF UdTyped, UdWorkerOK

\* a worker that moves,
LEMMA UdWorker ==
    ASSUME UdTyped, NEW id \in Ids, NEW pc \in {"wait", "unbind", "unmap", "last", "done", "expired"},
           SetWorker(id, pc), pc \in {"unbind", "unmap", "last"} => worker[id].s \in Sessions
    PROVE  UdWorkerOK'
  <1>1. worker[id] \in WorkerState /\ worker' = [worker EXCEPT ![id] = [worker[id] EXCEPT !.pc = pc]]
    BY DEF UdTyped, UdWorkerOK, SetWorker
  <1>2. PICK w : w = [worker[id] EXCEPT !.pc = pc]
    OBVIOUS
  <1>3. w \in WorkerState /\ w.pc = pc /\ w.s = worker[id].s
    BY <1>1, <1>2 DEF WorkerState
  <1> QED
    BY <1>1, <1>2, <1>3, UdWorks

\* a stream that is stopped,
LEMMA UdStops ==
    ASSUME UdTyped, NEW id \in Ids, StopStream(id), UNCHANGED <<control, dgrams>>
    PROVE  UdLinkOK'
  BY UdStreamStops DEF UdTyped, UdLinkOK, StopStream

\* A packet enters a queue that has room.
LEMMA UdQueues ==
    ASSUME UdTyped, NEW s \in Sessions, NEW a \in Targets \X Packet,
           Len(queue[s]) < UDP_RECEIVE_QUEUE_CAPACITY,
           queue' = [queue EXCEPT ![s] = Append(queue[s], a)], UNCHANGED delivered
    PROVE  UdQueueOK'
  <1>1. queue[s] \in Seq(Targets \X Packet) /\ Len(queue[s]) \in Nat
    BY LenProperties DEF UdTyped, UdQueueOK
  <1>2. /\ Append(queue[s], a) \in Seq(Targets \X Packet)
        /\ Len(Append(queue[s], a)) <= UDP_RECEIVE_QUEUE_CAPACITY
    BY <1>1, AppendProperties, UdpAssumption
  <1> QED
    BY <1>2 DEF UdTyped, UdQueueOK

\* a packet that is received,
LEMMA UdReceives ==
    ASSUME UdTyped, NEW s \in Sessions, Receive(s)
    PROVE  UdTyped'
  <1>1. queue[s] \in Seq(Targets \X Packet) /\ queue[s] # <<>> /\ delivered[s] \in Seq(Targets \X Packet)
    BY DEF UdTyped, UdQueueOK, Receive
  <1>2. /\ Head(queue[s]) \in Targets \X Packet /\ Tail(queue[s]) \in Seq(Targets \X Packet)
        /\ Len(Tail(queue[s])) = Len(queue[s]) - 1 /\ Len(queue[s]) \in Nat
    BY <1>1, HeadTailProperties, LenProperties
  <1>3. Append(delivered[s], Head(queue[s])) \in Seq(Targets \X Packet)
    BY <1>1, <1>2, AppendProperties
  <1>4. Len(Tail(queue[s])) <= UDP_RECEIVE_QUEUE_CAPACITY
    BY <1>2, UdpAssumption DEF UdTyped, UdQueueOK
  <1>5. UdQueueOK'
    BY <1>2, <1>3, <1>4 DEF UdTyped, UdQueueOK, Receive
  <1> QED
    BY <1>5, UdStill DEF UdTyped, Receive

\* the worker of a stream,
LEMMA UdWorkersType ==
    ASSUME UdTyped, NEW id \in Ids, Worker(id) \/ UniTimeout(id)
    PROVE  UdTyped'
  <1>0. /\ worker[id] \in WorkerState /\ recvMap[id] \in Sessions \cup {None} /\ stream[id] \in Stream
        /\ worker[id].pc \in {"found", "run", "unbind", "unmap", "last"} => worker[id].s \in Sessions
        /\ worker[id].pc = "run" => worker[id].t \in Targets
    BY DEF UdTyped, UdWorkerOK, UdBindOK, UdLinkOK
  <1>1. CASE AcceptUni(id)
    BY <1>1, UdWorker, UdStill DEF AcceptUni, UdTyped
  <1>2. CASE UniReceiver(id)
    <2> DEFINE w == [worker[id] EXCEPT !.pc = "found", !.s = recvMap[id]]
    <2>1. recvMap[id] \in Sessions
      BY <1>0, <1>2 DEF UniReceiver
    <2>2. w \in WorkerState /\ w.pc = "found" /\ w.s \in Sessions
      BY <1>0, <2>1 DEF WorkerState
    <2>3. worker' = [worker EXCEPT ![id] = w]
      BY <1>2 DEF UniReceiver, UdTyped, UdWorkerOK
    <2>4. UdWorkerOK'
      BY <2>2, <2>3, UdWorks
    <2> QED
      BY <1>2, <2>4, UdStill DEF UniReceiver, UdTyped
  <1>3. CASE RunWorker(id)
    <2>0. worker[id].s \in Sessions /\ bound[worker[id].s][id] \in Targets \cup {None}
      BY <1>0, <1>3 DEF RunWorker, UdTyped, UdBindOK
    <2>1. CASE bound[worker[id].s][id] # None
      <3> DEFINE w == [worker[id] EXCEPT !.pc = "run", !.t = bound[worker[id].s][id]]
      <3>1. w \in WorkerState /\ w.pc = "run" /\ w.s \in Sessions /\ w.t \in Targets
        BY <1>0, <2>0, <2>1 DEF WorkerState
      <3>2. worker' = [worker EXCEPT ![id] = w] /\ stream' = stream
        BY <1>3, <2>1 DEF RunWorker, UdTyped, UdWorkerOK
      <3>3. UdWorkerOK'
        BY <3>1, <3>2, UdWorks
      <3> QED
        BY <1>3, <3>2, <3>3, UdStill DEF RunWorker, UdTyped, linkVars
    <2>2. CASE bound[worker[id].s][id] = None
      <3>1. SetWorker(id, "done") /\ StopStream(id)
        BY <1>3, <2>2 DEF RunWorker
      <3> QED
        BY <1>3, <3>1, UdWorker, UdStops, UdStill DEF RunWorker, UdTyped
    <2> QED
      BY <2>1, <2>2
  <1>4. CASE WorkerDeliver(id)
    <2>1. /\ stream[id].data \in Seq(Packet) /\ stream[id].data # <<>>
          /\ worker[id].s \in Sessions /\ worker[id].t \in Targets
      BY <1>0, <1>4, UdStreamRec DEF WorkerDeliver
    <2>2. Head(stream[id].data) \in Packet /\ Tail(stream[id].data) \in Seq(Packet)
      BY <2>1, HeadTailProperties
    <2>a. PICK a : a = <<worker[id].t, Head(stream[id].data)>>
      OBVIOUS
    <2>b. PICK u \in Sessions : u = worker[id].s
      BY <2>1
    <2>3. UdQueueOK'
      <3>1. /\ queue' = [queue EXCEPT ![u] = Append(queue[u], a)] /\ delivered' = delivered
            /\ Len(queue[u]) < UDP_RECEIVE_QUEUE_CAPACITY
        BY <1>4, <2>a, <2>b DEF WorkerDeliver
      <3>2. a \in Targets \X Packet
        BY <2>1, <2>2, <2>a
      <3> QED
        BY <3>1, <3>2, UdQueues
    <2>4. UdLinkOK'
      <3>1. [stream[id] EXCEPT !.data = Tail(stream[id].data)] \in Stream
        BY <1>0, <2>2, UdStreamHas
      <3>2. stream' = [stream EXCEPT ![id] = [stream[id] EXCEPT !.data = Tail(stream[id].data)]]
        BY <1>4 DEF WorkerDeliver
      <3>3. stream' \in [Ids -> Stream]
        BY <3>1, <3>2 DEF UdTyped, UdLinkOK
      <3> QED
        BY <3>3, <1>4 DEF WorkerDeliver, UdTyped, UdLinkOK
    <2> QED
      BY <1>4, <2>3, <2>4, UdStill DEF WorkerDeliver, UdTyped
  <1>5. CASE WorkerEnds(id)
    BY <1>5, <1>0, UdWorker, UdStops, UdStill DEF WorkerEnds, UdTyped
  <1>6. CASE WorkerUnbind(id)
    <2>1. worker[id].s \in Sessions
      BY <1>0, <1>6 DEF WorkerUnbind
    <2>2. bound' = [bound EXCEPT ![worker[id].s] = [bound[worker[id].s] EXCEPT ![id] = None]]
      BY <1>6 DEF WorkerUnbind
    <2>3. UdBindOK'
      BY <1>6, <2>1, <2>2 DEF WorkerUnbind, UdTyped, UdBindOK
    <2>4. UdWorkerOK'
      BY <1>6, <2>1, UdWorker DEF WorkerUnbind
    <2> QED
      BY <1>6, <2>3, <2>4, UdStill DEF WorkerUnbind, UdTyped
  <1>7. CASE WorkerUnmap(id)
    <2>1. UdBindOK'
      BY <1>7 DEF WorkerUnmap, UdTyped, UdBindOK
    <2>2. UdWorkerOK'
      BY <1>7, <1>0, UdWorker DEF WorkerUnmap
    <2> QED
      BY <1>7, <2>1, <2>2, UdStill DEF WorkerUnmap, UdTyped
  <1>8. CASE WorkerLast(id)
    <2>1. UdBindOK'
      BY <1>8, <1>0 DEF WorkerLast, UdTyped, UdBindOK
    <2>2. UdWorkerOK'
      BY <1>8, UdWorker DEF WorkerLast
    <2> QED
      BY <1>8, <2>1, <2>2, UdStill DEF WorkerLast, UdTyped
  <1>9. CASE UniTimeout(id)
    BY <1>9, UdWorker, UdStops, UdStill DEF UniTimeout, UdTyped
  <1> QED
    BY <1>1, <1>2, <1>3, <1>4, <1>5, <1>6, <1>7, <1>8, <1>9 DEF Worker

\* feed_datagram under an id.
LEMMA UdFeeds ==
    ASSUME UdTyped, NEW s \in Sessions, NEW id \in Ids, NEW p \in Packet, Feed(s, id, p), UNCHANGED delivered
    PROVE  UdQueueOK'
  <1>1. bound[s][id] \in Targets \cup {None}
    BY DEF UdTyped, UdBindOK
  <1>2. CASE bound[s][id] # None /\ Len(queue[s]) < UDP_RECEIVE_QUEUE_CAPACITY
    <2>1. PICK a : a = <<bound[s][id], p>>
      OBVIOUS
    <2>2. a \in Targets \X Packet
      BY <1>1, <1>2, <2>1
    <2>3. queue' = [queue EXCEPT ![s] = Append(queue[s], a)]
      BY <1>2, <2>1 DEF Feed
    <2> QED
      BY <1>2, <2>2, <2>3, UdQueues
  <1>3. CASE ~(bound[s][id] # None /\ Len(queue[s]) < UDP_RECEIVE_QUEUE_CAPACITY)
    BY <1>3, UdStill DEF Feed
  <1> QED
    BY <1>2, <1>3

\* The datagram loop waits between two datagrams.
LEMMA UdLoopIdle == LoopIdle \in LoopState /\ LoopIdle.pc = "read"
  <1>1. 0 \in 0 .. MAX_ID
    BY UdpAssumption
  <1> QED
    BY <1>1 DEF LoopIdle, LoopState

\* A handler that ends is a handler.
LEMMA UdHandlerSet ==
    ASSUME NEW h \in HandlerState
    PROVE  LET g == [h EXCEPT !.pc = "end"] IN g \in HandlerState /\ g.pc = "end"
  BY DEF HandlerState

\* The datagram loop keeps the types,
LEMMA UdDatagramsType ==
    ASSUME UdTyped, LoseDatagram \/ DatagramLoop
    PROVE  UdTyped'
  <1>1. CASE LoseDatagram
    <2>1. UdLinkOK'
      BY <1>1 DEF LoseDatagram, UdTyped, UdLinkOK
    <2> QED
      BY <1>1, <2>1, UdStill DEF LoseDatagram, UdTyped
  <1>2. CASE ReadDatagram
    <2>1. PICK d \in dgrams :
            /\ dgrams' = dgrams \ {d}
            /\ loop' = [pc |-> IF recvMap[d[1]] = None THEN "buffer" ELSE "feed",
                        id |-> d[1], p |-> d[2], s |-> recvMap[d[1]]]
      BY <1>2 DEF ReadDatagram
    <2>2. d[1] \in Ids /\ d[2] \in Packet /\ d[1] \in 0 .. MAX_ID
      BY UdpAssumption DEF UdTyped, UdLinkOK, Ids
    <2>3. recvMap[d[1]] \in Sessions \cup {None}
      BY <2>2 DEF UdTyped, UdBindOK
    <2>4. /\ loop' \in LoopState /\ loop'.id \in Ids /\ loop'.p \in Packet
          /\ loop'.pc = "feed" => loop'.s \in Sessions
      BY <2>1, <2>2, <2>3 DEF LoopState
    <2>5. UdLinkOK'
      BY <1>2, <2>1 DEF ReadDatagram, UdTyped, UdLinkOK
    <2>6. UdDgramOK'
      BY <1>2, <2>4 DEF ReadDatagram, UdTyped, UdDgramOK
    <2> QED
      BY <1>2, <2>5, <2>6, UdStill DEF ReadDatagram, UdTyped
  <1>3. CASE FeedDatagram
    <2>1. loop.s \in Sessions /\ loop.id \in Ids /\ loop.p \in Packet
      BY <1>3 DEF FeedDatagram, UdTyped, UdDgramOK
    <2>2. UdQueueOK'
      BY <1>3, <2>1, UdFeeds DEF FeedDatagram
    <2>3. UdDgramOK'
      BY <1>3, UdLoopIdle DEF FeedDatagram, UdTyped, UdDgramOK
    <2> QED
      BY <1>3, <2>2, <2>3, UdStill DEF FeedDatagram, UdTyped
  <1>4. CASE BufferDatagram
    <2>1. loop.id \in Ids /\ loop.p \in Packet /\ loop' = LoopIdle
      BY <1>4 DEF BufferDatagram, UdTyped, UdDgramOK
    <2>2. waiting[loop.id] \in Seq(Packet) /\ Len(waiting[loop.id]) \in Nat
      BY <2>1, LenProperties DEF UdTyped, UdDgramOK
    <2>3. /\ Append(waiting[loop.id], loop.p) \in Seq(Packet)
          /\ Len(Append(waiting[loop.id], loop.p)) = Len(waiting[loop.id]) + 1
      BY <2>1, <2>2, AppendProperties
    <2>4. /\ waiting' \in [Ids -> Seq(Packet)]
          /\ \A id \in Ids : Len(waiting'[id]) <= WAITING_DATAGRAM_QUEUE_CAPACITY
      <3>1. CASE waiting' = waiting
        BY <3>1 DEF UdTyped, UdDgramOK
      <3>2. CASE /\ Len(waiting[loop.id]) < WAITING_DATAGRAM_QUEUE_CAPACITY
                 /\ waiting' = [waiting EXCEPT ![loop.id] = Append(waiting[loop.id], loop.p)]
        <4>1. Len(Append(waiting[loop.id], loop.p)) <= WAITING_DATAGRAM_QUEUE_CAPACITY
          BY <2>2, <2>3, <3>2, UdpAssumption
        <4> QED
          BY <2>1, <2>3, <3>2, <4>1 DEF UdTyped, UdDgramOK
      <3> QED
        BY <1>4, <3>1, <3>2 DEF BufferDatagram, IntoBuffer
    <2>5. handler' \in [Ids -> HandlerState] /\ \A id \in Ids : handler'[id].pc = "run" => handler'[id].s \in Sessions
      <3>a. PICK h : h = [pc |-> "wait", s |-> None]
        OBVIOUS
      <3>1. h \in HandlerState /\ h.pc = "wait"
        BY <3>a DEF HandlerState
      <3>2. handler' = handler \/ handler' = [handler EXCEPT ![loop.id] = h]
        BY <1>4, <3>a DEF BufferDatagram, IntoBuffer
      <3> QED
        BY <2>1, <3>1, <3>2 DEF UdTyped, UdDgramOK
    <2>6. UdDgramOK'
      BY <2>1, <2>4, <2>5, UdLoopIdle DEF UdTyped, UdDgramOK
    <2> QED
      BY <1>4, <2>6, UdStill DEF BufferDatagram, UdTyped
  <1> QED
    BY <1>1, <1>2, <1>3, <1>4 DEF DatagramLoop

\* so do the handlers of waiting packets,
LEMMA UdHandlersType ==
    ASSUME UdTyped, NEW id \in Ids, Handler(id) \/ HandlerTimeout(id)
    PROVE  UdTyped'
  <1>0. /\ handler[id] \in HandlerState /\ recvMap[id] \in Sessions \cup {None} /\ waiting[id] \in Seq(Packet)
        /\ handler[id].pc = "run" => handler[id].s \in Sessions
    BY DEF UdTyped, UdDgramOK, UdBindOK
  <1>1. CASE HandlerReceiver(id)
    <2>1. recvMap[id] \in Sessions /\ [pc |-> "run", s |-> recvMap[id]] \in HandlerState
      BY <1>0, <1>1 DEF HandlerReceiver, HandlerState
    <2>2. UdDgramOK'
      BY <1>1, <2>1 DEF HandlerReceiver, UdTyped, UdDgramOK
    <2> QED
      BY <1>1, <2>2, UdStill DEF HandlerReceiver, UdTyped
  <1>2. CASE HandlerTimeout(id) \/ HandlerCloses(id)
    <2>1. handler' = [handler EXCEPT ![id] = [handler[id] EXCEPT !.pc = "end"]]
      BY <1>2 DEF HandlerTimeout, HandlerCloses
    <2>2. UdDgramOK'
      BY <1>2, <1>0, <2>1, UdHandlerSet DEF HandlerTimeout, HandlerCloses, UdTyped, UdDgramOK
    <2> QED
      BY <1>2, <2>2, UdStill DEF HandlerTimeout, HandlerCloses, UdTyped
  <1>3. CASE HandlerFeed(id)
    <2>1. waiting[id] # <<>> /\ handler[id].s \in Sessions
      BY <1>0, <1>3 DEF HandlerFeed
    <2>2. /\ Head(waiting[id]) \in Packet /\ Tail(waiting[id]) \in Seq(Packet)
          /\ Len(Tail(waiting[id])) = Len(waiting[id]) - 1 /\ Len(waiting[id]) \in Nat
      BY <1>0, <2>1, HeadTailProperties, LenProperties
    <2>3. UdQueueOK'
      BY <1>3, <2>1, <2>2, UdFeeds DEF HandlerFeed
    <2>4. Len(Tail(waiting[id])) <= WAITING_DATAGRAM_QUEUE_CAPACITY
      BY <2>2, UdpAssumption DEF UdTyped, UdDgramOK
    <2>5. waiting' \in [Ids -> Seq(Packet)] /\ \A j \in Ids : Len(waiting'[j]) <= WAITING_DATAGRAM_QUEUE_CAPACITY
      BY <1>3, <2>2, <2>4 DEF HandlerFeed, UdTyped, UdDgramOK
    <2>6. handler' = handler \/ handler' = [handler EXCEPT ![id] = [handler[id] EXCEPT !.pc = "end"]]
      BY <1>3 DEF HandlerFeed
    <2>7. handler' \in [Ids -> HandlerState] /\ \A j \in Ids : handler'[j].pc = "run" => handler'[j].s \in Sessions
      BY <1>0, <2>6, UdHandlerSet DEF UdTyped, UdDgramOK
    <2>8. UdDgramOK'
      BY <1>3, <2>5, <2>7 DEF HandlerFeed, UdTyped, UdDgramOK
    <2> QED
      BY <1>3, <2>3, <2>8, UdStill DEF HandlerFeed, UdTyped
  <1>4. CASE HandlerEnds(id)
    <2>1. [pc |-> "none", s |-> None] \in HandlerState
      BY DEF HandlerState
    <2>2. <<>> \in Seq(Packet) /\ Len(<<>>) <= WAITING_DATAGRAM_QUEUE_CAPACITY
      BY EmptySeq, UdpAssumption
    <2>3. UdDgramOK'
      BY <1>4, <2>1, <2>2 DEF HandlerEnds, UdTyped, UdDgramOK
    <2> QED
      BY <1>4, <2>3, UdStill DEF HandlerEnds, UdTyped
  <1> QED
    BY <1>1, <1>2, <1>3, <1>4 DEF Handler

\* and hence every step.
LEMMA UdTypes ==
    ASSUME UdTyped, [Next]_vars
    PROVE  UdTyped'
  <1>1. CASE UNCHANGED vars
    BY <1>1, UdStill DEF vars, sendVars, linkVars, bindVars, dgVars, UdTyped
  <1>2. CASE Next
    BY <1>1, <1>2, UdSends, UdListens, UdReceives, UdWorkersType, UdDatagramsType, UdHandlersType
    DEF Next, Timeout, Ended
  <1> QED
    BY <1>1, <1>2

-----------------------------------------------------------------------------
(* Sequences *)

\* What is appended to a sequence is added to its range,
LEMMA UdAppends ==
    ASSUME NEW S, NEW q \in Seq(S), NEW e \in S
    PROVE  /\ Append(q, e) \in Seq(S) /\ Range(Append(q, e)) = Range(q) \cup {e}
           /\ UdDistinct(q) /\ e \notin Range(q) => UdDistinct(Append(q, e))
  <1>1. /\ Append(q, e) \in Seq(S) /\ Len(q) \in Nat /\ DOMAIN q = 1 .. Len(q)
        /\ Len(Append(q, e)) = Len(q) + 1 /\ DOMAIN Append(q, e) = 1 .. Len(q) + 1
        /\ \A i \in 1 .. Len(q) : Append(q, e)[i] = q[i]
        /\ Append(q, e)[Len(q) + 1] = e
    BY AppendProperties, LenProperties
  <1>2. \A i \in DOMAIN Append(q, e) : i \in DOMAIN q \/ i = Len(q) + 1
    BY <1>1
  <1>3. Range(Append(q, e)) = Range(q) \cup {e}
    BY <1>1, <1>2 DEF Range
  <1>4. UdDistinct(q) /\ e \notin Range(q) => UdDistinct(Append(q, e))
    <2> SUFFICES ASSUME UdDistinct(q), e \notin Range(q),
                        NEW i \in DOMAIN Append(q, e), NEW j \in DOMAIN Append(q, e),
                        Append(q, e)[i] = Append(q, e)[j]
                 PROVE  i = j
      BY DEF UdDistinct
    <2> QED
      BY <1>1, <1>2 DEF UdDistinct, Range
  <1> QED
    BY <1>1, <1>3, <1>4

\* and what is taken from its head leaves it.
LEMMA UdTails ==
    ASSUME NEW S, NEW q \in Seq(S), q # <<>>
    PROVE  /\ Head(q) \in S /\ Tail(q) \in Seq(S)
           /\ Head(q) \in Range(q) /\ Range(Tail(q)) \subseteq Range(q)
           /\ Range(q) \subseteq Range(Tail(q)) \cup {Head(q)}
           /\ UdDistinct(q) => UdDistinct(Tail(q)) /\ Head(q) \notin Range(Tail(q))
  <1>1. /\ Head(q) \in S /\ Tail(q) \in Seq(S) /\ Len(q) \in Nat \ {0} /\ DOMAIN q = 1 .. Len(q)
        /\ DOMAIN Tail(q) = 1 .. Len(q) - 1
        /\ \A i \in 1 .. Len(q) - 1 : Tail(q)[i] = q[i + 1]
    BY HeadTailProperties, LenProperties, EmptySeq
  <1>2. Head(q) = q[1]
    BY <1>1
  <1>3. \A i \in DOMAIN Tail(q) : i + 1 \in DOMAIN q /\ i + 1 # 1 /\ Tail(q)[i] = q[i + 1]
    BY <1>1
  <1>4. \A i \in DOMAIN q : i = 1 \/ (i - 1 \in DOMAIN Tail(q) /\ Tail(q)[i - 1] = q[i])
    BY <1>1
  <1>5. Head(q) \in Range(q) /\ Range(Tail(q)) \subseteq Range(q)
    BY <1>1, <1>2, <1>3 DEF Range
  <1>6. Range(q) \subseteq Range(Tail(q)) \cup {Head(q)}
    BY <1>2, <1>4 DEF Range
  <1>7. UdDistinct(q) => UdDistinct(Tail(q)) /\ Head(q) \notin Range(Tail(q))
    <2> SUFFICES ASSUME UdDistinct(q) PROVE UdDistinct(Tail(q)) /\ Head(q) \notin Range(Tail(q))
      OBVIOUS
    <2>1. 1 \in DOMAIN q
      BY <1>1
    <2>2. Head(q) \notin Range(Tail(q))
      BY <1>2, <1>3, <2>1 DEF UdDistinct, Range
    <2>3. ASSUME NEW i \in DOMAIN Tail(q), NEW j \in DOMAIN Tail(q), Tail(q)[i] = Tail(q)[j] PROVE i = j
      <3>1. i + 1 = j + 1
        BY <1>3, <2>3 DEF UdDistinct
      <3> QED
        BY <1>1, <3>1
    <2> QED
      BY <2>2, <2>3 DEF UdDistinct
  <1> QED
    BY <1>1, <1>5, <1>6, <1>7

\* A packet that moves from the queue to what was delivered keeps its place.
LEMMA UdDequeued ==
    ASSUME NEW S, NEW d \in Seq(S), NEW q \in Seq(S), q # <<>>
    PROVE  Append(d, Head(q)) \o Tail(q) = d \o q
  <1>1. Head(q) \in S /\ Tail(q) \in Seq(S) /\ <<Head(q)>> \in Seq(S)
    BY HeadTailProperties
  <1>2. q = <<Head(q)>> \o Tail(q)
    OBVIOUS
  <1>3. Append(d, Head(q)) = d \o <<Head(q)>>
    BY <1>1, AppendIsConcat
  <1>4. (d \o <<Head(q)>>) \o Tail(q) = d \o (<<Head(q)>> \o Tail(q))
    BY <1>1, ConcatAssociative
  <1> QED
    BY <1>2, <1>3, <1>4

-----------------------------------------------------------------------------
(* An id stands for one target of one session *)

\* What a step leaves alone names no new owner of an id.
LEMMA UdOwnSame ==
    /\ UNCHANGED <<cell, call>> =>
         \A id \in Ids, u \in Sessions, v \in Targets : UdSaid(id, u, v)' => UdOwns(id, u, v)
    /\ UNCHANGED <<control, bound>> =>
         \A id \in Ids, u \in Sessions, v \in Targets : UdTold(id, u, v)' => UdOwns(id, u, v)
    /\ UNCHANGED worker =>
         \A id \in Ids, u \in Sessions, v \in Targets : UdRuns(id, u, v)' => UdOwns(id, u, v)
    /\ UNCHANGED <<stream, dgrams, loop, waiting>> =>
         \A id \in Ids, u \in Sessions, v \in Targets : UdCarries(id, u, v)' => UdOwns(id, u, v)
  <1>1. UNCHANGED <<cell, call>> =>
         \A id \in Ids, u \in Sessions, v \in Targets : UdSaid(id, u, v)' => UdOwns(id, u, v)
    BY DEF UdSaid, UdOwns
  <1>2. UNCHANGED <<control, bound>> =>
         \A id \in Ids, u \in Sessions, v \in Targets : UdTold(id, u, v)' => UdOwns(id, u, v)
    BY DEF UdTold, UdOwns
  <1>3. UNCHANGED worker =>
         \A id \in Ids, u \in Sessions, v \in Targets : UdRuns(id, u, v)' => UdOwns(id, u, v)
    BY DEF UdRuns, UdOwns
  <1>4. UNCHANGED <<stream, dgrams, loop, waiting>> =>
         \A id \in Ids, u \in Sessions, v \in Targets : UdCarries(id, u, v)' => UdOwns(id, u, v)
    BY DEF UdCarries, UdUnder, UdOwns
  <1> QED
    BY <1>1, <1>2, <1>3, <1>4

\* Only get_send_context_id gives an id to a target; every other step repeats
\* what was said already.
UdNothingNew ==
    /\ nextId' = nextId
    /\ \A id \in Ids, u \in Sessions, v \in Targets : UdOwns(id, u, v)' => UdOwns(id, u, v)

\* Without a new owner an id has the one it had.
LEMMA UdNoNews ==
    ASSUME UdOneOwner, UdNothingNew
    PROVE  UdOneOwner'
  <1> SUFFICES ASSUME NEW id \in Ids, NEW u \in Sessions, NEW v \in Targets, UdOwns(id, u, v)'
               PROVE  /\ id < nextId'
                      /\ \A x \in Sessions, y \in Targets : UdOwns(id, x, y)' => x = u /\ y = v
    BY DEF UdOneOwner
  <1> QED
    BY DEF UdOneOwner, UdNothingNew

\* The packets under an id after a step were there before, or are its sender's.
LEMMA UdCarriesOld ==
    ASSUME \A id \in Ids, p \in Packet : UdUnder(id, p)' => UdUnder(id, p) \/ UdSaid(id, p.s, p.t)
    PROVE  \A id \in Ids, u \in Sessions, v \in Targets : UdCarries(id, u, v)' => UdOwns(id, u, v)
  <1> SUFFICES ASSUME NEW id \in Ids, NEW u \in Sessions, NEW v \in Targets, UdCarries(id, u, v)'
               PROVE  UdOwns(id, u, v)
    OBVIOUS
  <1>1. PICK p \in Packet : p.s = u /\ p.t = v /\ UdUnder(id, p)'
    BY DEF UdCarries
  <1> QED
    BY <1>1 DEF UdOwns, UdCarries

\* The sending side gives a session and target an id of their own,
LEMMA UdSendsOwner ==
    ASSUME UdTyped, UdOneOwner, NEW s \in Sessions,
           OpenSession(s) \/ (\E t \in Targets : SendTo(s, t)) \/ SendSide(s) \/ DropSession(s)
    PROVE  UdOneOwner'
  <1> USE UdpAssumption
  <1>0. /\ call \in [Sessions -> Call] /\ UdCallOK(s, call[s]) /\ nextId \in Nat
        /\ cell \in [Sessions -> [Targets -> 0 .. MAX_ID]] /\ stream \in [Ids -> Stream]
        /\ sent \in [Sessions -> [Targets -> 0 .. MaxSent]]
        /\ control \in [Sessions -> Seq(Ids \X Targets)]
    BY DEF UdTyped, UdSendOK, UdLinkOK
  <1>i. 0 \notin Ids /\ (\A id \in Ids : id \in Nat) /\ None \notin Targets
    BY DEF Ids
  <1>1. CASE OpenSession(s)
    BY <1>1, UdOwnSame, UdNoNews
    DEF OpenSession, UdNothingNew, UdOwns, linkVars, bindVars, dgVars
  <1>2. ASSUME NEW t \in Targets, SendTo(s, t) PROVE UdOneOwner'
    <2>1. cell' = cell /\ \A u \in Sessions : call'[u] = call[u] \/ call'[u].id = 0
      BY <1>2, <1>0 DEF SendTo
    <2>2. \A id \in Ids, u \in Sessions, v \in Targets : UdSaid(id, u, v)' => UdOwns(id, u, v)
      BY <2>1, <1>i DEF UdSaid, UdOwns
    <2> QED
      BY <1>2, <2>2, UdOwnSame, UdNoNews
      DEF SendTo, UdNothingNew, UdOwns, linkVars, bindVars, dgVars
  <1>3. CASE GetSendContextId(s)
    <2>0. call[s].t \in Targets /\ call[s] \in Call
      BY <1>3, <1>0 DEF GetSendContextId, CallAt, UdCallOK
    <2>u. cell' = cell /\ UNCHANGED <<linkVars, bindVars, worker, dgVars>>
      BY <1>3 DEF GetSendContextId
    <2>1. CASE cell[s][call[s].t] # 0
      <3>1. /\ nextId' = nextId
            /\ \A u \in Sessions : u # s => call'[u] = call[u]
            /\ call'[s].id = cell[s][call[s].t] /\ call'[s].t = call[s].t
        BY <1>3, <2>1, <1>0, <2>0 DEF GetSendContextId, Call
      <3>2. \A id \in Ids, u \in Sessions, v \in Targets : UdSaid(id, u, v)' => UdOwns(id, u, v)
        BY <2>u, <3>1 DEF UdSaid, UdOwns
      <3> QED
        BY <2>u, <3>1, <3>2, UdOwnSame, UdNoNews DEF UdNothingNew, UdOwns, linkVars, bindVars, dgVars
    <2>2. CASE cell[s][call[s].t] = 0 /\ nextId <= MAX_ID
      <3>1. /\ nextId' = nextId + 1
            /\ call' = [call EXCEPT ![s].pc = "announce", ![s].id = nextId]
        <4>1. ~(nextId > MAX_ID)
          BY <2>2, <1>0
        <4> QED
          BY <1>3, <2>2, <4>1 DEF GetSendContextId
      <3>a. /\ \A u \in Sessions : u # s => call'[u] = call[u]
            /\ call'[s].id = nextId /\ call'[s].t = call[s].t
        BY <3>1, <1>0, <2>0 DEF Call
      <3>2. \A id \in Ids, u \in Sessions, v \in Targets :
              UdOwns(id, u, v)' => UdOwns(id, u, v) \/ (id = nextId /\ u = s /\ v = call[s].t)
        <4>1. \A id \in Ids, u \in Sessions, v \in Targets :
                UdSaid(id, u, v)' => UdOwns(id, u, v) \/ (id = nextId /\ u = s /\ v = call[s].t)
          BY <2>u, <3>a DEF UdSaid, UdOwns
        <4> QED
          BY <2>u, <4>1, UdOwnSame DEF UdOwns, linkVars, bindVars, dgVars
      <3>3. \A u \in Sessions, v \in Targets : nextId \in Ids => ~UdOwns(nextId, u, v)
        BY <1>0 DEF UdOneOwner
      <3>4. ASSUME NEW id \in Ids, NEW u \in Sessions, NEW v \in Targets, UdOwns(id, u, v)'
            PROVE  /\ id < nextId'
                   /\ \A x \in Sessions, y \in Targets : UdOwns(id, x, y)' => x = u /\ y = v
        <4>1. CASE id = nextId
          <5>1. u = s /\ v = call[s].t
            BY <3>2, <3>3, <3>4, <4>1
          <5>2. \A x \in Sessions, y \in Targets : UdOwns(id, x, y)' => x = s /\ y = call[s].t
            BY <3>2, <3>3, <4>1
          <5>3. id < nextId'
            BY <3>1, <4>1, <1>0
          <5> QED
            BY <5>1, <5>2, <5>3
        <4>2. CASE id # nextId
          <5>1. UdOwns(id, u, v) /\ \A x \in Sessions, y \in Targets : UdOwns(id, x, y)' => UdOwns(id, x, y)
            BY <3>2, <3>4, <4>2
          <5>2. id < nextId /\ \A x \in Sessions, y \in Targets : UdOwns(id, x, y) => x = u /\ y = v
            BY <5>1 DEF UdOneOwner
          <5>3. id < nextId'
            BY <5>2, <3>1, <1>0, <1>i
          <5> QED
            BY <5>1, <5>2, <5>3
        <4> QED
          BY <4>1, <4>2
      <3> QED
        BY <3>4 DEF UdOneOwner
    <2>3. CASE cell[s][call[s].t] = 0 /\ nextId > MAX_ID
      <3>1. nextId' = MAX_ID + 2 /\ call' = [call EXCEPT ![s] = Idle]
        BY <1>3, <2>3, <1>0 DEF GetSendContextId
      <3>2. \A u \in Sessions : call'[u] = call[u] \/ call'[u].id = 0
        BY <3>1, <1>0, UdIdle
      <3>3. \A id \in Ids, u \in Sessions, v \in Targets : UdSaid(id, u, v)' => UdOwns(id, u, v)
        BY <2>u, <3>2, <1>i DEF UdSaid, UdOwns
      <3>4. \A id \in Ids, u \in Sessions, v \in Targets : UdOwns(id, u, v)' => UdOwns(id, u, v)
        BY <2>u, <3>3, UdOwnSame DEF UdOwns, linkVars, bindVars, dgVars
      <3>5. \A id \in Ids : id < nextId'
        BY <3>1 DEF Ids
      <3> SUFFICES ASSUME NEW id \in Ids, NEW u \in Sessions, NEW v \in Targets, UdOwns(id, u, v)'
                   PROVE  /\ id < nextId'
                          /\ \A x \in Sessions, y \in Targets : UdOwns(id, x, y)' => x = u /\ y = v
        BY DEF UdOneOwner
      <3> QED
        BY <3>4, <3>5 DEF UdOneOwner
    <2> QED
      BY <2>1, <2>2, <2>3, <1>0, <2>0
  <1>4. CASE Announce(s) \/ OpenUni(s)
    <2>0. /\ call[s].t \in Targets /\ call[s].id \in Ids /\ call[s] \in Call
          /\ UdSaid(call[s].id, s, call[s].t)
      BY <1>4, <1>0 DEF Announce, OpenUni, CallAt, UdCallOK, UdSaid
    <2>1. \A id \in Ids, u \in Sessions, v \in Targets : UdSaid(id, u, v)' => UdOwns(id, u, v)
      <3>1. /\ \A u \in Sessions : call'[u].id = call[u].id /\ call'[u].t = call[u].t
        <4>1. PICK pc \in {"open", "write"} : call' = [call EXCEPT ![s] = [call[s] EXCEPT !.pc = pc]]
          BY <1>4 DEF Announce, OpenUni
        <4>2. PICK d : d = [call[s] EXCEPT !.pc = pc]
          OBVIOUS
        <4>3. d.id = call[s].id /\ d.t = call[s].t
          BY <4>2, <2>0, UdGoes
        <4> QED
          BY <4>1, <4>2, <4>3, <1>0
      <3>2. cell' = cell \/ cell' = [cell EXCEPT ![s] = [cell[s] EXCEPT ![call[s].t] = call[s].id]]
        BY <1>4 DEF Announce, OpenUni
      <3>3. \A u \in Sessions, v \in Targets :
              cell'[u][v] = cell[u][v] \/ (u = s /\ v = call[s].t /\ cell'[u][v] = call[s].id)
        <4>1. CASE cell' = [cell EXCEPT ![s] = [cell[s] EXCEPT ![call[s].t] = call[s].id]]
          BY <4>1, <2>0, <1>0
        <4> QED
          BY <3>2, <4>1
      <3> QED
        BY <3>1, <3>3 DEF UdSaid, UdOwns
    <2>2. \A id \in Ids, u \in Sessions, v \in Targets : UdTold(id, u, v)' => UdOwns(id, u, v)
      <3>1. CASE Announce(s)
        <4>1. PICK e : e = <<call[s].id, call[s].t>>
          OBVIOUS
        <4>2. Range(Append(control[s], e)) = Range(control[s]) \cup {e}
          <5>1. e \in Ids \X Targets /\ control[s] \in Seq(Ids \X Targets)
            BY <4>1, <2>0, <1>0
          <5> QED
            BY <5>1, UdAppends
        <4>3. /\ bound' = bound
              /\ \A u \in Sessions : control'[u] = IF u = s THEN Append(control[s], e) ELSE control[u]
          BY <3>1, <4>1, <1>0 DEF Announce, bindVars
        <4> QED
          BY <4>1, <4>2, <4>3, <2>0 DEF UdTold, UdOwns
      <3>2. CASE OpenUni(s)
        BY <3>2, UdOwnSame DEF OpenUni, bindVars
      <3> QED
        BY <1>4, <3>1, <3>2
    <2>3. \A id \in Ids, p \in Packet : UdUnder(id, p)' => UdUnder(id, p)
      <3>1. \A id \in Ids : stream'[id].data = stream[id].data
        <4>1. CASE stream' = [stream EXCEPT ![call[s].id] = [stream[call[s].id] EXCEPT !.st = "open"]]
          <5>1. PICK r : r = [stream[call[s].id] EXCEPT !.st = "open"]
            OBVIOUS
          <5>2. r.data = stream[call[s].id].data
            BY <5>1, <2>0, <1>0, UdStreamSet
          <5> QED
            BY <4>1, <5>1, <5>2, <1>0
        <4> QED
          BY <1>4, <4>1 DEF Announce, OpenUni
      <3> QED
        BY <1>4, <3>1 DEF UdUnder, Announce, OpenUni, dgVars
    <2>4. \A id \in Ids, u \in Sessions, v \in Targets : UdCarries(id, u, v)' => UdOwns(id, u, v)
      BY <2>3, UdCarriesOld
    <2>5. \A id \in Ids, u \in Sessions, v \in Targets : UdRuns(id, u, v)' => UdOwns(id, u, v)
      BY <1>4, UdOwnSame DEF Announce, OpenUni
    <2> QED
      BY <1>4, <2>1, <2>2, <2>4, <2>5, UdNoNews DEF UdNothingNew, UdOwns, Announce, OpenUni
  <1>5. CASE Write(s)
    <2>0. /\ call[s].t \in Targets /\ call[s].id \in Ids /\ sent[s][call[s].t] \in Nat
          /\ UdSaid(call[s].id, s, call[s].t)
      BY <1>5, <1>0 DEF Write, CallAt, UdCallOK, UdSaid
    <2>p. PICK p : p = [s |-> s, t |-> call[s].t, n |-> sent[s][call[s].t] + 1]
      OBVIOUS
    <2>q. p \in Packet /\ p.s = s /\ p.t = call[s].t
      BY <2>0, <2>p DEF Packet
    <2>1. \A id \in Ids, u \in Sessions, v \in Targets : UdSaid(id, u, v)' => UdOwns(id, u, v)
      <3>1. cell' = cell /\ \A u \in Sessions : call'[u] = call[u] \/ call'[u].id = 0
        BY <1>5, <1>0, UdIdle DEF Write
      <3> QED
        BY <3>1, <1>i DEF UdSaid, UdOwns
    <2>2. \A id \in Ids, q \in Packet : UdUnder(id, q)' => UdUnder(id, q) \/ (id = call[s].id /\ q = p)
      <3>1. PICK r : r = stream[call[s].id]
        OBVIOUS
      <3>2. r \in Stream /\ r.data \in Seq(Packet)
        BY <3>1, <2>0, <1>0, UdStreamRec
      <3>3. Range(Append(r.data, p)) = Range(r.data) \cup {p} /\ Append(r.data, p) \in Seq(Packet)
        BY <3>2, <2>q, UdAppends
      <3>4. \/ stream' = stream
            \/ stream' = [stream EXCEPT ![call[s].id] = [r EXCEPT !.data = Append(r.data, p)]]
        BY <1>5, <2>p, <3>1 DEF Write
      <3>5. \A id \in Ids : \/ stream'[id].data = stream[id].data
                            \/ id = call[s].id /\ stream'[id].data = Append(stream[id].data, p)
        <4>1. [r EXCEPT !.data = Append(r.data, p)].data = Append(r.data, p)
          BY <3>2, <3>3, UdStreamHas
        <4> QED
          BY <3>1, <3>4, <4>1, <1>0
      <3>6. dgrams' = dgrams \/ dgrams' = dgrams \cup {<<call[s].id, p>>}
        BY <1>5, <2>p DEF Write
      <3>7. UNCHANGED <<loop, waiting>>
        BY <1>5 DEF Write, dgVars
      <3> SUFFICES ASSUME NEW id \in Ids, NEW q \in Packet, UdUnder(id, q)'
                   PROVE  UdUnder(id, q) \/ (id = call[s].id /\ q = p)
        OBVIOUS
      <3>8. CASE q \in Range(stream'[id].data)
        <4>1. q \in Range(stream[id].data) \/ (id = call[s].id /\ q = p)
          <5>1. CASE stream'[id].data = stream[id].data
            BY <3>8, <5>1
          <5>2. CASE id = call[s].id /\ stream'[id].data = Append(stream[id].data, p)
            BY <3>1, <3>3, <3>8, <5>2
          <5> QED
            BY <3>5, <5>1, <5>2
        <4> QED
          BY <4>1 DEF UdUnder
      <3>9. CASE <<id, q>> \in dgrams'
        BY <3>6, <3>9 DEF UdUnder
      <3> QED
        BY <3>7, <3>8, <3>9 DEF UdUnder
    <2>3. \A id \in Ids, u \in Sessions, v \in Targets : UdCarries(id, u, v)' => UdOwns(id, u, v)
      BY <2>0, <2>2, <2>q, UdCarriesOld
    <2> QED
      BY <1>5, <2>1, <2>3, UdOwnSame, UdNoNews DEF UdNothingNew, UdOwns, Write, bindVars
  <1>6. CASE WriteStopped(s) \/ DropSession(s)
    <2>1. \A id \in Ids, u \in Sessions, v \in Targets : UdSaid(id, u, v)' => UdOwns(id, u, v)
      <3>1. \A u \in Sessions : call'[u] = call[u] \/ call'[u].id = 0
        BY <1>6, <1>0, UdIdle DEF WriteStopped, DropSession
      <3>2. \A u \in Sessions, v \in Targets : cell'[u][v] = cell[u][v] \/ cell'[u][v] = 0
        <4>1. CASE WriteStopped(s)
          <5>1. call[s].t \in Targets
            BY <4>1, <1>0 DEF WriteStopped, CallAt, UdCallOK
          <5>2. cell' = [cell EXCEPT ![s] = [cell[s] EXCEPT ![call[s].t] = 0]]
            BY <4>1 DEF WriteStopped
          <5> QED
            BY <5>1, <5>2, <1>0
        <4>2. CASE DropSession(s)
          BY <4>2, <1>0 DEF DropSession
        <4> QED
          BY <1>6, <4>1, <4>2
      <3> QED
        BY <3>1, <3>2, <1>i DEF UdSaid, UdOwns
    <2>2. \A id \in Ids, p \in Packet : UdUnder(id, p)' => UdUnder(id, p)
      <3>1. \A id \in Ids : stream'[id].data = stream[id].data
        <4>1. CASE DropSession(s)
          <5>1. \A id \in Ids : [stream[id] EXCEPT !.st = "finished"].data = stream[id].data
            BY <1>0, UdStreamSet
          <5> QED
            BY <4>1, <5>1, <1>0 DEF DropSession
        <4> QED
          BY <1>6, <4>1 DEF WriteStopped, linkVars
      <3> QED
        BY <1>6, <3>1 DEF UdUnder, WriteStopped, DropSession, linkVars, dgVars
    <2>3. \A id \in Ids, u \in Sessions, v \in Targets : UdCarries(id, u, v)' => UdOwns(id, u, v)
      BY <2>2, UdCarriesOld
    <2> QED
      BY <1>6, <2>1, <2>3, UdOwnSame, UdNoNews
      DEF UdNothingNew, UdOwns, WriteStopped, DropSession, bindVars, linkVars
  <1> QED
    BY <1>1, <1>2, <1>3, <1>4, <1>5, <1>6 DEF SendSide

\* the listener learns it from the control stream,
LEMMA UdListensOwner ==
    ASSUME UdTyped, UdOneOwner, NEW s \in Sessions, Listener(s) \/ RelayCloses(s) \/ Receive(s)
    PROVE  UdOneOwner'
  <1>0. /\ control \in [Sessions -> Seq(Ids \X Targets)] /\ control[s] \in Seq(Ids \X Targets)
        /\ bound \in [Sessions -> [Ids -> Targets \cup {None}]]
    BY DEF UdTyped, UdLinkOK, UdBindOK
  <1>u. UNCHANGED <<sendVars, stream, dgrams, worker, dgVars>>
    BY DEF Listener, Bind, ListenerEnds, CleanUnbind, CleanUnmap, CleanDone, RelayCloses, Receive, linkVars
  <1>1. \A id \in Ids, u \in Sessions, v \in Targets : UdTold(id, u, v)' => UdOwns(id, u, v)
    <2>1. CASE Bind(s)
      <3>1. control[s] # <<>>
        BY <2>1 DEF Bind
      <3>2. Head(control[s]) \in Ids \X Targets /\ Head(control[s]) \in Range(control[s]) /\ Range(Tail(control[s])) \subseteq Range(control[s])
        BY <1>0, <3>1, UdTails
      <3>3. PICK i \in Ids, t \in Targets : Head(control[s]) = <<i, t>>
        BY <3>2
      <3>4. \A u \in Sessions : Range(control'[u]) \subseteq Range(control[u])
        BY <2>1, <1>0, <3>2 DEF Bind
      <3>5. bound' = bound \/ bound' = [bound EXCEPT ![s] = [bound[s] EXCEPT ![i] = t]]
        BY <2>1, <3>3 DEF Bind
      <3>6. \A id \in Ids, u \in Sessions, v \in Targets :
              bound'[u][id] = v => bound[u][id] = v \/ (id = i /\ u = s /\ v = t)
        BY <3>5, <1>0
      <3> QED
        BY <3>2, <3>3, <3>4, <3>6 DEF UdTold, UdOwns
    <2>2. CASE CleanUnbind(s)
      <3>1. PICK i \in Ids : bound' = [bound EXCEPT ![s] = [bound[s] EXCEPT ![i] = None]]
        BY <2>2 DEF CleanUnbind
      <3>2. \A id \in Ids, u \in Sessions, v \in Targets : bound'[u][id] = v => bound[u][id] = v
        BY <3>1, <1>0, UdpAssumption
      <3> QED
        BY <2>2, <3>2 DEF CleanUnbind, linkVars, UdTold, UdOwns
    <2>3. CASE ~Bind(s) /\ ~CleanUnbind(s)
      <3>1. UNCHANGED <<control, bound>>
        BY <2>3 DEF Listener, ListenerEnds, CleanUnmap, CleanDone, RelayCloses, Receive, linkVars, bindVars
      <3> QED
        BY <3>1, UdOwnSame
    <2> QED
      BY <2>1, <2>2, <2>3
  <1> QED
    BY <1>u, <1>1, UdOwnSame, UdNoNews DEF UdNothingNew, UdOwns, sendVars, dgVars

\* the worker from the stream,
LEMMA UdWorkersOwner ==
    ASSUME UdTyped, UdOneOwner, NEW i \in Ids, Worker(i) \/ UniTimeout(i)
    PROVE  UdOneOwner'
  <1>0. /\ worker \in [Ids -> WorkerState] /\ bound \in [Sessions -> [Ids -> Targets \cup {None}]]
        /\ worker[i].pc \in {"found", "run", "unbind", "unmap", "last"} => worker[i].s \in Sessions
        /\ stream \in [Ids -> Stream] /\ worker[i] \in WorkerState /\ stream[i] \in Stream
    BY DEF UdTyped, UdWorkerOK, UdLinkOK, UdBindOK
  <1>u. UNCHANGED <<sendVars, control, dgrams, dgVars>>
    BY DEF Worker, AcceptUni, UniReceiver, RunWorker, WorkerDeliver, WorkerEnds, WorkerUnbind, WorkerUnmap,
           WorkerLast, UniTimeout, linkVars
  <1>1. \A id \in Ids, u \in Sessions, v \in Targets : UdTold(id, u, v)' => UdOwns(id, u, v)
    <2>1. CASE WorkerUnbind(i)
      <3>1. worker[i].s \in Sessions /\ bound' = [bound EXCEPT ![worker[i].s] = [bound[worker[i].s] EXCEPT ![i] = None]]
        BY <2>1, <1>0 DEF WorkerUnbind
      <3>2. \A id \in Ids, u \in Sessions, v \in Targets : bound'[u][id] = v => bound[u][id] = v
        BY <3>1, <1>0, UdpAssumption
      <3> QED
        BY <1>u, <3>2 DEF UdTold, UdOwns
    <2>2. CASE ~WorkerUnbind(i)
      <3>1. UNCHANGED bound
        BY <2>2 DEF Worker, AcceptUni, UniReceiver, RunWorker, WorkerDeliver, WorkerEnds, WorkerUnmap,
                    WorkerLast, UniTimeout, bindVars
      <3> QED
        BY <1>u, <3>1, UdOwnSame
    <2> QED
      BY <2>1, <2>2
  <1>2. \A id \in Ids, u \in Sessions, v \in Targets : UdRuns(id, u, v)' => UdOwns(id, u, v)
    <2>1. CASE RunWorker(i) /\ bound[worker[i].s][i] # None
      <3>1. worker[i].s \in Sessions
        BY <2>1, <1>0 DEF RunWorker
      <3>2. worker' = [worker EXCEPT ![i].pc = "run", ![i].t = bound[worker[i].s][i]]
        BY <2>1 DEF RunWorker
      <3>3. /\ \A id \in Ids : id # i => worker'[id] = worker[id]
            /\ worker'[i].s = worker[i].s /\ worker'[i].t = bound[worker[i].s][i]
        BY <3>2, <1>0 DEF WorkerState
      <3> QED
        BY <3>1, <3>3 DEF UdRuns, UdTold, UdOwns
    <2>2. CASE ~(RunWorker(i) /\ bound[worker[i].s][i] # None)
      <3>1. \A id \in Ids : id # i => worker'[id] = worker[id]
        BY <1>0, <2>2 DEF Worker, AcceptUni, UniReceiver, RunWorker, WorkerDeliver, WorkerEnds, WorkerUnbind, WorkerUnmap,
                    WorkerLast, UniTimeout, SetWorker
      <3>2. CASE WorkerDeliver(i)
        BY <3>2, UdOwnSame DEF WorkerDeliver
      <3>3. CASE UniReceiver(i)
        <4>1. worker'[i].pc = "found"
          BY <3>3, <1>0 DEF UniReceiver, WorkerState
        <4> QED
          BY <3>1, <4>1 DEF UdRuns, UdOwns
      <3>4. CASE ~WorkerDeliver(i) /\ ~UniReceiver(i)
        <4>1. \E pc \in {"wait", "unbind", "unmap", "last", "done", "expired"} : SetWorker(i, pc)
          BY <2>2, <3>4 DEF Worker, AcceptUni, RunWorker, WorkerEnds, WorkerUnbind, WorkerUnmap, WorkerLast, UniTimeout
        <4>2. worker'[i].pc # "run"
          BY <4>1, <1>0 DEF SetWorker, WorkerState
        <4> QED
          BY <3>1, <4>2 DEF UdRuns, UdOwns
      <3> QED
        BY <3>2, <3>3, <3>4
    <2> QED
      BY <2>1, <2>2
  <1>3. \A id \in Ids, p \in Packet : UdUnder(id, p)' => UdUnder(id, p)
    <2>1. \A id \in Ids : Range(stream'[id].data) \subseteq Range(stream[id].data)
      <3>1. CASE WorkerDeliver(i)
        <4>1. stream[i].data \in Seq(Packet) /\ stream[i].data # <<>>
          BY <3>1, <1>0, UdStreamRec DEF WorkerDeliver
        <4>2. Tail(stream[i].data) \in Seq(Packet) /\ Range(Tail(stream[i].data)) \subseteq Range(stream[i].data)
          BY <4>1, UdTails
        <4>3. PICK r : r = [stream[i] EXCEPT !.data = Tail(stream[i].data)]
          OBVIOUS
        <4>4. r.data = Tail(stream[i].data)
          BY <4>2, <4>3, <1>0, UdStreamHas
        <4>5. stream' = [stream EXCEPT ![i] = r]
          BY <3>1, <4>3 DEF WorkerDeliver
        <4> QED
          BY <4>2, <4>4, <4>5, <1>0
      <3>2. CASE StopStream(i)
        <4>1. Range(<<>>) = {}
          BY DEF Range
        <4>2. \A id \in Ids : stream'[id].data = stream[id].data \/ stream'[id].data = <<>>
          BY <3>2, <1>0 DEF StopStream
        <4> QED
          BY <4>1, <4>2
      <3>3. CASE stream' = stream
        BY <3>3
      <3> QED
        BY <3>1, <3>2, <3>3 DEF Worker, AcceptUni, UniReceiver, RunWorker, WorkerEnds, WorkerUnbind, WorkerUnmap,
                    WorkerLast, UniTimeout, linkVars
    <2> QED
      BY <1>u, <2>1 DEF UdUnder, dgVars
  <1>4. \A id \in Ids, u \in Sessions, v \in Targets : UdCarries(id, u, v)' => UdOwns(id, u, v)
    BY <1>3, UdCarriesOld
  <1> QED
    BY <1>u, <1>1, <1>2, <1>4, UdOwnSame, UdNoNews DEF UdNothingNew, UdOwns, sendVars

\* the datagram loop from the datagram,
LEMMA UdDatagramsOwner ==
    ASSUME UdTyped, UdOneOwner,
           LoseDatagram \/ DatagramLoop \/ \E i \in Ids : Handler(i) \/ HandlerTimeout(i)
    PROVE  UdOneOwner'
  <1>0. /\ waiting \in [Ids -> Seq(Packet)] /\ dgrams \subseteq Ids \X Packet
        /\ loop.pc # "read" => loop.id \in Ids /\ loop.p \in Packet
    BY DEF UdTyped, UdDgramOK, UdLinkOK
  <1>u. UNCHANGED <<sendVars, control, stream, bindVars, worker>>
    BY DEF LoseDatagram, DatagramLoop, ReadDatagram, FeedDatagram, BufferDatagram, Handler, HandlerReceiver,
           HandlerTimeout, HandlerFeed, HandlerCloses, HandlerEnds, linkVars
  <1>1. \A id \in Ids, p \in Packet : UdUnder(id, p)' => UdUnder(id, p)
    <2>1. CASE LoseDatagram
      BY <1>u, <2>1 DEF LoseDatagram, UdUnder, dgVars
    <2>2. CASE ReadDatagram
      <3>1. PICK d \in dgrams : dgrams' = dgrams \ {d} /\ loop'.id = d[1] /\ loop'.p = d[2]
        BY <2>2 DEF ReadDatagram
      <3>2. d = <<d[1], d[2]>>
        BY <1>0
      <3> QED
        BY <1>u, <2>2, <3>1, <3>2 DEF ReadDatagram, UdUnder
    <2>3. CASE FeedDatagram
      BY <1>u, <2>3, UdLoopIdle DEF FeedDatagram, linkVars, UdUnder
    <2>4. CASE BufferDatagram
      <3>1. loop.id \in Ids /\ loop.p \in Packet /\ waiting[loop.id] \in Seq(Packet) /\ loop.pc = "buffer"
        BY <1>0, <2>4 DEF BufferDatagram
      <3>2. Range(Append(waiting[loop.id], loop.p)) = Range(waiting[loop.id]) \cup {loop.p}
        BY <3>1, UdAppends
      <3>3. waiting' = waiting \/ waiting' = [waiting EXCEPT ![loop.id] = Append(waiting[loop.id], loop.p)]
        BY <2>4 DEF BufferDatagram, IntoBuffer
      <3>4. \A id \in Ids, p \in Packet : p \in Range(waiting'[id]) => p \in Range(waiting[id]) \/ (id = loop.id /\ p = loop.p)
        BY <3>1, <3>2, <3>3, <1>0
      <3>5. loop'.pc = "read" /\ dgrams' = dgrams
        BY <2>4, UdLoopIdle DEF BufferDatagram, linkVars
      <3> QED
        BY <1>u, <3>1, <3>4, <3>5 DEF UdUnder
    <2>5. ASSUME NEW i \in Ids, Handler(i) \/ HandlerTimeout(i)
          PROVE  \A id \in Ids, p \in Packet : UdUnder(id, p)' => UdUnder(id, p)
      <3>1. \A id \in Ids : Range(waiting'[id]) \subseteq Range(waiting[id])
        <4>1. CASE HandlerFeed(i)
          <5>1. waiting[i] # <<>> /\ waiting' = [waiting EXCEPT ![i] = Tail(waiting[i])] /\ waiting[i] \in Seq(Packet)
            BY <4>1, <1>0 DEF HandlerFeed
          <5>2. Range(Tail(waiting[i])) \subseteq Range(waiting[i])
            BY <5>1, UdTails
          <5> QED
            BY <5>1, <5>2, <1>0
        <4>2. CASE HandlerEnds(i)
          <5>1. Range(<<>>) = {}
            BY DEF Range
          <5> QED
            BY <4>2, <5>1, <1>0 DEF HandlerEnds
        <4> QED
          BY <2>5, <4>1, <4>2 DEF Handler, HandlerReceiver, HandlerTimeout, HandlerCloses
      <3>2. UNCHANGED <<dgrams, loop>>
        BY <2>5 DEF Handler, HandlerReceiver, HandlerTimeout, HandlerFeed, HandlerCloses, HandlerEnds, linkVars
      <3> QED
        BY <1>u, <3>1, <3>2 DEF UdUnder
    <2> QED
      BY <2>1, <2>2, <2>3, <2>4, <2>5 DEF DatagramLoop
  <1>2. \A id \in Ids, u \in Sessions, v \in Targets : UdCarries(id, u, v)' => UdOwns(id, u, v)
    BY <1>1, UdCarriesOld
  <1> QED
    BY <1>u, <1>2, UdOwnSame, UdNoNews DEF UdNothingNew, UdOwns, sendVars, bindVars

\* and hence every step keeps one owner of each id.
LEMMA UdOwner ==
    ASSUME UdTyped, UdOneOwner, [Next]_vars
    PROVE  UdOneOwner'
  <1>1. CASE UNCHANGED vars
    BY <1>1, UdOwnSame, UdNoNews DEF UdNothingNew, UdOwns, vars
  <1>2. CASE Next
    BY <1>1, <1>2, UdSendsOwner, UdListensOwner, UdWorkersOwner, UdDatagramsOwner DEF Next, Timeout, Ended
  <1> QED
    BY <1>1, <1>2

-----------------------------------------------------------------------------
(* A packet is in one place *)

\* What has arrived are packets with their targets,
LEMMA UdArrivedType ==
    ASSUME UdTyped, NEW s \in Sessions
    PROVE  Arrived(s) \in Seq(Targets \X Packet)
  BY ConcatProperties DEF Arrived, UdTyped, UdQueueOK

\* which stay where no queue changes,
LEMMA UdArrivedStill ==
    ASSUME UNCHANGED <<queue, delivered>>
    PROVE  \A s \in Sessions : Arrived(s)' = Arrived(s)
  BY DEF Arrived

\* also when one is received,
LEMMA UdArrivedReceives ==
    ASSUME UdTyped, NEW u \in Sessions, Receive(u)
    PROVE  \A s \in Sessions : Arrived(s)' = Arrived(s)
  <1>1. queue[u] \in Seq(Targets \X Packet) /\ queue[u] # <<>> /\ delivered[u] \in Seq(Targets \X Packet)
    BY DEF UdTyped, UdQueueOK, Receive
  <1>2. Append(delivered[u], Head(queue[u])) \o Tail(queue[u]) = delivered[u] \o queue[u]
    BY <1>1, UdDequeued
  <1>3. \A s \in Sessions : /\ delivered'[s] = IF s = u THEN Append(delivered[u], Head(queue[u])) ELSE delivered[s]
                            /\ queue'[s] = IF s = u THEN Tail(queue[u]) ELSE queue[s]
    BY DEF Receive, UdTyped, UdQueueOK
  <1> QED
    BY <1>2, <1>3 DEF Arrived

\* and grow by what is queued.
LEMMA UdArrivedGrows ==
    ASSUME UdTyped, NEW u \in Sessions, NEW a \in Targets \X Packet, UNCHANGED delivered,
           queue' = [queue EXCEPT ![u] = Append(queue[u], a)]
    PROVE  \A s \in Sessions : Arrived(s)' = IF s = u THEN Append(Arrived(u), a) ELSE Arrived(s)
  <1>1. PICK q \in Seq(Targets \X Packet), d \in Seq(Targets \X Packet) : q = queue[u] /\ d = delivered[u]
    BY DEF UdTyped, UdQueueOK
  <1>2. d \o Append(q, a) = Append(d \o q, a)
    <2>1. PICK S : S = Targets \X Packet
      OBVIOUS
    <2>2. q \in Seq(S) /\ d \in Seq(S) /\ a \in S
      BY <1>1, <2>1
    <2>3. Append(q, a) = q \o <<a>> /\ <<a>> \in Seq(S) /\ d \o q \in Seq(S)
      BY <2>2, AppendIsConcat, ConcatProperties
    <2>4. Append(d \o q, a) = (d \o q) \o <<a>>
      BY <2>2, <2>3, AppendIsConcat
    <2> QED
      BY <2>2, <2>3, <2>4, ConcatAssociative
  <1>3. Arrived(u)' = d \o Append(q, a) /\ Arrived(u) = d \o q
    BY <1>1 DEF Arrived, UdTyped, UdQueueOK
  <1>4. \A s \in Sessions : s # u => Arrived(s)' = Arrived(s)
    BY DEF Arrived, UdTyped, UdQueueOK
  <1>5. Arrived(u)' = Append(Arrived(u), a)
    BY <1>2, <1>3, Zenon
  <1> QED
    BY <1>4, <1>5, Zenon

\* How a packet can come to be in a place it was not in: only the packet p may,
\* and only in place y.
UdGains(y, p) ==
    /\ \A i \in Ids, q \in Packet :
         /\ q \in Range(stream'[i].data) => q \in Range(stream[i].data) \/ (y = <<"stream", i>> /\ q = p)
         /\ <<i, q>> \in dgrams' => <<i, q>> \in dgrams \/ (y = <<"dgram", i>> /\ q = p)
         /\ q \in Range(waiting'[i]) => q \in Range(waiting[i]) \/ (y = <<"waiting", i>> /\ q = p)
    /\ \A s \in Sessions, t \in Targets, q \in Packet :
         <<t, q>> \in Range(Arrived(s)') => <<t, q>> \in Range(Arrived(s)) \/ (y = <<"arrived", s>> /\ q = p)
    /\ loop'.pc # "read" => (loop.pc # "read" /\ loop'.p = loop.p) \/ (y = <<"loop", 0>> /\ loop'.p = p)

\* A step that adds one packet in one place adds nothing elsewhere.
LEMMA UdGained ==
    ASSUME NEW y, NEW p, UdGains(y, p), NEW x \in UdPlaces, NEW q \in Packet, UdAt(x, q)'
    PROVE  UdAt(x, q) \/ (x = y /\ q = p)
  <1>1. CASE x \in {"stream"} \X Ids
    BY <1>1 DEF UdGains, UdAt
  <1>2. CASE x \in {"dgram"} \X Ids
    BY <1>2 DEF UdGains, UdAt
  <1>3. CASE x \in {"waiting"} \X Ids
    BY <1>3 DEF UdGains, UdAt
  <1>4. CASE x \in {"arrived"} \X Sessions
    <2>1. PICK s \in Sessions : x = <<"arrived", s>>
      BY <1>4
    <2>2. PICK t \in Targets : <<t, q>> \in Range(Arrived(s)')
      BY <2>1 DEF UdAt
    <2> QED
      BY <2>1, <2>2 DEF UdGains, UdAt
  <1>5. CASE x \in {"loop"} \X {0}
    BY <1>5 DEF UdGains, UdAt
  <1> QED
    BY <1>1, <1>2, <1>3, <1>4, <1>5 DEF UdPlaces

\* Packets only leave.
LEMMA UdPlacedLess ==
    ASSUME UdPlaced, UdGains(<<>>, 0), sent' = sent
    PROVE  UdPlaced'
  <1>1. \A x \in UdPlaces : x # <<>>
    BY DEF UdPlaces
  <1> SUFFICES ASSUME NEW x \in UdPlaces, NEW q \in Packet, UdAt(x, q)'
               PROVE  q.n <= sent'[q.s][q.t] /\ \A y \in UdPlaces : UdAt(y, q)' => x = y
    BY DEF UdPlaced, UdPlaces
  <1>2. UdAt(x, q) /\ \A y \in UdPlaces : UdAt(y, q)' => UdAt(y, q)
    BY <1>1, UdGained
  <1> QED
    BY <1>2 DEF UdPlaced

\* A packet goes from one place to another.
LEMMA UdPlacedMoves ==
    ASSUME UdPlaced, NEW x0 \in UdPlaces, NEW y, NEW p \in Packet, UdGains(y, p), sent' = sent,
           UdAt(x0, p), ~UdAt(x0, p)'
    PROVE  UdPlaced'
  <1> SUFFICES ASSUME NEW x \in UdPlaces, NEW q \in Packet, UdAt(x, q)'
               PROVE  q.n <= sent'[q.s][q.t] /\ \A z \in UdPlaces : UdAt(z, q)' => x = z
    BY DEF UdPlaced, UdPlaces
  <1>1. \A z \in UdPlaces : UdAt(z, q)' => UdAt(z, q) \/ (z = y /\ q = p)
    BY UdGained
  <1>2. CASE q = p
    <2>1. \A z \in UdPlaces : UdAt(z, q) => z = x0
      BY <1>2 DEF UdPlaced
    <2>2. \A z \in UdPlaces : UdAt(z, q)' => z = y
      BY <1>1, <1>2, <2>1
    <2> QED
      BY <1>2, <2>2 DEF UdPlaced
  <1>3. CASE q # p
    BY <1>1, <1>3 DEF UdPlaced
  <1> QED
    BY <1>2, <1>3

\* A packet is new.
LEMMA UdPlacedNew ==
    ASSUME UdTyped, UdPlaced, NEW y, NEW p \in Packet, UdGains(y, p),
           p.n = sent[p.s][p.t] + 1, sent' = [sent EXCEPT ![p.s] = [sent[p.s] EXCEPT ![p.t] = p.n]]
    PROVE  UdPlaced'
  <1>0. sent \in [Sessions -> [Targets -> 0 .. MaxSent]] /\ p.s \in Sessions /\ p.t \in Targets /\ MaxSent \in Nat
    BY UdpAssumption DEF UdTyped, UdSendOK, Packet
  <1>1. \A u \in Sessions, v \in Targets : sent[u][v] \in Nat
    BY <1>0
  <1>2. \A u \in Sessions, v \in Targets : sent'[u][v] = IF u = p.s /\ v = p.t THEN p.n ELSE sent[u][v]
    BY <1>0
  <1>3. \A x \in UdPlaces : ~UdAt(x, p)
    <2> SUFFICES ASSUME NEW x \in UdPlaces, UdAt(x, p) PROVE FALSE
      OBVIOUS
    <2>1. p.n <= sent[p.s][p.t] /\ sent[p.s][p.t] \in Nat
      BY <1>0, <1>1 DEF UdPlaced
    <2> QED
      BY <2>1
  <1> SUFFICES ASSUME NEW x \in UdPlaces, NEW q \in Packet, UdAt(x, q)'
               PROVE  q.n <= sent'[q.s][q.t] /\ \A z \in UdPlaces : UdAt(z, q)' => x = z
    BY DEF UdPlaced, UdPlaces
  <1>4. \A z \in UdPlaces : UdAt(z, q)' => UdAt(z, q) \/ (z = y /\ q = p)
    BY UdGained
  <1>5. CASE q = p
    <2>1. \A z \in UdPlaces : UdAt(z, q)' => z = y
      BY <1>3, <1>4, <1>5
    <2>2. q.n <= sent'[q.s][q.t]
      BY <1>0, <1>1, <1>2, <1>5
    <2> QED
      BY <2>1, <2>2
  <1>6. CASE q # p
    <2>1. UdAt(x, q) /\ \A z \in UdPlaces : UdAt(z, q)' => x = z
      BY <1>4, <1>6 DEF UdPlaced
    <2>2. q.n <= sent[q.s][q.t] /\ q.s \in Sessions /\ q.t \in Targets /\ q.n \in Nat
      BY <2>1 DEF UdPlaced, Packet
    <2>3. q.n <= sent'[q.s][q.t]
      <3>1. CASE q.s = p.s /\ q.t = p.t
        <4>1. q.n <= sent[p.s][p.t] /\ sent'[q.s][q.t] = sent[p.s][p.t] + 1
          BY <1>2, <2>2, <3>1
        <4> QED
          BY <4>1, <1>0, <1>1, <2>2
      <3>2. CASE ~(q.s = p.s /\ q.t = p.t)
        BY <1>2, <2>2, <3>2
      <3> QED
        BY <3>1, <3>2
    <2> QED
      BY <2>1, <2>3
  <1> QED
    BY <1>5, <1>6

\* What the receivers, the streams and the buffers hold.
UdHeld == UdPlaced /\ UdLinear /\ UdRight

\* Only the streams' states, the ids and the tasks change.
LEMMA UdHeldStill ==
    ASSUME UdHeld, \A id \in Ids : stream'[id].data = stream[id].data, UNCHANGED <<sent, dgrams, loop, waiting>>,
           \A s \in Sessions : Arrived(s)' = Arrived(s)
    PROVE  UdHeld'
  <1>1. UdGains(<<>>, 0)
    BY DEF UdGains
  <1>2. UdPlaced'
    BY <1>1, UdPlacedLess DEF UdHeld
  <1>3. UdLinear'
    BY DEF UdHeld, UdLinear
  <1>4. UdRight'
    BY DEF UdHeld, UdRight
  <1> QED
    BY <1>2, <1>3, <1>4 DEF UdHeld

\* A buffered, sent or read packet enters its receiver.
LEMMA UdLinearGrows ==
    ASSUME UdTyped, UdHeld, NEW u \in Sessions, NEW a \in Targets \X Packet, ~UdAt(<<"arrived", u>>, a[2]),
           a[2].s = u, a[2].t = a[1],
           \A s \in Sessions : Arrived(s)' = IF s = u THEN Append(Arrived(u), a) ELSE Arrived(s)
    PROVE  /\ \A s \in Sessions : UdDistinct(Arrived(s)')
           /\ UdRight'
           /\ \A s \in Sessions, t \in Targets, q \in Packet :
                <<t, q>> \in Range(Arrived(s)') => <<t, q>> \in Range(Arrived(s)) \/ (s = u /\ q = a[2])
  <1>1. PICK r \in Seq(Targets \X Packet) : r = Arrived(u)
    BY UdArrivedType
  <1>2. a \notin Range(r)
    <2>1. a[1] \in Targets /\ a = <<a[1], a[2]>>
      OBVIOUS
    <2> QED
      BY <1>1, <2>1 DEF UdAt
  <1>3. UdDistinct(r)
    BY <1>1 DEF UdHeld, UdLinear
  <1>4. Range(Append(r, a)) = Range(r) \cup {a} /\ UdDistinct(Append(r, a))
    BY <1>1, <1>2, <1>3, UdAppends
  <1>5. \A s \in Sessions : Arrived(s)' = IF s = u THEN Append(r, a) ELSE Arrived(s)
    BY <1>1
  <1>6. \A s \in Sessions : UdDistinct(Arrived(s)')
    BY <1>4, <1>5 DEF UdHeld, UdLinear
  <1>7. UdRight'
    <2> SUFFICES ASSUME NEW s \in Sessions, NEW b \in Range(Arrived(s)')
                 PROVE  b[2].s = s /\ b[2].t = b[1]
      BY DEF UdRight
    <2>1. CASE b \in Range(Arrived(s))
      BY <2>1 DEF UdHeld, UdRight
    <2>2. CASE s = u /\ b = a
      BY <2>2
    <2> QED
      BY <1>1, <1>4, <1>5, <2>1, <2>2
  <1>8. \A s \in Sessions, t \in Targets, q \in Packet :
          <<t, q>> \in Range(Arrived(s)') => <<t, q>> \in Range(Arrived(s)) \/ (s = u /\ q = a[2])
    <2> SUFFICES ASSUME NEW s \in Sessions, NEW t \in Targets, NEW q \in Packet, <<t, q>> \in Range(Arrived(s)')
                 PROVE  <<t, q>> \in Range(Arrived(s)) \/ (s = u /\ q = a[2])
      OBVIOUS
    <2>1. <<t, q>> \in Range(Arrived(s)) \/ (s = u /\ <<t, q>> = a)
      BY <1>1, <1>4, <1>5
    <2>2. <<t, q>>[2] = q
      OBVIOUS
    <2> QED
      BY <2>1, <2>2
  <1> QED
    BY <1>6, <1>7, <1>8

\* The sending side puts a packet where its receiver will look,
LEMMA UdSendsHeld ==
    ASSUME UdTyped, UdHeld, NEW s \in Sessions,
           OpenSession(s) \/ (\E t \in Targets : SendTo(s, t)) \/ SendSide(s) \/ DropSession(s)
    PROVE  UdHeld'
  <1>0. /\ call[s] \in Call /\ UdCallOK(s, call[s]) /\ stream \in [Ids -> Stream]
        /\ sent \in [Sessions -> [Targets -> 0 .. MaxSent]] /\ MaxSent \in Nat
        /\ \A id \in Ids : stream[id] \in Stream
    BY UdpAssumption DEF UdTyped, UdSendOK, UdLinkOK
  <1>a. \A u \in Sessions : Arrived(u)' = Arrived(u)
    <2>1. UNCHANGED <<queue, delivered>>
      BY DEF OpenSession, SendTo, SendSide, GetSendContextId, Announce, OpenUni, Write, WriteStopped, DropSession
    <2> QED
      BY <2>1, UdArrivedStill
  <1>u. UNCHANGED <<loop, waiting>>
    BY DEF OpenSession, SendTo, SendSide, GetSendContextId, Announce, OpenUni, Write, WriteStopped, DropSession, dgVars
  <1>1. CASE OpenUni(s)
    <2>1. call[s].id \in Ids
      BY <1>1, <1>0 DEF OpenUni, CallAt, UdCallOK
    <2>2. PICK r : r = [stream[call[s].id] EXCEPT !.st = "open"]
      OBVIOUS
    <2>3. r.data = stream[call[s].id].data
      BY <2>1, <2>2, <1>0, UdStreamSet
    <2>4. \A id \in Ids : stream'[id].data = stream[id].data
      BY <1>1, <2>2, <2>3, <1>0 DEF OpenUni
    <2> QED
      BY <1>1, <1>a, <1>u, <2>4, UdHeldStill DEF OpenUni
  <1>2. CASE DropSession(s)
    <2>1. \A id \in Ids : [stream[id] EXCEPT !.st = "finished"].data = stream[id].data
      BY <1>0, UdStreamSet
    <2>2. \A id \in Ids : stream'[id].data = stream[id].data
      BY <1>2, <2>1, <1>0 DEF DropSession
    <2> QED
      BY <1>2, <1>a, <1>u, <2>2, UdHeldStill DEF DropSession
  <1>3. CASE Write(s)
    <2>0. /\ call[s].t \in Targets /\ call[s].id \in Ids /\ sent[s][call[s].t] \in Nat /\ sent[s] \in [Targets -> 0 .. MaxSent]
      BY <1>3, <1>0 DEF Write, CallAt, UdCallOK
    <2>1. PICK p : p = [s |-> s, t |-> call[s].t, n |-> sent[s][call[s].t] + 1]
      OBVIOUS
    <2>2. p \in Packet /\ p.s = s /\ p.t = call[s].t /\ p.n = sent[p.s][p.t] + 1
      BY <2>0, <2>1 DEF Packet
    <2>3. sent' = [sent EXCEPT ![p.s] = [sent[p.s] EXCEPT ![p.t] = p.n]]
      BY <1>3, <2>2 DEF Write
    <2>4. PICK i \in Ids : i = call[s].id
      BY <2>0
    <2>5. PICK d \in Seq(Packet) : d = stream[i].data
      BY <1>0, UdStreamRec
    <2>6. \/ stream' = stream /\ dgrams' = dgrams
          \/ stream' = [stream EXCEPT ![i] = [stream[i] EXCEPT !.data = Append(d, p)]] /\ dgrams' = dgrams
          \/ stream' = stream /\ dgrams' = dgrams \cup {<<i, p>>}
      BY <1>3, <2>1, <2>4, <2>5 DEF Write
    <2>7. \A x \in UdPlaces : ~UdAt(x, p)
      <3> SUFFICES ASSUME NEW x \in UdPlaces, UdAt(x, p) PROVE FALSE
        OBVIOUS
      <3>1. p.n <= sent[p.s][p.t] /\ sent[p.s][p.t] \in Nat
        BY <2>0, <2>2 DEF UdHeld, UdPlaced
      <3> QED
        BY <3>1, <2>2
    <2>r. UdRight'
      BY <1>a DEF UdHeld, UdRight
    <2>8. CASE stream' = [stream EXCEPT ![i] = [stream[i] EXCEPT !.data = Append(d, p)]] /\ dgrams' = dgrams
      <3>1. /\ Append(d, p) \in Seq(Packet) /\ Range(Append(d, p)) = Range(d) \cup {p}
            /\ UdDistinct(d) /\ p \notin Range(d) => UdDistinct(Append(d, p))
        BY <2>2, <2>5, UdAppends
      <3>2. \A id \in Ids : stream'[id].data = IF id = i THEN Append(d, p) ELSE stream[id].data
        <4>1. PICK r : r = [stream[i] EXCEPT !.data = Append(d, p)]
          OBVIOUS
        <4>2. r.data = Append(d, p)
          BY <4>1, <3>1, <1>0, UdStreamHas
        <4> QED
          BY <2>8, <4>1, <4>2, <1>0
      <3>3. p \notin Range(d)
        <4>1. <<"stream", i>> \in UdPlaces
          BY DEF UdPlaces
        <4> QED
          BY <2>5, <2>7, <4>1 DEF UdAt
      <3>4. UdGains(<<"stream", i>>, p)
        BY <2>5, <2>8, <3>1, <3>2, <1>a, <1>u DEF UdGains
      <3>5. UdPlaced'
        BY <2>2, <2>3, <3>4, UdPlacedNew DEF UdHeld
      <3>6. UdLinear'
        BY <2>5, <3>1, <3>2, <3>3, <1>a, <1>u DEF UdHeld, UdLinear
      <3> QED
        BY <3>5, <3>6, <2>r DEF UdHeld
    <2>9. CASE stream' = stream /\ (dgrams' = dgrams \/ dgrams' = dgrams \cup {<<i, p>>})
      <3>1. UdGains(<<"dgram", i>>, p)
        BY <2>9, <1>a, <1>u DEF UdGains
      <3>2. UdPlaced'
        BY <2>2, <2>3, <3>1, UdPlacedNew DEF UdHeld
      <3>3. UdLinear'
        BY <2>9, <1>a, <1>u DEF UdHeld, UdLinear
      <3> QED
        BY <3>2, <3>3, <2>r DEF UdHeld
    <2> QED
      BY <2>6, <2>8, <2>9
  <1>4. CASE ~OpenUni(s) /\ ~DropSession(s) /\ ~Write(s)
    <2>1. UNCHANGED <<stream, dgrams, sent>>
      BY <1>4 DEF OpenSession, SendTo, SendSide, GetSendContextId, Announce, WriteStopped, linkVars
    <2> QED
      BY <1>a, <1>u, <2>1, UdHeldStill
  <1> QED
    BY <1>1, <1>2, <1>3, <1>4

\* the listener moves none elsewhere,
LEMMA UdListensHeld ==
    ASSUME UdTyped, UdHeld, NEW s \in Sessions, Listener(s) \/ RelayCloses(s) \/ Receive(s)
    PROVE  UdHeld'
  <1>1. UNCHANGED <<sent, stream, dgrams, loop, waiting>>
    BY DEF Listener, Bind, ListenerEnds, CleanUnbind, CleanUnmap, CleanDone, RelayCloses, Receive, linkVars, sendVars, dgVars
  <1>2. \A u \in Sessions : Arrived(u)' = Arrived(u)
    <2>1. CASE Receive(s)
      BY <2>1, UdArrivedReceives
    <2>2. CASE ~Receive(s)
      <3>1. UNCHANGED <<queue, delivered>>
        BY <2>2 DEF Listener, Bind, ListenerEnds, CleanUnbind, CleanUnmap, CleanDone, RelayCloses
      <3> QED
        BY <3>1, UdArrivedStill
    <2> QED
      BY <2>1, <2>2
  <1> QED
    BY <1>1, <1>2, UdHeldStill

\* A packet under an id that is bound, or that a worker serves, is of that target.
LEMMA UdSameTarget ==
    ASSUME UdOneOwner, NEW i \in Ids, NEW u \in Sessions, NEW t \in Targets, NEW p \in Packet,
           UdTold(i, u, t) \/ UdRuns(i, u, t), UdUnder(i, p)
    PROVE  p.s = u /\ p.t = t
  <1>1. p.s \in Sessions /\ p.t \in Targets
    BY DEF Packet
  <1>2. UdOwns(i, p.s, p.t) /\ UdOwns(i, u, t)
    BY <1>1 DEF UdOwns, UdCarries
  <1> QED
    BY <1>1, <1>2 DEF UdOneOwner

\* the worker hands it to the owner of the id,
LEMMA UdWorkersHeld ==
    ASSUME UdTyped, UdOneOwner, UdHeld, NEW i \in Ids, Worker(i) \/ UniTimeout(i)
    PROVE  UdHeld'
  <1>0. /\ stream \in [Ids -> Stream] /\ stream[i] \in Stream /\ <<"stream", i>> \in UdPlaces
        /\ worker[i].pc = "run" => worker[i].s \in Sessions /\ worker[i].t \in Targets
    BY DEF UdTyped, UdLinkOK, UdWorkerOK, UdPlaces
  <1>u. UNCHANGED <<sent, dgrams, loop, waiting, delivered>>
    BY DEF Worker, AcceptUni, UniReceiver, RunWorker, WorkerDeliver, WorkerEnds, WorkerUnbind, WorkerUnmap,
           WorkerLast, UniTimeout, linkVars, sendVars, dgVars
  <1>1. CASE WorkerDeliver(i)
    <2>1. PICK u \in Sessions, t \in Targets : u = worker[i].s /\ t = worker[i].t
      BY <1>1, <1>0 DEF WorkerDeliver
    <2>2. PICK d \in Seq(Packet) : d = stream[i].data
      BY <1>0, UdStreamRec
    <2>3. PICK p : p = Head(d)
      OBVIOUS
    <2>4. /\ d # <<>> /\ stream' = [stream EXCEPT ![i] = [stream[i] EXCEPT !.data = Tail(d)]]
          /\ queue' = [queue EXCEPT ![u] = Append(queue[u], <<t, p>>)]
      BY <1>1, <2>1, <2>2, <2>3 DEF WorkerDeliver
    <2>5. UdDistinct(d)
      BY <2>2 DEF UdHeld, UdLinear
    <2>6. /\ p \in Packet /\ p \in Range(d) /\ Tail(d) \in Seq(Packet) /\ Range(Tail(d)) \subseteq Range(d)
          /\ UdDistinct(Tail(d)) /\ p \notin Range(Tail(d))
      BY <2>2, <2>3, <2>4, <2>5, UdTails
    <2>7. p.s = u /\ p.t = t
      <3>1. UdRuns(i, u, t) /\ UdUnder(i, p)
        BY <1>1, <2>1, <2>2, <2>6 DEF UdRuns, UdUnder, WorkerDeliver
      <3> QED
        BY <3>1, <2>6, UdSameTarget
    <2>8. \A id \in Ids : stream'[id].data = IF id = i THEN Tail(d) ELSE stream[id].data
      <3>1. PICK r : r = [stream[i] EXCEPT !.data = Tail(d)]
        OBVIOUS
      <3>2. r.data = Tail(d)
        BY <3>1, <2>6, <1>0, UdStreamHas
      <3> QED
        BY <2>4, <3>1, <3>2, <1>0
    <2>9. UdAt(<<"stream", i>>, p) /\ ~UdAt(<<"stream", i>>, p)'
      BY <2>2, <2>6, <2>8 DEF UdAt
    <2>10. ~UdAt(<<"arrived", u>>, p)
      <3>1. <<"arrived", u>> \in UdPlaces /\ <<"arrived", u>> # <<"stream", i>>
        BY DEF UdPlaces
      <3> QED
        BY <3>1, <2>6, <2>9, <1>0 DEF UdHeld, UdPlaced
    <2>a. PICK a : a = <<t, p>>
      OBVIOUS
    <2>11. a = <<t, p>> /\ a \in Targets \X Packet /\ a[1] = t /\ a[2] = p
      BY <2>1, <2>6, <2>a
    <2>12. \A x \in Sessions : Arrived(x)' = IF x = u THEN Append(Arrived(u), a) ELSE Arrived(x)
      BY <2>4, <2>11, <1>u, UdArrivedGrows
    <2>13. /\ \A x \in Sessions : UdDistinct(Arrived(x)')
           /\ UdRight'
           /\ \A x \in Sessions, v \in Targets, q \in Packet :
                <<v, q>> \in Range(Arrived(x)') => <<v, q>> \in Range(Arrived(x)) \/ (x = u /\ q = p)
      <3>1. ~UdAt(<<"arrived", u>>, a[2]) /\ a[2].s = u /\ a[2].t = a[1] /\ a \in Targets \X Packet /\ u \in Sessions
        BY <2>1, <2>7, <2>10, <2>11
      <3>2. /\ \A x \in Sessions : UdDistinct(Arrived(x)')
            /\ UdRight'
            /\ \A x \in Sessions, v \in Targets, q \in Packet :
                 <<v, q>> \in Range(Arrived(x)') => <<v, q>> \in Range(Arrived(x)) \/ (x = u /\ q = a[2])
        BY <3>1, <2>12, UdLinearGrows
      <3> QED
        BY <3>2, <2>11
    <2>14. UdGains(<<"arrived", u>>, p)
      BY <2>2, <2>6, <2>8, <2>13, <1>u DEF UdGains
    <2>15. UdPlaced'
      BY <2>6, <2>9, <2>14, <1>0, <1>u, UdPlacedMoves DEF UdHeld
    <2>16. UdLinear'
      BY <2>6, <2>8, <2>13, <1>u DEF UdHeld, UdLinear
    <2> QED
      BY <2>13, <2>15, <2>16 DEF UdHeld
  <1>2. CASE ~WorkerDeliver(i)
    <2>1. stream' = stream \/ StopStream(i)
      BY <1>2 DEF Worker, AcceptUni, UniReceiver, RunWorker, WorkerEnds, WorkerUnbind, WorkerUnmap,
                  WorkerLast, UniTimeout, linkVars
    <2>2. UNCHANGED <<queue, delivered>>
      BY <1>2 DEF Worker, AcceptUni, UniReceiver, RunWorker, WorkerEnds, WorkerUnbind, WorkerUnmap,
                  WorkerLast, UniTimeout
    <2>3. \A x \in Sessions : Arrived(x)' = Arrived(x)
      BY <2>2, UdArrivedStill
    <2>4. \A id \in Ids : stream'[id].data = stream[id].data \/ stream'[id].data = <<>>
      BY <2>1, <1>0 DEF StopStream
    <2>5. Range(<<>>) = {} /\ UdDistinct(<<>>)
      BY DEF Range, UdDistinct
    <2>6. UdGains(<<>>, 0)
      BY <2>3, <2>4, <2>5, <1>u DEF UdGains
    <2>7. UdPlaced'
      BY <2>6, <1>u, UdPlacedLess DEF UdHeld
    <2>8. UdLinear'
      BY <2>3, <2>4, <2>5, <1>u DEF UdHeld, UdLinear
    <2>9. UdRight'
      BY <2>3 DEF UdHeld, UdRight
    <2> QED
      BY <2>7, <2>8, <2>9 DEF UdHeld
  <1> QED
    BY <1>1, <1>2

\* feed_datagram of the packet p, which leaves the place x0.
LEMMA UdFeedHeld ==
    ASSUME UdTyped, UdOneOwner, UdHeld, NEW x0 \in UdPlaces, NEW i \in Ids, NEW u \in Sessions, NEW p \in Packet,
           Feed(u, i, p), UdUnder(i, p), UdAt(x0, p), ~UdAt(x0, p)', x0[1] # "arrived",
           UNCHANGED <<sent, stream, dgrams, delivered>>,
           loop' = loop \/ loop'.pc = "read",
           \A id \in Ids : UdDistinct(waiting'[id]) /\ Range(waiting'[id]) \subseteq Range(waiting[id])
    PROVE  UdHeld'
  <1>1. bound[u][i] \in Targets \cup {None}
    BY DEF UdTyped, UdBindOK
  <1>2. CASE bound[u][i] # None /\ Len(queue[u]) < UDP_RECEIVE_QUEUE_CAPACITY
    <2>1. PICK t \in Targets : t = bound[u][i]
      BY <1>1, <1>2
    <2>2. p.s = u /\ p.t = t
      <3>1. UdTold(i, u, t)
        BY <2>1 DEF UdTold
      <3> QED
        BY <3>1, UdSameTarget
    <2>a. PICK a : a = <<t, p>>
      OBVIOUS
    <2>3. a = <<t, p>> /\ a \in Targets \X Packet /\ a[1] = t /\ a[2] = p
      BY <2>1, <2>a
    <2>4. queue' = [queue EXCEPT ![u] = Append(queue[u], a)]
      BY <1>2, <2>1, <2>3 DEF Feed
    <2>5. \A x \in Sessions : Arrived(x)' = IF x = u THEN Append(Arrived(u), a) ELSE Arrived(x)
      BY <2>3, <2>4, UdArrivedGrows
    <2>6. ~UdAt(<<"arrived", u>>, p)
      <3>1. <<"arrived", u>> \in UdPlaces /\ <<"arrived", u>> # x0
        BY DEF UdPlaces
      <3> QED
        BY <3>1 DEF UdHeld, UdPlaced
    <2>7. /\ \A x \in Sessions : UdDistinct(Arrived(x)')
          /\ UdRight'
          /\ \A x \in Sessions, v \in Targets, q \in Packet :
               <<v, q>> \in Range(Arrived(x)') => <<v, q>> \in Range(Arrived(x)) \/ (x = u /\ q = p)
      BY <2>2, <2>3, <2>5, <2>6, UdLinearGrows
    <2>8. UdGains(<<"arrived", u>>, p)
      BY <2>7 DEF UdGains
    <2>9. UdPlaced'
      BY <2>8, UdPlacedMoves DEF UdHeld
    <2>10. UdLinear'
      BY <2>7 DEF UdHeld, UdLinear
    <2> QED
      BY <2>7, <2>9, <2>10 DEF UdHeld
  <1>3. CASE ~(bound[u][i] # None /\ Len(queue[u]) < UDP_RECEIVE_QUEUE_CAPACITY)
    <2>1. \A x \in Sessions : Arrived(x)' = Arrived(x)
      BY <1>3, UdArrivedStill DEF Feed
    <2>2. UdGains(<<>>, 0)
      BY <2>1 DEF UdGains
    <2>3. UdPlaced'
      BY <2>2, UdPlacedLess DEF UdHeld
    <2>4. UdLinear' /\ UdRight'
      BY <2>1 DEF UdHeld, UdLinear, UdRight
    <2> QED
      BY <2>3, <2>4 DEF UdHeld
  <1> QED
    BY <1>2, <1>3

\* the datagram loop to the owner or to the buffer of its id,
LEMMA UdDatagramsHeld ==
    ASSUME UdTyped, UdOneOwner, UdHeld, LoseDatagram \/ DatagramLoop
    PROVE  UdHeld'
  <1>0. /\ waiting \in [Ids -> Seq(Packet)] /\ dgrams \subseteq Ids \X Packet
        /\ loop.pc # "read" => loop.id \in Ids /\ loop.p \in Packet
        /\ loop.pc = "feed" => loop.s \in Sessions
        /\ <<"loop", 0>> \in UdPlaces
    BY DEF UdTyped, UdDgramOK, UdLinkOK, UdPlaces
  <1>u. UNCHANGED <<sent, stream, delivered>>
    BY DEF LoseDatagram, DatagramLoop, ReadDatagram, FeedDatagram, BufferDatagram, linkVars, sendVars
  <1>1. CASE FeedDatagram
    <2>1. PICK i \in Ids, u \in Sessions, p \in Packet : i = loop.id /\ u = loop.s /\ p = loop.p
      BY <1>1, <1>0 DEF FeedDatagram
    <2>2. loop.pc = "feed" /\ loop'.pc = "read" /\ Feed(u, i, p) /\ UNCHANGED <<dgrams, waiting>>
      BY <1>1, <2>1, UdLoopIdle DEF FeedDatagram, linkVars
    <2>3. UdUnder(i, p) /\ UdAt(<<"loop", 0>>, p) /\ ~UdAt(<<"loop", 0>>, p)'
      BY <2>1, <2>2 DEF UdUnder, UdAt
    <2>4. \A id \in Ids : UdDistinct(waiting'[id]) /\ Range(waiting'[id]) \subseteq Range(waiting[id])
      BY <2>2 DEF UdHeld, UdLinear
    <2>5. <<"loop", 0>>[1] # "arrived"
      OBVIOUS
    <2> QED
      BY <2>2, <2>3, <2>4, <2>5, <1>0, <1>u, UdFeedHeld
  <1>2. CASE ~FeedDatagram
    <2>a. \A x \in Sessions : Arrived(x)' = Arrived(x)
      <3>1. UNCHANGED queue
        BY <1>2 DEF LoseDatagram, DatagramLoop, ReadDatagram, BufferDatagram
      <3> QED
        BY <3>1, <1>u, UdArrivedStill
    <2>r. UdRight'
      BY <2>a DEF UdHeld, UdRight
    <2>1. CASE LoseDatagram
      <3>1. UdGains(<<>>, 0)
        BY <2>1, <2>a, <1>u DEF LoseDatagram, UdGains, dgVars
      <3>2. UdPlaced'
        BY <3>1, <1>u, UdPlacedLess DEF UdHeld
      <3>3. UdLinear'
        BY <2>1, <2>a, <1>u DEF LoseDatagram, dgVars, UdHeld, UdLinear
      <3> QED
        BY <2>r, <3>2, <3>3 DEF UdHeld
    <2>2. CASE ReadDatagram
      <3>1. PICK e \in dgrams : dgrams' = dgrams \ {e} /\ loop'.p = e[2] /\ loop.pc = "read" /\ waiting' = waiting
        BY <2>2 DEF ReadDatagram
      <3>2. PICK i \in Ids, p \in Packet : e = <<i, p>> /\ i = e[1] /\ p = e[2]
        BY <1>0
      <3>3. <<"dgram", i>> \in UdPlaces /\ UdAt(<<"dgram", i>>, p) /\ ~UdAt(<<"dgram", i>>, p)'
        BY <3>1, <3>2 DEF UdPlaces, UdAt
      <3>4. UdGains(<<"loop", 0>>, p)
        BY <3>1, <3>2, <2>a, <1>u DEF UdGains
      <3>5. UdPlaced'
        BY <3>2, <3>3, <3>4, <1>u, UdPlacedMoves DEF UdHeld
      <3>6. UdLinear'
        BY <3>1, <2>a, <1>u DEF UdHeld, UdLinear
      <3> QED
        BY <2>r, <3>5, <3>6 DEF UdHeld
    <2>3. CASE BufferDatagram
      <3>1. PICK i \in Ids, p \in Packet : i = loop.id /\ p = loop.p
        BY <2>3, <1>0 DEF BufferDatagram
      <3>2. loop.pc = "buffer" /\ loop'.pc = "read" /\ dgrams' = dgrams
        BY <2>3, UdLoopIdle DEF BufferDatagram, linkVars
      <3>3. UdAt(<<"loop", 0>>, p) /\ ~UdAt(<<"loop", 0>>, p)'
        BY <3>1, <3>2 DEF UdAt
      <3>4. waiting' = waiting \/ waiting' = [waiting EXCEPT ![i] = Append(waiting[i], p)]
        BY <2>3, <3>1 DEF BufferDatagram, IntoBuffer
      <3>5. p \notin Range(waiting[i])
        <4>1. <<"waiting", i>> \in UdPlaces /\ <<"waiting", i>> # <<"loop", 0>>
          BY DEF UdPlaces
        <4>2. ~UdAt(<<"waiting", i>>, p)
          BY <3>1, <3>3, <4>1, <1>0 DEF UdHeld, UdPlaced
        <4> QED
          BY <4>2 DEF UdAt
      <3>6. /\ Range(Append(waiting[i], p)) = Range(waiting[i]) \cup {p}
            /\ UdDistinct(Append(waiting[i], p))
        <4>1. waiting[i] \in Seq(Packet) /\ UdDistinct(waiting[i])
          BY <1>0 DEF UdHeld, UdLinear
        <4> QED
          BY <3>1, <3>5, <4>1, UdAppends
      <3>7. \A id \in Ids : waiting'[id] = waiting[id] \/ (id = i /\ waiting'[id] = Append(waiting[i], p))
        BY <3>4, <1>0
      <3>8. UdGains(<<"waiting", i>>, p)
        BY <3>2, <3>6, <3>7, <2>a, <1>u DEF UdGains
      <3>9. UdPlaced'
        BY <3>1, <3>3, <3>8, <1>0, <1>u, UdPlacedMoves DEF UdHeld
      <3>10. UdLinear'
        BY <3>6, <3>7, <2>a, <1>u DEF UdHeld, UdLinear
      <3> QED
        BY <2>r, <3>9, <3>10 DEF UdHeld
    <2> QED
      BY <1>2, <2>1, <2>2, <2>3 DEF DatagramLoop
  <1> QED
    BY <1>1, <1>2

\* the handler from that buffer to the owner,
LEMMA UdHandlersHeld ==
    ASSUME UdTyped, UdOneOwner, UdHeld, NEW i \in Ids, Handler(i) \/ HandlerTimeout(i)
    PROVE  UdHeld'
  <1>0. waiting \in [Ids -> Seq(Packet)] /\ (handler[i].pc = "run" => handler[i].s \in Sessions)
    BY DEF UdTyped, UdDgramOK
  <1>u. UNCHANGED <<sent, stream, dgrams, loop, delivered>>
    BY DEF Handler, HandlerReceiver, HandlerTimeout, HandlerFeed, HandlerCloses, HandlerEnds, linkVars, sendVars
  <1>1. CASE HandlerFeed(i)
    <2>1. PICK d \in Seq(Packet) : d = waiting[i]
      BY <1>0
    <2>2. PICK p : p = Head(d)
      OBVIOUS
    <2>3. PICK u \in Sessions : u = handler[i].s
      BY <1>1, <1>0 DEF HandlerFeed
    <2>4. d # <<>> /\ waiting' = [waiting EXCEPT ![i] = Tail(d)] /\ Feed(u, i, p)
      BY <1>1, <2>1, <2>2, <2>3 DEF HandlerFeed
    <2>5. UdDistinct(d)
      BY <2>1 DEF UdHeld, UdLinear
    <2>6. /\ p \in Packet /\ p \in Range(d) /\ Tail(d) \in Seq(Packet) /\ Range(Tail(d)) \subseteq Range(d)
          /\ UdDistinct(Tail(d)) /\ p \notin Range(Tail(d))
      BY <2>1, <2>2, <2>4, <2>5, UdTails
    <2>7. \A id \in Ids : waiting'[id] = IF id = i THEN Tail(d) ELSE waiting[id]
      BY <2>4, <1>0
    <2>8. /\ UdUnder(i, p) /\ UdAt(<<"waiting", i>>, p) /\ ~UdAt(<<"waiting", i>>, p)'
      BY <2>1, <2>6, <2>7 DEF UdUnder, UdAt
    <2>9. \A id \in Ids : UdDistinct(waiting'[id]) /\ Range(waiting'[id]) \subseteq Range(waiting[id])
      BY <2>1, <2>6, <2>7 DEF UdHeld, UdLinear
    <2>10. <<"waiting", i>> \in UdPlaces /\ <<"waiting", i>>[1] # "arrived"
      BY DEF UdPlaces
    <2> QED
      BY <2>4, <2>6, <2>8, <2>9, <2>10, <1>u, UdFeedHeld
  <1>2. CASE ~HandlerFeed(i)
    <2>1. \A x \in Sessions : Arrived(x)' = Arrived(x)
      <3>1. UNCHANGED queue
        BY <1>2 DEF Handler, HandlerReceiver, HandlerTimeout, HandlerCloses, HandlerEnds
      <3> QED
        BY <3>1, <1>u, UdArrivedStill
    <2>2. \A id \in Ids : waiting'[id] = waiting[id] \/ waiting'[id] = <<>>
      BY <1>2, <1>0 DEF Handler, HandlerReceiver, HandlerTimeout, HandlerCloses, HandlerEnds
    <2>3. Range(<<>>) = {} /\ UdDistinct(<<>>)
      BY DEF Range, UdDistinct
    <2>4. UdGains(<<>>, 0)
      BY <2>1, <2>2, <2>3, <1>u DEF UdGains
    <2>5. UdPlaced'
      BY <2>4, <1>u, UdPlacedLess DEF UdHeld
    <2>6. UdLinear'
      BY <2>1, <2>2, <2>3, <1>u DEF UdHeld, UdLinear
    <2>7. UdRight'
      BY <2>1 DEF UdHeld, UdRight
    <2> QED
      BY <2>5, <2>6, <2>7 DEF UdHeld
  <1> QED
    BY <1>1, <1>2

\* and hence every step keeps every packet on its way to its own receiver.
LEMMA UdKeepsHeld ==
    ASSUME UdTyped, UdOneOwner, UdHeld, [Next]_vars
    PROVE  UdHeld'
  <1>1. CASE UNCHANGED vars
    BY <1>1, UdArrivedStill, UdHeldStill DEF vars
  <1>2. CASE Next
    BY <1>1, <1>2, UdSendsHeld, UdListensHeld, UdWorkersHeld, UdDatagramsHeld, UdHandlersHeld
    DEF Next, Timeout, Ended
  <1> QED
    BY <1>1, <1>2

-----------------------------------------------------------------------------
(* The waiting buffers *)

\* There are finitely many ids.
LEMMA UdFiniteIds == IsFiniteSet(Ids)
  <1>1. 1 \in Int /\ MAX_ID \in Int
    BY UdpAssumption
  <1>2. IsFiniteSet(1 .. MAX_ID)
    BY <1>1, FS_Interval
  <1> QED
    BY <1>2 DEF Ids

\* Fewer buffers keep the bound,
LEMMA UdFewer ==
    ASSUME BoundedWaiting, Buffers' \subseteq Buffers,
           \A id \in Ids : waiting'[id] # <<>> => waiting[id] # <<>> /\ id \in Buffers'
    PROVE  BoundedWaiting'
  <1>2. IsFiniteSet(Buffers)
    BY UdFiniteIds, FS_Subset DEF Buffers
  <1>3. Cardinality(Buffers') <= Cardinality(Buffers) /\ Cardinality(Buffers') \in Nat /\ Cardinality(Buffers) \in Nat
    BY <1>2, FS_Subset, FS_CardinalityType
  <1>4. Cardinality(Buffers') <= MAX_WAITING_DATAGRAM_CONTEXTS
    BY <1>3, UdpAssumption DEF BoundedWaiting
  <1> QED
    BY <1>4 DEF BoundedWaiting

\* and no step has too many.
LEMMA UdBuffers ==
    ASSUME UdTyped, BoundedWaiting, [Next]_vars
    PROVE  BoundedWaiting'
  <1>0. /\ waiting \in [Ids -> Seq(Packet)] /\ handler \in [Ids -> HandlerState]
        /\ loop.pc # "read" => loop.id \in Ids
    BY DEF UdTyped, UdDgramOK
  <1>1. CASE UNCHANGED <<handler, waiting>>
    BY <1>1, UdFewer DEF BoundedWaiting, Buffers
  <1>2. CASE BufferDatagram /\ ~UNCHANGED <<handler, waiting>>
    <2>1. loop.id \in Ids /\ IntoBuffer /\ (loop.id \in Buffers \/ Cardinality(Buffers) < MAX_WAITING_DATAGRAM_CONTEXTS)
      BY <1>2, <1>0 DEF BufferDatagram
    <2>2. \A id \in Ids : waiting'[id] # <<>> => waiting[id] # <<>> \/ id = loop.id
      BY <2>1, <1>0 DEF IntoBuffer
    <2>3. Buffers' = Buffers \cup {loop.id}
      BY <2>1, <1>0 DEF IntoBuffer, Buffers
    <2>4. IsFiniteSet(Buffers)
      BY UdFiniteIds, FS_Subset DEF Buffers
    <2>5. Cardinality(Buffers') <= MAX_WAITING_DATAGRAM_CONTEXTS
      <3>1. CASE loop.id \in Buffers
        BY <2>3, <3>1 DEF BoundedWaiting
      <3>2. CASE loop.id \notin Buffers
        <4>1. Cardinality(Buffers \cup {loop.id}) = Cardinality(Buffers) + 1 /\ Cardinality(Buffers) \in Nat
          BY <2>4, <3>2, FS_AddElement, FS_CardinalityType
        <4> QED
          BY <2>1, <2>3, <3>2, <4>1, UdpAssumption
      <3> QED
        BY <3>1, <3>2
    <2> QED
      BY <2>2, <2>3, <2>5 DEF BoundedWaiting
  <1>3. ASSUME NEW i \in Ids, Handler(i) \/ HandlerTimeout(i) PROVE BoundedWaiting'
    <2>1. CASE HandlerEnds(i)
      <3>1. /\ \A id \in Ids : id # i => handler'[id] = handler[id] /\ waiting'[id] = waiting[id]
            /\ handler'[i].pc = "none" /\ waiting'[i] = <<>>
        BY <2>1, <1>0 DEF HandlerEnds
      <3>2. Buffers' \subseteq Buffers /\ \A id \in Ids : waiting'[id] # <<>> => waiting[id] # <<>> /\ id \in Buffers'
        BY <3>1 DEF BoundedWaiting, Buffers
      <3> QED
        BY <3>2, UdFewer
    <2>2. CASE HandlerReceiver(i)
      <3>1. Buffers' = Buffers /\ waiting' = waiting
        BY <2>2, <1>0 DEF HandlerReceiver, Buffers
      <3> QED
        BY <3>1, UdFewer DEF BoundedWaiting
    <2>3. CASE HandlerTimeout(i) \/ HandlerCloses(i) \/ HandlerFeed(i)
      <3>1. handler' = handler \/ handler' = [handler EXCEPT ![i] = [handler[i] EXCEPT !.pc = "end"]]
        BY <2>3 DEF HandlerTimeout, HandlerCloses, HandlerFeed
      <3>2. handler[i] \in HandlerState /\ handler[i].pc # "none"
        BY <2>3, <1>0 DEF HandlerTimeout, HandlerCloses, HandlerFeed
      <3>3. Buffers' = Buffers
        <4>1. PICK h : h = [handler[i] EXCEPT !.pc = "end"]
          OBVIOUS
        <4>2. h.pc = "end"
          BY <4>1, <3>2, UdHandlerSet
        <4> QED
          BY <3>1, <3>2, <4>1, <4>2, <1>0 DEF Buffers
      <3>4. \A id \in Ids : waiting'[id] # <<>> => waiting[id] # <<>>
        BY <2>3, <1>0 DEF HandlerTimeout, HandlerCloses, HandlerFeed
      <3> QED
        BY <3>3, <3>4, UdFewer DEF BoundedWaiting
    <2> QED
      BY <1>3, <2>1, <2>2, <2>3 DEF Handler
  <1>4. UNCHANGED <<handler, waiting>> \/ BufferDatagram \/ \E i \in Ids : Handler(i) \/ HandlerTimeout(i)
    <2>1. ASSUME NEW s \in Sessions, OpenSession(s) \/ (\E t \in Targets : SendTo(s, t)) \/ SendSide(s) \/ DropSession(s)
          PROVE  UNCHANGED <<handler, waiting>>
      BY <2>1 DEF OpenSession, SendTo, SendSide, GetSendContextId, Announce, OpenUni, Write, WriteStopped, DropSession, dgVars
    <2>2. ASSUME NEW s \in Sessions, Listener(s) \/ RelayCloses(s) \/ Receive(s) PROVE UNCHANGED <<handler, waiting>>
      BY <2>2 DEF Listener, Bind, ListenerEnds, CleanUnbind, CleanUnmap, CleanDone, RelayCloses, Receive, dgVars
    <2>3. ASSUME NEW id \in Ids, Worker(id) \/ UniTimeout(id) PROVE UNCHANGED <<handler, waiting>>
      BY <2>3 DEF Worker, AcceptUni, UniReceiver, RunWorker, WorkerDeliver, WorkerEnds, WorkerUnbind, WorkerUnmap, WorkerLast,
                  UniTimeout, dgVars
    <2>4. LoseDatagram \/ ReadDatagram \/ FeedDatagram \/ Ended \/ UNCHANGED vars => UNCHANGED <<handler, waiting>>
      BY DEF LoseDatagram, ReadDatagram, FeedDatagram, Ended, vars, dgVars
    <2> QED
      BY <2>1, <2>2, <2>3, <2>4 DEF Next, Timeout, DatagramLoop
  <1> QED
    BY <1>1, <1>2, <1>3, <1>4

-----------------------------------------------------------------------------
UdInv == UdTyped /\ UdOneOwner /\ UdHeld /\ BoundedWaiting

\* The invariant holds at first,
LEMMA UdInitially == Init => UdInv
  <1> SUFFICES ASSUME Init PROVE UdInv
    OBVIOUS
  <1> USE UdpAssumption
  <1>e. /\ \A S : <<>> \in Seq(S)
        /\ Len(<<>>) = 0 /\ Range(<<>>) = {} /\ UdDistinct(<<>>)
    BY EmptySeq DEF Range, UdDistinct
  <1>1. UdSendOK
    BY UdIdle DEF Init, UdSendOK, UdCallOK
  <1>2. UdLinkOK
    <2>1. [st |-> "none", data |-> <<>>] \in Stream
      BY <1>e DEF Stream
    <2> QED
      BY <1>e, <2>1 DEF Init, UdLinkOK
  <1>3. UdBindOK
    BY DEF Init, UdBindOK
  <1>4. UdWorkerOK
    BY DEF Init, UdWorkerOK, WorkerState
  <1>5. UdDgramOK
    BY <1>e, UdLoopIdle DEF Init, UdDgramOK, HandlerState
  <1>6. UdQueueOK
    BY <1>e DEF Init, UdQueueOK
  <1>a. \A s \in Sessions : Arrived(s) = <<>>
    BY DEF Init, Arrived
  <1>7. UdOneOwner
    <2> SUFFICES ASSUME NEW id \in Ids, NEW s \in Sessions, NEW t \in Targets, UdOwns(id, s, t)
                 PROVE  FALSE
      BY DEF UdOneOwner
    <2>1. id # 0 /\ t # None
      BY DEF Ids
    <2>2. ~UdSaid(id, s, t)
      BY <2>1, UdIdle DEF Init, UdSaid
    <2>3. ~UdTold(id, s, t)
      BY <2>1, <1>e DEF Init, UdTold
    <2>4. ~UdRuns(id, s, t)
      BY DEF Init, UdRuns
    <2>5. ~UdCarries(id, s, t)
      BY <1>e, UdLoopIdle DEF Init, UdCarries, UdUnder
    <2> QED
      BY <2>2, <2>3, <2>4, <2>5 DEF UdOwns
  <1>8. UdPlaced
    <2> SUFFICES ASSUME NEW x \in UdPlaces, NEW p \in Packet, UdAt(x, p) PROVE FALSE
      BY DEF UdPlaced
    <2>1. \A i \in Ids : stream[i].data = <<>> /\ waiting[i] = <<>>
      BY DEF Init
    <2>2. dgrams = {} /\ loop.pc = "read"
      BY UdLoopIdle DEF Init
    <2>3. \A s \in Sessions : Range(Arrived(s)) = {}
      BY <1>a, <1>e
    <2>4. CASE x[1] = "arrived"
      BY <2>3, <2>4 DEF UdAt, UdPlaces
    <2>5. CASE x[1] # "arrived"
      BY <2>1, <2>2, <2>5, <1>e DEF UdAt, UdPlaces
    <2> QED
      BY <2>4, <2>5
  <1>9. UdLinear /\ UdRight
    BY <1>a, <1>e DEF Init, UdLinear, UdRight
  <1>10. BoundedWaiting
    <2>1. Buffers = {}
      BY DEF Init, Buffers
    <2> QED
      BY <2>1, FS_EmptySet DEF Init, BoundedWaiting
  <1> QED
    BY <1>1, <1>2, <1>3, <1>4, <1>5, <1>6, <1>7, <1>8, <1>9, <1>10 DEF UdInv, UdTyped, UdHeld

\* and always.
LEMMA UdInvariant == Spec => []UdInv
  <1>1. UdInv /\ [Next]_vars => UdInv'
    BY UdTypes, UdOwner, UdKeepsHeld, UdBuffers DEF UdInv
  <1> QED
    BY <1>1, UdInitially, PTL DEF Spec

\* For any number of sessions, targets, ids and packets, over streams and over datagrams: a
\* packet reaches the session and the target it was sent to, and at most once.
THEOREM UdDelivers == Spec => []RightReceiver
  <1>1. UdInv => RightReceiver
    <2> SUFFICES ASSUME UdInv, NEW s \in Sessions, NEW i \in DOMAIN Arrived(s)
                 PROVE  LET a == Arrived(s)[i] IN
                        /\ a[2].s = s /\ a[2].t = a[1] /\ a[2].n <= sent[s][a[1]]
                        /\ \A j \in DOMAIN Arrived(s) : Arrived(s)[j] = a => i = j
      BY DEF RightReceiver
    <2>1. PICK a : a = Arrived(s)[i]
      OBVIOUS
    <2>2. a \in Range(Arrived(s)) /\ a \in Targets \X Packet
      <3>1. PICK r \in Seq(Targets \X Packet) : r = Arrived(s)
        BY UdArrivedType DEF UdInv
      <3>2. r[i] \in Targets \X Packet
        BY <3>1, ElementOfSeq, LenProperties
      <3> QED
        BY <2>1, <3>1, <3>2 DEF Range
    <2>3. a[2].s = s /\ a[2].t = a[1]
      BY <2>2 DEF UdInv, UdHeld, UdRight
    <2>4. a[2].n <= sent[s][a[1]]
      <3>1. <<"arrived", s>> \in UdPlaces /\ a[1] \in Targets /\ a[2] \in Packet /\ a = <<a[1], a[2]>>
        BY <2>2 DEF UdPlaces
      <3>2. UdAt(<<"arrived", s>>, a[2])
        BY <2>2, <3>1 DEF UdAt
      <3> QED
        BY <2>3, <3>1, <3>2 DEF UdInv, UdHeld, UdPlaced
    <2>5. \A j \in DOMAIN Arrived(s) : Arrived(s)[j] = a => i = j
      BY <2>1 DEF UdInv, UdHeld, UdLinear, UdDistinct
    <2> QED
      BY <2>1, <2>3, <2>4, <2>5
  <1> QED
    BY <1>1, UdInvariant, PTL

\* For every bound on the buffers: no more ids have one than the code allows, and a packet
\* waits only in one.
THEOREM UdBounded == Spec => []BoundedWaiting
  <1>1. UdInv => BoundedWaiting
    BY DEF UdInv
  <1> QED
    BY <1>1, UdInvariant, PTL

-----------------------------------------------------------------------------
(* Sessions over streams *)

\* Over streams: no datagram is sent; a target has one stream with unread packets, the one its
\* sender holds; a stream's state follows its sender and its worker; ...
UdNoDgrams == dgrams = {} /\ loop.pc = "read" /\ \A id \in Ids : waiting[id] = <<>>

UdOneStream ==
    \A id \in Ids, p \in Packet : p \in Range(stream[id].data) =>
        /\ session[p.s] \in {"open", "dropped"}
        /\ session[p.s] = "open" => cell[p.s][p.t] = id
        /\ \A j \in Ids, q \in Packet :
             q \in Range(stream[j].data) /\ q.s = p.s /\ q.t = p.t => j = id

UdSender(s, c) ==
    /\ c.pc = "write" => cell[s][c.t] = c.id
    /\ c.pc \in {"announce", "open"} => cell[s][c.t] = 0 /\ stream[c.id].st = "none"

UdSenders ==
    /\ \A s \in Sessions : UdSender(s, call[s]) /\ \A t \in Targets : cell[s][t] # 0 => stream[cell[s][t]].st # "none"
    /\ \A id \in Ids :
         /\ id >= nextId => stream[id].st = "none"
         /\ worker[id].pc # "none" => stream[id].st # "none"
         /\ stream[id].st \in {"none", "stopped"} => stream[id].data = <<>>

\* ... the packets of a target are in order, those of its stream after those that arrived, ...
UdRising(q) == \A i, j \in DOMAIN q : i < j => q[i].n < q[j].n
UdInOrder(q) == \A i, j \in DOMAIN q : i < j /\ q[i][1] = q[j][1] => q[i][2].n < q[j][2].n

UdOrdered ==
    /\ \A id \in Ids : UdRising(stream[id].data)
    /\ \A s \in Sessions : UdInOrder(Arrived(s))
    /\ \A s \in Sessions, t \in Targets, a \in Packet, id \in Ids, p \in Packet :
         <<t, a>> \in Range(Arrived(s)) /\ p \in Range(stream[id].data) /\ p.s = s /\ p.t = t
             => a.n < p.n

\* ... and none is lost while no stream was stopped.
UdNoneStopped == \A id \in Ids : stream[id].st # "stopped"

UdComplete ==
    UdNoneStopped =>
        \A p \in Packet : 1 <= p.n /\ p.n <= sent[p.s][p.t] =>
            \/ <<p.t, p>> \in Range(Arrived(p.s))
            \/ \E id \in Ids : p \in Range(stream[id].data)

UdInSequence == UdNoDgrams /\ UdSenders /\ UdOneStream /\ UdOrdered /\ UdComplete

\* Taking the head of a rising sequence leaves one that rises beyond it,
LEMMA UdRisingTails ==
    ASSUME NEW S, NEW q \in Seq(S), q # <<>>, UdRising(q)
    PROVE  UdRising(Tail(q)) /\ \A e \in Range(Tail(q)) : Head(q).n < e.n
  <1>1. /\ Len(q) \in Nat \ {0} /\ DOMAIN q = 1 .. Len(q) /\ DOMAIN Tail(q) = 1 .. Len(q) - 1
        /\ \A i \in 1 .. Len(q) - 1 : Tail(q)[i] = q[i + 1]
    BY HeadTailProperties, LenProperties, EmptySeq
  <1>2. Head(q) = q[1] /\ 1 \in DOMAIN q
    BY <1>1
  <1>3. \A i \in DOMAIN Tail(q) : i + 1 \in DOMAIN q /\ 1 < i + 1 /\ Tail(q)[i] = q[i + 1]
    BY <1>1
  <1>4. \A e \in Range(Tail(q)) : Head(q).n < e.n
    BY <1>2, <1>3 DEF Range, UdRising
  <1>5. UdRising(Tail(q))
    <2> SUFFICES ASSUME NEW i \in DOMAIN Tail(q), NEW j \in DOMAIN Tail(q), i < j PROVE Tail(q)[i].n < Tail(q)[j].n
      BY DEF UdRising
    <2>1. i + 1 < j + 1
      BY <1>1
    <2> QED
      BY <1>3, <2>1 DEF UdRising
  <1> QED
    BY <1>4, <1>5

\* appending a later packet to it,
LEMMA UdRisingAppends ==
    ASSUME NEW S, NEW q \in Seq(S), NEW e \in S, UdRising(q), \A f \in Range(q) : f.n < e.n
    PROVE  UdRising(Append(q, e))
  <1>1. /\ Len(q) \in Nat /\ DOMAIN q = 1 .. Len(q) /\ DOMAIN Append(q, e) = 1 .. Len(q) + 1
        /\ \A i \in 1 .. Len(q) : Append(q, e)[i] = q[i]
        /\ Append(q, e)[Len(q) + 1] = e
    BY AppendProperties, LenProperties
  <1> SUFFICES ASSUME NEW i \in DOMAIN Append(q, e), NEW j \in DOMAIN Append(q, e), i < j
               PROVE  Append(q, e)[i].n < Append(q, e)[j].n
    BY DEF UdRising
  <1>2. i \in DOMAIN q /\ (j \in DOMAIN q \/ j = Len(q) + 1)
    BY <1>1
  <1> QED
    BY <1>1, <1>2 DEF UdRising, Range

\* and appending the latest of its target to what arrived keep the order.
LEMMA UdInOrderAppends ==
    ASSUME NEW S, NEW q \in Seq(S), NEW e \in S, UdInOrder(q), \A f \in Range(q) : f[1] = e[1] => f[2].n < e[2].n
    PROVE  UdInOrder(Append(q, e))
  <1>1. /\ Len(q) \in Nat /\ DOMAIN q = 1 .. Len(q) /\ DOMAIN Append(q, e) = 1 .. Len(q) + 1
        /\ \A i \in 1 .. Len(q) : Append(q, e)[i] = q[i]
        /\ Append(q, e)[Len(q) + 1] = e
    BY AppendProperties, LenProperties
  <1> SUFFICES ASSUME NEW i \in DOMAIN Append(q, e), NEW j \in DOMAIN Append(q, e), i < j,
                      Append(q, e)[i][1] = Append(q, e)[j][1]
               PROVE  Append(q, e)[i][2].n < Append(q, e)[j][2].n
    BY DEF UdInOrder
  <1>2. i \in DOMAIN q /\ (j \in DOMAIN q \/ j = Len(q) + 1)
    BY <1>1
  <1> QED
    BY <1>1, <1>2 DEF UdInOrder, Range

\* No packet moves and no stream is stopped.
LEMMA UdInOrderStill ==
    ASSUME UdOrdered, UdComplete, \A id \in Ids : stream'[id].data = stream[id].data, sent' = sent,
           \A s \in Sessions : Arrived(s)' = Arrived(s), UdNoneStopped' => UdNoneStopped
    PROVE  UdOrdered' /\ UdComplete'
  <1>1. UdOrdered'
    BY DEF UdOrdered
  <1>2. UdComplete'
    <2> SUFFICES ASSUME UdNoneStopped', NEW p \in Packet, 1 <= p.n, p.n <= sent'[p.s][p.t]
                 PROVE  <<p.t, p>> \in Range(Arrived(p.s)') \/ \E id \in Ids : p \in Range(stream'[id].data)
      BY DEF UdComplete
    <2>1. p.s \in Sessions
      BY DEF Packet
    <2> QED
      BY <2>1 DEF UdComplete
  <1> QED
    BY <1>1, <1>2

\* Nothing of the sending end and of the streams changes.
LEMMA UdInSequenceStill ==
    ASSUME UdInSequence, UNCHANGED <<nextId, session, cell, call, sent, stream, worker>>, UdNoDgrams',
           \A s \in Sessions : Arrived(s)' = Arrived(s)
    PROVE  UdInSequence'
  <1>1. UdSenders'
    BY DEF UdInSequence, UdSenders, UdSender
  <1>2. UdOneStream'
    BY DEF UdInSequence, UdOneStream
  <1>3. UdOrdered' /\ UdComplete'
    BY UdInOrderStill DEF UdInSequence, UdNoneStopped
  <1> QED
    BY <1>1, <1>2, <1>3 DEF UdInSequence

\* The listener keeps the order of a target's packets,
LEMMA UdListensInSequence ==
    ASSUME UdInv, UdInSequence, NEW s \in Sessions, Listener(s) \/ RelayCloses(s) \/ Receive(s)
    PROVE  UdInSequence'
  <1>1. UNCHANGED <<nextId, session, cell, call, sent, stream, worker, dgrams, loop, waiting>>
    BY DEF Listener, Bind, ListenerEnds, CleanUnbind, CleanUnmap, CleanDone, RelayCloses, Receive, linkVars, sendVars, dgVars
  <1>2. \A u \in Sessions : Arrived(u)' = Arrived(u)
    <2>1. CASE Receive(s)
      BY <2>1, UdArrivedReceives DEF UdInv
    <2>2. CASE ~Receive(s)
      <3>1. UNCHANGED <<queue, delivered>>
        BY <2>2 DEF Listener, Bind, ListenerEnds, CleanUnbind, CleanUnmap, CleanDone, RelayCloses
      <3> QED
        BY <3>1, UdArrivedStill
    <2> QED
      BY <2>1, <2>2
  <1>3. UdNoDgrams'
    BY <1>1 DEF UdInSequence, UdNoDgrams
  <1> QED
    BY <1>1, <1>2, <1>3, UdInSequenceStill

\* the datagram loop has none of them over streams,
LEMMA UdDatagramsInSequence ==
    ASSUME UdInv, UdInSequence, LoseDatagram \/ DatagramLoop \/ \E i \in Ids : Handler(i) \/ HandlerTimeout(i)
    PROVE  UdInSequence'
  <1>1. PICK i \in Ids : HandlerReceiver(i) \/ HandlerCloses(i) \/ HandlerEnds(i) \/ HandlerTimeout(i)
    BY DEF UdInSequence, UdNoDgrams, LoseDatagram, DatagramLoop, ReadDatagram, FeedDatagram, BufferDatagram, Handler, HandlerFeed
  <1>2. UNCHANGED <<nextId, session, cell, call, sent, stream, worker, dgrams, loop, queue, delivered>>
    BY <1>1 DEF HandlerReceiver, HandlerCloses, HandlerEnds, HandlerTimeout, linkVars, sendVars
  <1>3. \A id \in Ids : waiting'[id] = <<>>
    BY <1>1 DEF HandlerReceiver, HandlerCloses, HandlerEnds, HandlerTimeout, UdInSequence, UdNoDgrams, UdInv, UdTyped, UdDgramOK
  <1>4. UdNoDgrams'
    BY <1>2, <1>3 DEF UdInSequence, UdNoDgrams
  <1> QED
    BY <1>2, <1>4, UdArrivedStill, UdInSequenceStill

\* the worker takes the next one of the only stream that has any,
LEMMA UdWorkersInSequence ==
    ASSUME UdInv, UdInSequence, NEW i \in Ids, Worker(i) \/ UniTimeout(i)
    PROVE  UdInSequence'
  <1>0. /\ stream \in [Ids -> Stream] /\ stream[i] \in Stream /\ worker \in [Ids -> WorkerState]
        /\ worker[i].pc = "run" => worker[i].s \in Sessions /\ worker[i].t \in Targets
        /\ UdTyped /\ UdOneOwner /\ UdHeld
    BY DEF UdInv, UdTyped, UdLinkOK, UdWorkerOK
  <1>u. UNCHANGED <<nextId, session, cell, call, sent, dgrams, loop, waiting, delivered>>
    BY DEF Worker, AcceptUni, UniReceiver, RunWorker, WorkerDeliver, WorkerEnds, WorkerUnbind, WorkerUnmap,
           WorkerLast, UniTimeout, linkVars, sendVars, dgVars
  <1>d. UdNoDgrams'
    BY <1>u DEF UdInSequence, UdNoDgrams
  <1>w. \A id \in Ids : id # i => worker'[id] = worker[id]
    BY <1>0 DEF Worker, AcceptUni, UniReceiver, RunWorker, WorkerDeliver, WorkerEnds, WorkerUnbind, WorkerUnmap,
                WorkerLast, UniTimeout, SetWorker
  <1>n. stream[i].st # "none"
    <2>1. worker[i].pc # "none" \/ stream[i].st \in {"open", "finished"}
      BY DEF Worker, AcceptUni, UniReceiver, RunWorker, WorkerDeliver, WorkerEnds, WorkerUnbind, WorkerUnmap,
             WorkerLast, UniTimeout
    <2> QED
      BY <2>1 DEF UdInSequence, UdSenders
  <1>1. CASE WorkerDeliver(i)
    <2>1. PICK u \in Sessions, t \in Targets : u = worker[i].s /\ t = worker[i].t
      BY <1>1, <1>0 DEF WorkerDeliver
    <2>2. PICK d \in Seq(Packet) : d = stream[i].data
      BY <1>0, UdStreamRec
    <2>3. PICK p : p = Head(d)
      OBVIOUS
    <2>4. /\ d # <<>> /\ stream' = [stream EXCEPT ![i] = [stream[i] EXCEPT !.data = Tail(d)]]
          /\ queue' = [queue EXCEPT ![u] = Append(queue[u], <<t, p>>)]
      BY <1>1, <2>1, <2>2, <2>3 DEF WorkerDeliver
    <2>5. UdRising(d)
      BY <2>2 DEF UdInSequence, UdOrdered
    <2>6. /\ p \in Packet /\ p \in Range(d) /\ Tail(d) \in Seq(Packet) /\ Range(Tail(d)) \subseteq Range(d)
          /\ Range(d) \subseteq Range(Tail(d)) \cup {p}
          /\ UdRising(Tail(d)) /\ \A e \in Range(Tail(d)) : p.n < e.n
      BY <2>2, <2>3, <2>4, <2>5, UdTails, UdRisingTails
    <2>7. p.s = u /\ p.t = t
      <3>1. UdRuns(i, u, t) /\ UdUnder(i, p)
        BY <1>1, <2>1, <2>2, <2>6 DEF UdRuns, UdUnder, WorkerDeliver
      <3> QED
        BY <3>1, <2>6, <1>0, UdSameTarget
    <2>8. \A id \in Ids : stream'[id].data = (IF id = i THEN Tail(d) ELSE stream[id].data) /\ stream'[id].st = stream[id].st
      <3>1. PICK r : r = [stream[i] EXCEPT !.data = Tail(d)]
        OBVIOUS
      <3>2. r.data = Tail(d) /\ r.st = stream[i].st
        BY <3>1, <2>6, <1>0, UdStreamHas
      <3> QED
        BY <2>4, <3>1, <3>2, <1>0
    <2>9. \A id \in Ids : Range(stream'[id].data) \subseteq Range(stream[id].data)
      BY <2>2, <2>6, <2>8
    <2>10. PICK a : a = <<t, p>>
      OBVIOUS
    <2>11. a \in Targets \X Packet /\ a[1] = t /\ a[2] = p
      BY <2>1, <2>6, <2>10
    <2>12. \A x \in Sessions : Arrived(x)' = IF x = u THEN Append(Arrived(u), a) ELSE Arrived(x)
      BY <2>4, <2>10, <2>11, <1>u, <1>0, UdArrivedGrows
    <2>13. PICK r \in Seq(Targets \X Packet) : r = Arrived(u)
      BY <1>0, UdArrivedType
    <2>14. Range(Append(r, a)) = Range(r) \cup {a}
      BY <2>11, <2>13, UdAppends
    <2>15. UdSenders'
      <3>1. i < nextId /\ stream[i].data # <<>> /\ (stream[i].st \notin {"none", "stopped"})
        <4>1. stream[i].data # <<>> /\ stream[i].st \notin {"none", "stopped"}
          BY <2>2, <2>4 DEF UdInSequence, UdSenders
        <4>2. ~(i >= nextId) /\ i \in Nat /\ nextId \in Nat
          BY <4>1, UdpAssumption DEF UdInSequence, UdSenders, UdTyped, UdInv, UdSendOK, Ids
        <4> QED
          BY <4>1, <4>2
      <3>2. worker' = worker
        BY <1>1 DEF WorkerDeliver
      <3>3. \A x \in Sessions : UdSender(x, call[x])' /\ \A v \in Targets : cell'[x][v] # 0 => stream'[cell'[x][v]].st # "none"
        <4> SUFFICES ASSUME NEW x \in Sessions
                     PROVE  UdSender(x, call[x])' /\ \A v \in Targets : cell'[x][v] # 0 => stream'[cell'[x][v]].st # "none"
          OBVIOUS
        <4>1. /\ \A v \in Targets : cell[x][v] # 0 => cell[x][v] \in Ids
              /\ call[x].pc \in {"announce", "open"} => call[x].id \in Ids
          BY UdpAssumption DEF UdInv, UdTyped, UdSendOK, UdCallOK, Ids
        <4> QED
          BY <1>u, <2>8, <4>1 DEF UdInSequence, UdSenders, UdSender
      <3> QED
        BY <3>1, <3>2, <3>3, <2>8, <1>u DEF UdInSequence, UdSenders
    <2>16. UdOneStream'
      BY <2>9, <1>u DEF UdInSequence, UdOneStream
    <2>17. UdOrdered'
      <3>1. \A id \in Ids : UdRising(stream'[id].data)
        BY <2>6, <2>8 DEF UdInSequence, UdOrdered
      <3>2. \A x \in Sessions : UdInOrder(Arrived(x)')
        <4>1. UdInOrder(r)
          BY <2>13 DEF UdInSequence, UdOrdered
        <4>2. ASSUME NEW f \in Range(r), f[1] = a[1] PROVE f[2].n < a[2].n
          <5>1. f \in Targets \X Packet
            BY <2>13, <4>2, LenProperties DEF Range
          <5>2. f[1] = t /\ f[2] \in Packet /\ <<t, f[2]>> \in Range(Arrived(u))
            BY <2>11, <2>13, <4>2, <5>1
          <5> QED
            BY <2>2, <2>6, <2>7, <2>11, <5>2 DEF UdInSequence, UdOrdered
        <4>3. UdInOrder(Append(r, a))
          BY <2>11, <2>13, <4>1, <4>2, UdInOrderAppends
        <4> QED
          BY <2>12, <2>13, <4>3 DEF UdInSequence, UdOrdered
      <3>3. ASSUME NEW x \in Sessions, NEW v \in Targets, NEW b \in Packet, NEW id \in Ids, NEW q \in Packet,
                   <<v, b>> \in Range(Arrived(x)'), q \in Range(stream'[id].data), q.s = x, q.t = v
            PROVE  b.n < q.n
        <4>1. q \in Range(stream[id].data)
          BY <2>9, <3>3
        <4>2. CASE <<v, b>> \in Range(Arrived(x))
          BY <3>3, <4>1, <4>2 DEF UdInSequence, UdOrdered
        <4>3. CASE x = u /\ <<v, b>> = a
          <5>1. v = t /\ b = p
            BY <2>10, <4>3
          <5>2. id = i
            BY <2>2, <2>6, <2>7, <3>3, <4>1, <4>3, <5>1 DEF UdInSequence, UdOneStream
          <5> QED
            BY <2>6, <2>8, <3>3, <5>1, <5>2
        <4> QED
          BY <2>12, <2>13, <2>14, <3>3, <4>2, <4>3
      <3> QED
        BY <3>1, <3>2, <3>3 DEF UdOrdered
    <2>18. UdComplete'
      <3> SUFFICES ASSUME UdNoneStopped', NEW q \in Packet, 1 <= q.n, q.n <= sent'[q.s][q.t]
                   PROVE  <<q.t, q>> \in Range(Arrived(q.s)') \/ \E id \in Ids : q \in Range(stream'[id].data)
        BY DEF UdComplete
      <3>1. UdNoneStopped /\ q.s \in Sessions
        BY <2>8 DEF UdNoneStopped, Packet
      <3>2. CASE <<q.t, q>> \in Range(Arrived(q.s))
        BY <2>12, <2>13, <2>14, <3>1, <3>2
      <3>3. ASSUME NEW id \in Ids, q \in Range(stream[id].data)
            PROVE  <<q.t, q>> \in Range(Arrived(q.s)') \/ \E j \in Ids : q \in Range(stream'[j].data)
        <4>1. CASE q = p
          BY <2>7, <2>10, <2>12, <2>13, <2>14, <4>1
        <4>2. CASE q # p
          BY <2>2, <2>6, <2>8, <3>3, <4>2
        <4> QED
          BY <4>1, <4>2
      <3> QED
        BY <1>u, <3>1, <3>2, <3>3 DEF UdInSequence, UdComplete
    <2> QED
      BY <1>d, <2>15, <2>16, <2>17, <2>18 DEF UdInSequence
  <1>2. CASE ~WorkerDeliver(i)
    <2>1. stream' = stream \/ StopStream(i)
      BY <1>2 DEF Worker, AcceptUni, UniReceiver, RunWorker, WorkerEnds, WorkerUnbind, WorkerUnmap,
                  WorkerLast, UniTimeout, linkVars
    <2>2. UNCHANGED <<queue, delivered>>
      BY <1>2 DEF Worker, AcceptUni, UniReceiver, RunWorker, WorkerEnds, WorkerUnbind, WorkerUnmap,
                  WorkerLast, UniTimeout
    <2>3. \A x \in Sessions : Arrived(x)' = Arrived(x)
      BY <2>2, UdArrivedStill
    <2>4. /\ \A id \in Ids : id # i => stream'[id] = stream[id]
          /\ stream'[i] = stream[i] \/ (stream'[i].st = "stopped" /\ stream'[i].data = <<>>)
      BY <2>1, <1>0 DEF StopStream
    <2>5. \A id \in Ids : Range(stream'[id].data) \subseteq Range(stream[id].data)
      <3>1. Range(<<>>) = {}
        BY DEF Range
      <3> QED
        BY <2>4, <3>1
    <2>6. UdSenders'
      <3>1. stream'[i].st # "none" /\ ~(i >= nextId)
        BY <2>4, <1>n DEF UdInSequence, UdSenders
      <3>2. \A id \in Ids : /\ id >= nextId' => stream'[id].st = "none"
                            /\ worker'[id].pc # "none" => stream'[id].st # "none"
                            /\ stream'[id].st \in {"none", "stopped"} => stream'[id].data = <<>>
        BY <1>u, <1>w, <2>4, <3>1 DEF UdInSequence, UdSenders
      <3>3. ASSUME NEW x \in Sessions
            PROVE  UdSender(x, call[x])' /\ \A v \in Targets : cell'[x][v] # 0 => stream'[cell'[x][v]].st # "none"
        <4>1. /\ \A v \in Targets : cell[x][v] # 0 => cell[x][v] \in Ids
              /\ call[x].pc \in {"announce", "open"} => call[x].id \in Ids
          BY UdpAssumption DEF UdInv, UdTyped, UdSendOK, UdCallOK, Ids
        <4> QED
          BY <1>u, <1>n, <2>4, <3>1, <4>1 DEF UdInSequence, UdSenders, UdSender
      <3> QED
        BY <3>2, <3>3 DEF UdSenders
    <2>7. UdOneStream'
      BY <2>5, <1>u DEF UdInSequence, UdOneStream
    <2>8. CASE stream' = stream
      BY <1>d, <1>u, <2>3, <2>6, <2>7, <2>8, UdInOrderStill DEF UdInSequence, UdNoneStopped
    <2>9. CASE stream' # stream
      <3>1. stream'[i].st = "stopped" /\ stream'[i].data = <<>>
        BY <2>1, <2>9, <1>0 DEF StopStream
      <3>2. UdComplete'
        BY <3>1 DEF UdComplete, UdNoneStopped
      <3>3. UdRising(<<>>)
        BY DEF UdRising
      <3>4. \A id \in Ids : UdRising(stream'[id].data)
        BY <2>4, <3>1, <3>3 DEF UdInSequence, UdOrdered
      <3>5. UdOrdered'
        BY <2>3, <2>5, <3>4 DEF UdInSequence, UdOrdered
      <3> QED
        BY <1>d, <2>6, <2>7, <3>2, <3>5 DEF UdInSequence
    <2> QED
      BY <2>8, <2>9
  <1> QED
    BY <1>1, <1>2

\* The sending end moves without touching a stream's packets.
LEMMA UdSenderMoves ==
    ASSUME UdInv, UdInSequence, UNCHANGED <<sent, dgrams, loop, waiting, queue, delivered>>,
           \A id \in Ids : stream'[id].data = stream[id].data, UdNoneStopped' => UdNoneStopped,
           UdSenders', UdOneStream'
    PROVE  UdInSequence'
  <1>1. UdOrdered' /\ UdComplete'
    BY UdArrivedStill, UdInOrderStill DEF UdInSequence
  <1>2. UdNoDgrams'
    BY DEF UdInSequence, UdNoDgrams
  <1> QED
    BY <1>1, <1>2 DEF UdInSequence

\* and the sending side writes the next one behind them, a rebuilt sender too.
LEMMA UdSendsInSequence ==
    ASSUME UdInv, UdInSequence, OverStream, NEW s \in Sessions,
           OpenSession(s) \/ (\E t \in Targets : SendTo(s, t)) \/ SendSide(s) \/ DropSession(s)
    PROVE  UdInSequence'
  <1>0. /\ call \in [Sessions -> Call] /\ call[s] \in Call /\ UdCallOK(s, call[s]) /\ stream \in [Ids -> Stream]
        /\ sent \in [Sessions -> [Targets -> 0 .. MaxSent]] /\ MaxSent \in Nat
        /\ session \in [Sessions -> {"new", "open", "refused", "dropped"}]
        /\ cell \in [Sessions -> [Targets -> 0 .. MAX_ID]] /\ nextId \in Nat
        /\ \A id \in Ids : stream[id] \in Stream /\ id \in Nat /\ id # 0
        /\ UdTyped /\ UdOneOwner /\ UdHeld /\ MAX_ID \in Nat
    BY UdpAssumption DEF UdInv, UdTyped, UdSendOK, UdLinkOK, Ids
  <1>c. /\ \A x \in Sessions, v \in Targets : cell[x][v] # 0 => cell[x][v] \in Ids
        /\ \A x \in Sessions : call[x].pc \in {"announce", "open", "write"} => call[x].id \in Ids /\ call[x].t \in Targets
    BY UdpAssumption DEF UdInv, UdTyped, UdSendOK, UdCallOK, Ids
  <1>u. UNCHANGED <<loop, waiting, queue, delivered, worker>>
    BY DEF OpenSession, SendTo, SendSide, GetSendContextId, Announce, OpenUni, Write, WriteStopped, DropSession, dgVars
  <1>p. \A p \in Packet : p.s \in Sessions /\ p.t \in Targets /\ p.n \in Nat
    BY DEF Packet
  <1>1. CASE OpenSession(s)
    <2>1. UNCHANGED <<nextId, cell, call, sent, stream, dgrams>> /\ session[s] = "new"
      BY <1>1 DEF OpenSession, linkVars
    <2>2. \A x \in Sessions : x # s => session'[x] = session[x]
      BY <1>1, <1>0 DEF OpenSession
    <2>3. UdOneStream'
      <3>1. \A id \in Ids, p \in Packet : p \in Range(stream[id].data) => p.s # s
        BY <2>1 DEF UdInSequence, UdOneStream
      <3> QED
        BY <1>p, <2>1, <2>2, <3>1 DEF UdInSequence, UdOneStream
    <2>4. UdSenders'
      BY <2>1, <1>u DEF UdInSequence, UdSenders, UdSender
    <2> QED
      BY <2>1, <2>3, <2>4, <1>u, UdSenderMoves DEF UdNoneStopped
  <1>2. ASSUME NEW t \in Targets, SendTo(s, t) PROVE UdInSequence'
    <2>1. UNCHANGED <<nextId, cell, session, sent, stream, dgrams>>
      BY <1>2 DEF SendTo, linkVars
    <2>2. UdOneStream'
      BY <2>1 DEF UdInSequence, UdOneStream
    <2>3. \A x \in Sessions : call'[x] = call[x] \/ call'[x].pc = "cell"
      BY <1>2, <1>0 DEF SendTo
    <2>4. UdSenders'
      BY <2>1, <2>3, <1>u DEF UdInSequence, UdSenders, UdSender
    <2> QED
      BY <2>1, <2>2, <2>4, <1>u, UdSenderMoves DEF UdNoneStopped
  <1>3. CASE GetSendContextId(s)
    <2>0. call[s].t \in Targets
      BY <1>3, <1>0 DEF GetSendContextId, CallAt, UdCallOK
    <2>1. UNCHANGED <<cell, session, sent, stream, dgrams>>
      BY <1>3 DEF GetSendContextId, linkVars
    <2>2. UdOneStream'
      BY <2>1 DEF UdInSequence, UdOneStream
    <2>3. UdSenders'
      <3>1. /\ \A x \in Sessions : x # s => call'[x] = call[x]
            /\ \/ call'[s].pc = "idle"
               \/ call'[s].pc = "write" /\ call'[s].t = call[s].t /\ call'[s].id = cell[s][call[s].t]
               \/ /\ call'[s].pc = "announce" /\ call'[s].t = call[s].t /\ call'[s].id = nextId
                  /\ cell[s][call[s].t] = 0 /\ nextId <= MAX_ID /\ nextId' = nextId + 1
        <4>1. CASE cell[s][call[s].t] # 0
          BY <1>3, <4>1, <1>0 DEF GetSendContextId, Call
        <4>2. CASE cell[s][call[s].t] = 0 /\ nextId <= MAX_ID
          <5>1. nextId' = nextId + 1 /\ call' = [call EXCEPT ![s].pc = "announce", ![s].id = nextId]
            <6>1. ~(nextId > MAX_ID)
              BY <4>2, <1>0
            <6> QED
              BY <1>3, <4>2, <6>1 DEF GetSendContextId
          <5> QED
            BY <4>2, <5>1, <1>0 DEF Call
        <4>3. CASE cell[s][call[s].t] = 0 /\ nextId > MAX_ID
          <5>1. call' = [call EXCEPT ![s] = Idle]
            BY <1>3, <4>3, <1>0 DEF GetSendContextId
          <5> QED
            BY <5>1, <1>0, UdIdle
        <4> QED
          BY <4>1, <4>2, <4>3, <1>0, <2>0
      <3>2. \A id \in Ids : id >= nextId' => id >= nextId
        <4>1. MAX_ID \in Nat /\ nextId \in 1 .. MAX_ID + 2
          BY UdpAssumption DEF UdInv, UdTyped, UdSendOK
        <4>2. nextId' \in {nextId, nextId + 1, MAX_ID + 2}
          BY <1>3 DEF GetSendContextId
        <4> QED
          BY <4>1, <4>2 DEF Ids
      <3>3. nextId <= MAX_ID => nextId \in Ids /\ nextId >= nextId
        BY UdpAssumption DEF UdInv, UdTyped, UdSendOK, Ids
      <3>4. \A x \in Sessions : UdSender(x, call[x])'
        <4>1. UdSender(s, call[s])'
          BY <2>1, <3>1, <3>3 DEF UdInSequence, UdSenders, UdSender
        <4>2. \A x \in Sessions : x # s => UdSender(x, call[x])'
          BY <2>1, <3>1 DEF UdInSequence, UdSenders, UdSender
        <4> QED
          BY <4>1, <4>2
      <3> QED
        BY <2>1, <3>2, <3>4, <1>u DEF UdInSequence, UdSenders
    <2> QED
      BY <2>1, <2>2, <2>3, <1>u, UdSenderMoves DEF UdNoneStopped
  <1>4. CASE Announce(s)
    <2>1. UNCHANGED <<nextId, cell, session, sent, stream, dgrams>>
      BY <1>4 DEF Announce
    <2>2. UdOneStream'
      BY <2>1 DEF UdInSequence, UdOneStream
    <2>3. /\ \A x \in Sessions : x # s => call'[x] = call[x]
          /\ call[s].pc = "announce" /\ call'[s].pc = "open" /\ call'[s].t = call[s].t /\ call'[s].id = call[s].id
      BY <1>4, <1>0 DEF Announce, CallAt, Call
    <2>4. \A x \in Sessions : UdSender(x, call[x])'
      BY <2>1, <2>3 DEF UdInSequence, UdSenders, UdSender
    <2>5. UdSenders'
      BY <2>1, <2>4, <1>u DEF UdInSequence, UdSenders
    <2> QED
      BY <2>1, <2>2, <2>5, <1>u, UdSenderMoves DEF UdNoneStopped
  <1>5. CASE OpenUni(s)
    <2>1. PICK i \in Ids, t \in Targets : i = call[s].id /\ t = call[s].t
      BY <1>5, <1>c DEF OpenUni, CallAt
    <2>2. /\ UNCHANGED <<nextId, session, sent, dgrams>> /\ session[s] = "open" /\ call[s].pc = "open"
          /\ stream' = [stream EXCEPT ![i] = [stream[i] EXCEPT !.st = "open"]]
          /\ cell' = [cell EXCEPT ![s] = [cell[s] EXCEPT ![t] = i]]
      BY <1>5, <2>1 DEF OpenUni, CallAt
    <2>3. \A id \in Ids : stream'[id].data = stream[id].data /\ stream'[id].st = IF id = i THEN "open" ELSE stream[id].st
      <3>1. PICK r : r = [stream[i] EXCEPT !.st = "open"]
        OBVIOUS
      <3>2. r.data = stream[i].data /\ r.st = "open"
        BY <3>1, <1>0, UdStreamSet
      <3> QED
        BY <2>2, <3>1, <3>2, <1>0
    <2>4. \A x \in Sessions, v \in Targets : cell'[x][v] = IF x = s /\ v = t THEN i ELSE cell[x][v]
      BY <2>2, <1>0
    <2>5. /\ \A x \in Sessions : x # s => call'[x] = call[x]
          /\ call'[s].pc = "write" /\ call'[s].t = t /\ call'[s].id = i
      BY <1>5, <2>1, <1>0 DEF OpenUni, Call
    <2>6. cell[s][t] = 0 /\ stream[i].st = "none"
      BY <2>1, <2>2 DEF UdInSequence, UdSenders, UdSender
    <2>7. i < nextId /\ \A x \in Sessions : x # s /\ call[x].pc \in {"announce", "open"} => call[x].id # i
      <3>1. UdOwns(i, s, t)
        BY <2>1 DEF UdOwns, UdSaid
      <3>2. \A x \in Sessions : call[x].pc \in {"announce", "open"} => UdOwns(call[x].id, x, call[x].t)
        BY DEF UdOwns, UdSaid
      <3> QED
        BY <3>1, <3>2, <1>0, <1>c DEF UdOneOwner
    <2>8. UdOneStream'
      <3>1. \A id \in Ids, p \in Packet : p \in Range(stream[id].data) => ~(p.s = s /\ p.t = t)
        BY <2>2, <2>6, <1>0 DEF UdInSequence, UdOneStream
      <3> QED
        BY <1>p, <2>2, <2>3, <2>4, <3>1 DEF UdInSequence, UdOneStream
    <2>9. UdSenders'
      <3>1. \A x \in Sessions : UdSender(x, call[x])'
        <4>1. UdSender(s, call[s])'
          BY <2>4, <2>5 DEF UdSender
        <4>2. ASSUME NEW x \in Sessions, x # s PROVE UdSender(x, call[x])'
          BY <2>3, <2>4, <2>5, <2>7, <4>2, <1>c DEF UdInSequence, UdSenders, UdSender
        <4> QED
          BY <4>1, <4>2
      <3>2. \A x \in Sessions, v \in Targets : cell'[x][v] # 0 => stream'[cell'[x][v]].st # "none"
        BY <2>3, <2>4, <1>c DEF UdInSequence, UdSenders
      <3>3. \A id \in Ids : /\ id >= nextId' => stream'[id].st = "none"
                            /\ worker'[id].pc # "none" => stream'[id].st # "none"
                            /\ stream'[id].st \in {"none", "stopped"} => stream'[id].data = <<>>
        <4>1. \A id \in Ids : id >= nextId => id # i
          BY <2>7, <1>0
        <4> QED
          BY <2>2, <2>3, <4>1, <1>u DEF UdInSequence, UdSenders
      <3> QED
        BY <3>1, <3>2, <3>3 DEF UdSenders
    <2>10. UdNoneStopped' => UdNoneStopped
      BY <2>3, <2>6 DEF UdNoneStopped
    <2> QED
      BY <2>2, <2>3, <2>8, <2>9, <2>10, <1>u, UdSenderMoves
  <1>6. CASE WriteStopped(s)
    <2>1. PICK i \in Ids, t \in Targets : i = call[s].id /\ t = call[s].t
      BY <1>6, <1>c DEF WriteStopped, CallAt
    <2>2. /\ UNCHANGED <<nextId, session, sent, stream, dgrams>> /\ session[s] = "open" /\ call[s].pc = "write"
          /\ cell' = [cell EXCEPT ![s] = [cell[s] EXCEPT ![t] = 0]] /\ stream[i].st = "stopped"
      BY <1>6, <2>1 DEF WriteStopped, CallAt, linkVars
    <2>3. \A x \in Sessions, v \in Targets : cell'[x][v] = IF x = s /\ v = t THEN 0 ELSE cell[x][v]
      BY <2>2, <1>0
    <2>4. \A x \in Sessions : IF x = s THEN call'[x].pc \in {"cell", "idle"} ELSE call'[x] = call[x]
      BY <1>6, <1>0, UdIdle DEF WriteStopped
    <2>5. cell[s][t] = i /\ stream[i].data = <<>>
      BY <2>1, <2>2 DEF UdInSequence, UdSenders, UdSender
    <2>6. \A id \in Ids, p \in Packet : p \in Range(stream[id].data) => ~(p.s = s /\ p.t = t)
      <3>1. Range(<<>>) = {}
        BY DEF Range
      <3> QED
        BY <2>2, <2>5, <3>1 DEF UdInSequence, UdOneStream
    <2>7. UdOneStream'
      BY <1>p, <2>2, <2>3, <2>6 DEF UdInSequence, UdOneStream
    <2>8. \A x \in Sessions : UdSender(x, call[x])'
      BY <2>2, <2>3, <2>4 DEF UdInSequence, UdSenders, UdSender
    <2>9. UdSenders'
      BY <2>2, <2>3, <2>8, <1>u DEF UdInSequence, UdSenders
    <2> QED
      BY <2>2, <2>7, <2>9, <1>u, UdSenderMoves DEF UdNoneStopped
  <1>7. CASE DropSession(s)
    <2>1. UNCHANGED <<nextId, sent, dgrams>>
      BY <1>7 DEF DropSession
    <2>2. \A id \in Ids : [stream[id] EXCEPT !.st = "finished"].data = stream[id].data /\ [stream[id] EXCEPT !.st = "finished"].st = "finished"
      BY <1>0, UdStreamSet
    <2>3. \A id \in Ids : /\ stream'[id].data = stream[id].data
                          /\ stream'[id].st = stream[id].st \/ (stream[id].st = "open" /\ stream'[id].st = "finished")
      BY <1>7, <2>2, <1>0 DEF DropSession
    <2>4. \A x \in Sessions : IF x = s THEN call'[x] = Idle /\ session'[x] = "dropped" /\ \A v \in Targets : cell'[x][v] = 0
                              ELSE call'[x] = call[x] /\ session'[x] = session[x] /\ cell'[x] = cell[x]
      BY <1>7, <1>0 DEF DropSession
    <2>5. UdOneStream'
      BY <1>p, <2>3, <2>4 DEF UdInSequence, UdOneStream
    <2>6. \A x \in Sessions : UdSender(x, call[x])'
      <3>1. UdSender(s, call[s])'
        BY <2>4, UdIdle DEF UdSender
      <3>2. ASSUME NEW x \in Sessions, x # s PROVE UdSender(x, call[x])'
        BY <2>3, <2>4, <3>2, <1>c DEF UdInSequence, UdSenders, UdSender
      <3> QED
        BY <3>1, <3>2
    <2>7. \A x \in Sessions, v \in Targets : cell'[x][v] # 0 => stream'[cell'[x][v]].st # "none"
      BY <2>3, <2>4, <1>c DEF UdInSequence, UdSenders
    <2>8. UdSenders'
      BY <2>1, <2>3, <2>6, <2>7, <1>u DEF UdInSequence, UdSenders
    <2>9. UdNoneStopped' => UdNoneStopped
      BY <2>3 DEF UdNoneStopped
    <2> QED
      BY <2>1, <2>3, <2>5, <2>8, <2>9, <1>u, UdSenderMoves
  <1>8. CASE Write(s)
    <2>1. PICK i \in Ids, t \in Targets : i = call[s].id /\ t = call[s].t
      BY <1>8, <1>c DEF Write, CallAt
    <2>2. PICK p : p = [s |-> s, t |-> t, n |-> sent[s][t] + 1]
      OBVIOUS
    <2>3. sent[s][t] \in Nat /\ p \in Packet /\ p.s = s /\ p.t = t /\ p.n = sent[s][t] + 1
      <3>1. sent[s][t] \in Nat
        BY <1>0
      <3> QED
        BY <2>2, <3>1 DEF Packet
    <2>4. PICK d \in Seq(Packet) : d = stream[i].data
      BY <1>0, UdStreamRec
    <2>5. /\ UNCHANGED <<nextId, session, cell, dgrams>> /\ session[s] = "open" /\ call[s].pc = "write"
          /\ sent' = [sent EXCEPT ![s] = [sent[s] EXCEPT ![t] = sent[s][t] + 1]]
          /\ stream' = IF stream[i].st = "stopped" THEN stream
                       ELSE [stream EXCEPT ![i] = [stream[i] EXCEPT !.data = Append(d, p)]]
      BY <1>8, <2>1, <2>2, <2>4 DEF Write, CallAt
    <2>6. \A x \in Sessions, v \in Targets : sent'[x][v] = IF x = s /\ v = t THEN sent[s][t] + 1 ELSE sent[x][v]
      BY <2>5, <1>0
    <2>7. cell[s][t] = i /\ stream[i].st # "none"
      BY <2>1, <2>5, <1>0 DEF UdInSequence, UdSenders, UdSender
    <2>a. \A x \in Sessions : Arrived(x)' = Arrived(x)
      BY <1>u, UdArrivedStill
    <2>8. \A x \in Sessions : call'[x] = call[x] \/ call'[x].pc = "idle"
      BY <1>8, <1>0, UdIdle DEF Write
    <2>9. \A id \in Ids : stream'[id].st = stream[id].st
      BY <2>5, <1>0 DEF Stream
    <2>d. UdNoDgrams'
      BY <2>5, <1>u DEF UdInSequence, UdNoDgrams
    <2>s. (\A id \in Ids : stream'[id].st \in {"none", "stopped"} => stream'[id].data = <<>>) => UdSenders'
      BY <2>5, <2>8, <2>9, <1>c, <1>u DEF UdInSequence, UdSenders, UdSender
    <2>10. CASE stream[i].st = "stopped"
      <3>1. stream' = stream
        BY <2>5, <2>10
      <3>2. UdSenders'
        BY <2>s, <3>1 DEF UdInSequence, UdSenders
      <3>3. UdOneStream'
        <4>1. UNCHANGED <<session, cell, stream>>
          BY <2>5, <3>1
        <4> QED
          BY <4>1 DEF UdInSequence, UdOneStream
      <3>4. UdOrdered'
        BY <2>a, <3>1 DEF UdInSequence, UdOrdered
      <3>5. UdComplete'
        BY <2>10, <3>1 DEF UdComplete, UdNoneStopped
      <3> QED
        BY <2>d, <3>2, <3>3, <3>4, <3>5 DEF UdInSequence
    <2>11. CASE stream[i].st # "stopped"
      <3>1. Append(d, p) \in Seq(Packet) /\ Range(Append(d, p)) = Range(d) \cup {p}
        BY <2>3, <2>4, UdAppends
      <3>2. \A id \in Ids : stream'[id].data = IF id = i THEN Append(d, p) ELSE stream[id].data
        <4>1. PICK r : r = [stream[i] EXCEPT !.data = Append(d, p)]
          OBVIOUS
        <4>2. r.data = Append(d, p)
          BY <4>1, <3>1, <1>0, UdStreamHas
        <4> QED
          BY <2>5, <2>11, <4>1, <4>2, <1>0
      <3>3. \A id \in Ids, q \in Packet : q \in Range(stream'[id].data) => q \in Range(stream[id].data) \/ (id = i /\ q = p)
        BY <2>4, <3>1, <3>2
      <3>4. UdSenders'
        BY <2>s, <2>7, <2>9, <2>11, <3>2 DEF UdInSequence, UdSenders
      <3>5. \A id \in Ids, q \in Packet : q \in Range(stream[id].data) /\ q.s = s /\ q.t = t => id = i
        BY <2>5, <2>7 DEF UdInSequence, UdOneStream
      <3>6. UdOneStream'
        <4> SUFFICES ASSUME NEW id \in Ids, NEW q \in Packet, q \in Range(stream'[id].data)
                     PROVE  /\ session'[q.s] \in {"open", "dropped"}
                            /\ session'[q.s] = "open" => cell'[q.s][q.t] = id
                            /\ \A j \in Ids, f \in Packet :
                                 f \in Range(stream'[j].data) /\ f.s = q.s /\ f.t = q.t => j = id
          BY DEF UdOneStream
        <4>1. CASE q.s = s /\ q.t = t
          <5>1. id = i
            BY <3>3, <3>5, <4>1
          <5>2. \A j \in Ids, f \in Packet : f \in Range(stream'[j].data) /\ f.s = s /\ f.t = t => j = i
            BY <3>3, <3>5
          <5> QED
            BY <2>5, <2>7, <4>1, <5>1, <5>2
        <4>2. CASE ~(q.s = s /\ q.t = t)
          <5>1. q \in Range(stream[id].data)
            BY <2>3, <3>3, <4>2
          <5>2. \A j \in Ids, f \in Packet : f \in Range(stream'[j].data) /\ f.s = q.s /\ f.t = q.t => f \in Range(stream[j].data)
            BY <2>3, <3>3, <4>2
          <5> QED
            BY <2>5, <5>1, <5>2 DEF UdInSequence, UdOneStream
        <4> QED
          BY <4>1, <4>2
      <3>7. ASSUME NEW q \in Packet, q.s = s, q.t = t, NEW x \in UdPlaces, UdAt(x, q) PROVE q.n < p.n
        <4>1. q.n <= sent[s][t] /\ q.n \in Nat
          BY <3>7, <1>0, <1>p DEF UdHeld, UdPlaced
        <4> QED
          BY <4>1, <2>3
      <3>8. UdOrdered'
        <4>1. \A f \in Range(d) : f.n < p.n
          <5> SUFFICES ASSUME NEW f \in Range(d) PROVE f.n < p.n
            OBVIOUS
          <5>1. f \in Packet
            BY <2>4, LenProperties DEF Range
          <5>2. f.s = s /\ f.t = t
            <6>1. UdOwns(i, f.s, f.t)
              BY <2>4, <5>1 DEF UdOwns, UdCarries, UdUnder
            <6>2. UdOwns(i, s, t)
              BY <2>1 DEF UdOwns, UdSaid
            <6> QED
              BY <5>1, <6>1, <6>2, <1>0, <1>p DEF UdOneOwner
          <5>3. <<"stream", i>> \in UdPlaces /\ UdAt(<<"stream", i>>, f)
            BY <2>4 DEF UdPlaces, UdAt
          <5> QED
            BY <3>7, <5>1, <5>2, <5>3
        <4>2. UdRising(Append(d, p))
          <5>1. UdRising(d)
            BY <2>4 DEF UdInSequence, UdOrdered
          <5> QED
            BY <2>3, <2>4, <4>1, <5>1, UdRisingAppends
        <4>3. ASSUME NEW x \in Sessions, NEW v \in Targets, NEW b \in Packet, NEW id \in Ids, NEW q \in Packet,
                     <<v, b>> \in Range(Arrived(x)), q \in Range(stream'[id].data), q.s = x, q.t = v
              PROVE  b.n < q.n
          <5>1. CASE q \in Range(stream[id].data)
            BY <4>3, <5>1 DEF UdInSequence, UdOrdered
          <5>2. CASE q = p
            <6>1. x = s /\ v = t
              BY <2>3, <4>3, <5>2
            <6>2. b.s = s /\ b.t = t
              BY <4>3, <6>1, <1>0 DEF UdHeld, UdRight
            <6>3. <<"arrived", s>> \in UdPlaces /\ UdAt(<<"arrived", s>>, b)
              BY <4>3, <6>1 DEF UdPlaces, UdAt
            <6> QED
              BY <3>7, <5>2, <6>2, <6>3
          <5> QED
            BY <3>3, <4>3, <5>1, <5>2
        <4> QED
          BY <2>a, <3>2, <4>2, <4>3 DEF UdInSequence, UdOrdered
      <3>9. UdComplete'
        <4> SUFFICES ASSUME UdNoneStopped', NEW q \in Packet, 1 <= q.n, q.n <= sent'[q.s][q.t]
                     PROVE  <<q.t, q>> \in Range(Arrived(q.s)') \/ \E id \in Ids : q \in Range(stream'[id].data)
          BY DEF UdComplete
        <4>1. UdNoneStopped /\ q.s \in Sessions /\ q.t \in Targets /\ q.n \in Nat
          BY <2>9, <1>p DEF UdNoneStopped
        <4>2. CASE q.s = s /\ q.t = t /\ q.n = p.n
          <5>1. q = p
            BY <2>3, <4>2 DEF Packet
          <5> QED
            BY <3>1, <3>2, <5>1
        <4>3. CASE ~(q.s = s /\ q.t = t /\ q.n = p.n)
          <5>1. q.n <= sent[q.s][q.t]
            <6>1. CASE q.s = s /\ q.t = t
              BY <2>3, <2>6, <4>1, <4>3, <6>1
            <6>2. CASE ~(q.s = s /\ q.t = t)
              BY <2>6, <4>1, <6>2
            <6> QED
              BY <6>1, <6>2
          <5>2. <<q.t, q>> \in Range(Arrived(q.s)) \/ \E id \in Ids : q \in Range(stream[id].data)
            BY <4>1, <5>1 DEF UdInSequence, UdComplete
          <5>3. \A id \in Ids : Range(stream[id].data) \subseteq Range(stream'[id].data)
            BY <2>4, <3>1, <3>2
          <5> QED
            BY <2>a, <4>1, <5>2, <5>3
        <4> QED
          BY <4>2, <4>3
      <3> QED
        BY <2>d, <3>4, <3>6, <3>8, <3>9 DEF UdInSequence
    <2> QED
      BY <2>10, <2>11
  <1> QED
    BY <1>1, <1>2, <1>3, <1>4, <1>5, <1>6, <1>7, <1>8 DEF SendSide

\* For any number of sessions, targets, ids and packets: the queues and buffers keep their
\* capacities, and over streams the packets of a target arrive in the order they were sent,
\* across a sender that was rebuilt, without a gap as long as no stream was stopped.
THEOREM UdInStreamOrder == Spec => []StreamSound
  <1>1. Init => (OverStream => UdInSequence)
    <2> SUFFICES ASSUME Init PROVE UdInSequence
      OBVIOUS
    <2>0. Range(<<>>) = {} /\ \A s \in Sessions : Arrived(s) = <<>>
      BY DEF Init, Arrived, Range
    <2>1. \A id \in Ids : stream[id].data = <<>> /\ stream[id].st = "none" /\ waiting[id] = <<>> /\ worker[id].pc = "none"
      BY DEF Init
    <2>2. UdNoDgrams
      BY <2>1, UdLoopIdle DEF Init, UdNoDgrams
    <2>3. UdSenders
      BY <2>1, UdIdle DEF Init, UdSenders, UdSender
    <2>4. UdOneStream
      BY <2>0, <2>1 DEF UdOneStream
    <2>5. UdOrdered
      BY <2>0, <2>1 DEF UdOrdered, UdRising, UdInOrder
    <2>6. UdComplete
      <3>1. \A p \in Packet : p.n \in Nat /\ sent[p.s][p.t] = 0
        BY DEF Packet, Init
      <3> QED
        BY <3>1 DEF UdComplete
    <2> QED
      BY <2>2, <2>3, <2>4, <2>5, <2>6 DEF UdInSequence
  <1>2. UdInv /\ (OverStream => UdInSequence) /\ [Next]_vars => (OverStream => UdInSequence)'
    <2> SUFFICES ASSUME UdInv, OverStream, UdInSequence, [Next]_vars PROVE UdInSequence'
      OBVIOUS
    <2>1. CASE UNCHANGED vars
      <3>1. UdNoDgrams'
        BY <2>1 DEF vars, UdInSequence, UdNoDgrams
      <3> QED
        BY <2>1, <3>1, UdArrivedStill, UdInSequenceStill DEF vars
    <2>2. CASE Next
      BY <2>1, <2>2, UdSendsInSequence, UdListensInSequence, UdWorkersInSequence, UdDatagramsInSequence
      DEF Next, Timeout, Ended
    <2> QED
      BY <2>1, <2>2
  <1>3. UdInv /\ (OverStream => UdInSequence) => StreamSound
    <2> SUFFICES ASSUME UdInv, OverStream => UdInSequence PROVE StreamSound
      OBVIOUS
    <2>1. TypeOK
      BY UdTypedIs DEF UdInv
    <2>2. ASSUME OverStream, NEW s \in Sessions, NEW i \in DOMAIN Arrived(s)
          PROVE  LET a == Arrived(s)[i] IN
                 /\ \A j \in 1 .. i - 1 : Arrived(s)[j][1] = a[1] => Arrived(s)[j][2].n < a[2].n
                 /\ (\A id \in Ids : stream[id].st # "stopped") =>
                      \A m \in 1 .. a[2].n - 1 :
                          \E j \in 1 .. i - 1 : Arrived(s)[j] = <<a[1], [a[2] EXCEPT !.n = m]>>
      <3>1. PICK r \in Seq(Targets \X Packet) : r = Arrived(s)
        BY UdArrivedType DEF UdInv
      <3>2. Len(r) \in Nat /\ DOMAIN r = 1 .. Len(r) /\ i \in 1 .. Len(r) /\ \A j \in 1 .. Len(r) : r[j] \in Targets \X Packet
        BY <2>2, <3>1, LenProperties
      <3>3. PICK t \in Targets, p \in Packet : r[i] = <<t, p>> /\ r[i][1] = t /\ r[i][2] = p
        BY <3>2
      <3>4. \A j \in 1 .. i - 1 : j \in DOMAIN r /\ j < i
        BY <3>2
      <3>5. UdInOrder(r) /\ UdInSequence
        BY <2>2, <3>1 DEF UdInSequence, UdOrdered
      <3>6. \A j \in 1 .. i - 1 : r[j][1] = t => r[j][2].n < p.n
        BY <3>2, <3>3, <3>4, <3>5 DEF UdInOrder
      <3>7. ASSUME UdNoneStopped, NEW m \in 1 .. p.n - 1
            PROVE  \E j \in 1 .. i - 1 : r[j] = <<t, [p EXCEPT !.n = m]>>
        <4>0. p.n \in Nat /\ p.s = s /\ p.t = t /\ p.n <= sent[s][t] /\ sent[s][t] \in Nat
          <5>1. <<t, p>> \in Range(Arrived(s))
            BY <2>2, <3>1, <3>3 DEF Range
          <5>2. p.s = s /\ p.t = t
            <6>1. <<t, p>>[2].s = s /\ <<t, p>>[2].t = <<t, p>>[1]
              BY <5>1 DEF UdInv, UdHeld, UdRight
            <6> QED
              BY <6>1
          <5>3. <<"arrived", s>> \in UdPlaces /\ UdAt(<<"arrived", s>>, p)
            BY <3>3, <5>1 DEF UdPlaces, UdAt
          <5>4. p.n <= sent[p.s][p.t]
            BY <3>3, <5>3 DEF UdInv, UdHeld, UdPlaced
          <5>5. p.n \in Nat /\ sent[s][t] \in Nat
            BY <3>3, UdpAssumption DEF UdInv, UdTyped, UdSendOK, Packet
          <5> QED
            BY <5>2, <5>4, <5>5
        <4>1. PICK q : q = [p EXCEPT !.n = m]
          OBVIOUS
        <4>2. q \in Packet /\ q.s = s /\ q.t = t /\ q.n = m
          BY <3>3, <3>7, <4>0, <4>1 DEF Packet
        <4>3. 1 <= q.n /\ q.n <= sent[s][t] /\ q.n < p.n
          BY <3>7, <4>0, <4>2
        <4>4. <<t, q>> \in Range(Arrived(s)) \/ \E id \in Ids : q \in Range(stream[id].data)
          BY <3>5, <3>7, <4>2, <4>3 DEF UdInSequence, UdComplete
        <4>5. \A id \in Ids : q \notin Range(stream[id].data)
          <5> SUFFICES ASSUME NEW id \in Ids, q \in Range(stream[id].data) PROVE FALSE
            OBVIOUS
          <5>1. <<t, p>> \in Range(Arrived(s))
            BY <2>2, <3>1, <3>3 DEF Range
          <5>2. p.n < q.n
            BY <3>3, <3>5, <4>2, <5>1 DEF UdInSequence, UdOrdered
          <5> QED
            BY <4>0, <4>2, <4>3, <5>2, <3>7
        <4>6. PICK j \in DOMAIN r : r[j] = <<t, q>>
          BY <3>1, <4>4, <4>5 DEF Range
        <4>7. j < i
          <5>1. r[j][1] = t /\ r[j][2] = q
            BY <4>6
          <5>2. ~(i < j) /\ i # j
            <6>1. ASSUME i < j PROVE FALSE
              <7>1. p.n < q.n
                BY <3>2, <3>3, <3>5, <4>6, <5>1, <6>1 DEF UdInOrder
              <7> QED
                BY <4>0, <4>2, <4>3, <7>1, <3>7
            <6>2. ASSUME i = j PROVE FALSE
              <7>1. p.n = q.n
                BY <3>3, <5>1, <6>2
              <7> QED
                BY <4>0, <4>2, <4>3, <7>1, <3>7
            <6> QED
              BY <6>1, <6>2
          <5> QED
            BY <3>2, <4>6, <5>2
        <4>8. j \in 1 .. i - 1
          BY <3>2, <4>6, <4>7
        <4>9. r[j] = <<t, [p EXCEPT !.n = m]>>
          BY <4>1, <4>6
        <4> QED
          BY <4>8, <4>9
      <3> QED
        BY <3>1, <3>3, <3>6, <3>7 DEF UdNoneStopped
    <2> QED
      BY <2>1, <2>2 DEF StreamSound, StreamOrder
  <1> QED
    BY <1>1, <1>2, <1>3, UdInvariant, PTL DEF Spec
=============================================================================
