---------------------------- MODULE RouterProofs ----------------------------
(***************************************************************************)
(* What the router decides and keeps, for any number of requests, rules,   *)
(* sessions, nodes, queries and addresses: which rule a request gets, the  *)
(* UDP sessions, the node a selector uses, and name resolution - the       *)
(* connections of the DNS-over-HTTPS client, the addresses of the FakeIP   *)
(* server and the single flight of the response cache.                     *)
(***************************************************************************)
EXTENDS DohPool, FakeIp, DnsFlight, RouterRules, RouterUdp, Selector,
        FiniteSetTheorems, SequenceTheorems, WellFoundedInduction, TLAPS


-----------------------------------------------------------------------------
(* DNS over HTTPS *)

DhPcs == {"start", "lock", "dial", "fresh", "put", "send", "read", "evict", "done"}
DhStates == [pc : DhPcs, conn : Nat, pooled : BOOLEAN]
DhLinks == [h2 : BOOLEAN, open : BOOLEAN, wait : SUBSET DhQueries]

DhTypeOK ==
    /\ dhQ \in [DhQueries -> DhStates]
    /\ dhConn \in [DhConns -> DhLinks]
    /\ dhSlot \in Nat

\* Connections are numbered as they are dialled.
DhFreshId == Cardinality(DhConns) \in Nat /\ DhConns = 1 .. Cardinality(DhConns)

\* What a query may hold, by where it is: a query that goes on to a new connection holds
\* at most one that is closed.
DhMayHold(s) ==
    /\ s.conn # 0 => s.conn \in DhConns
    /\ s.pc \in {"start", "lock", "dial", "done"} => s.conn = 0
    /\ s.pc \in {"send", "read"} => s.conn # 0
    /\ s.pc = "fresh" => s.conn = 0 \/ (~dhConn[s.conn].h2 /\ ~DhOpen(s.conn))
    /\ s.pc \in {"put", "evict"} => s.conn # 0 /\ dhConn[s.conn].h2

DhHolds ==
    /\ \A q \in DhQueries : DhMayHold(dhQ[q])
    /\ dhSlot # 0 => dhSlot \in DhConns /\ dhConn[dhSlot].h2

\* An open HTTP/1.1 connection is used by at most one query, and only that one waits for
\* a response on it.
DhExclusive == \A c \in DhConns : ~dhConn[c].h2 /\ DhOpen(c) =>
    /\ \A q \in dhConn[c].wait : dhQ[q].conn = c
    /\ \A q, r \in DhQueries : dhQ[q].conn = c /\ dhQ[r].conn = c => q = r

\* Idle connections are HTTP/1.1 connections that no query uses.
DhIdleOK ==
    /\ IsFiniteSet(dhIdle) /\ Cardinality(dhIdle) <= DhMaxIdle
    /\ \A c \in dhIdle : /\ c \in DhConns /\ ~dhConn[c].h2
                         /\ DhOpen(c) => \A q \in DhQueries : dhQ[q].conn # c

DhInv == DhTypeOK /\ DhFreshId /\ DhHolds /\ DhExclusive /\ DhIdleOK

\* A query moves on, lets go of what it held and takes what nobody else may use.
LEMMA DhHandsOver ==
    ASSUME DhInv, NEW q \in DhQueries, NEW s \in DhStates,
           dhQ' = [dhQ EXCEPT ![q] = s], dhConn' = dhConn,
           DhMayHold(s),
           LET o == dhQ[q].conn IN o = s.conn \/ o = 0 \/ dhConn[o].h2 \/ ~DhOpen(o),
           \/ s.conn = dhQ[q].conn \/ s.conn = 0
           \/ s.conn \in DhConns /\ dhConn[s.conn].h2
           \/ s.conn \in dhIdle \ dhIdle' /\ DhOpen(s.conn),
           dhIdle' \subseteq dhIdle,
           dhSlot' \in Nat, dhSlot' # 0 => dhSlot' \in DhConns /\ dhConn[dhSlot'].h2
    PROVE  DhInv'
  <1>1. dhQ'[q] = s /\ \A r \in DhQueries \ {q} : dhQ'[r] = dhQ[r]
    BY DEF DhInv, DhTypeOK
  <1>2. DhTypeOK'
    BY DEF DhInv, DhTypeOK, DhConns
  <1>3. DhFreshId'
    BY DEF DhInv, DhFreshId, DhConns
  <1>4. DhHolds'
    <2>1. \A r \in DhQueries : DhMayHold(dhQ'[r])
      BY <1>1 DEF DhInv, DhHolds
    <2>2. \A r \in DhQueries : DhMayHold(dhQ[r])'
      BY <2>1 DEF DhMayHold, DhConns, DhOpen
    <2> QED
      BY <2>2 DEF DhHolds, DhConns
  <1>5. DhExclusive'
    <2> SUFFICES ASSUME NEW c \in DhConns, ~dhConn[c].h2, DhOpen(c)
                 PROVE  /\ \A r \in dhConn[c].wait : dhQ'[r].conn = c
                        /\ \A r, t \in DhQueries : dhQ'[r].conn = c /\ dhQ'[t].conn = c => r = t
      BY DEF DhExclusive, DhConns, DhOpen
    <2>1. dhConn[c].wait \subseteq DhQueries
      BY DEF DhInv, DhTypeOK, DhLinks
    <2>2. /\ \A r \in dhConn[c].wait : dhQ[r].conn = c
          /\ \A r, t \in DhQueries : dhQ[r].conn = c /\ dhQ[t].conn = c => r = t
      BY DEF DhInv, DhExclusive
    <2>3. c # 0
      BY DEF DhInv, DhFreshId
    <2>4. CASE s.conn = c /\ dhQ[q].conn # c
      <3>1. c \in dhIdle
        BY <2>4, <2>3
      <3>2. \A r \in DhQueries : dhQ[r].conn # c
        BY <3>1 DEF DhInv, DhIdleOK
      <3> QED
        BY <1>1, <2>1, <2>2, <2>4, <3>2
    <2>5. CASE s.conn # c \/ dhQ[q].conn = c
      BY <1>1, <2>1, <2>2, <2>3, <2>5
    <2> QED
      BY <2>4, <2>5
  <1>6. DhIdleOK'
    <2>1. IsFiniteSet(dhIdle') /\ Cardinality(dhIdle') <= DhMaxIdle
      <3>1. IsFiniteSet(dhIdle') /\ Cardinality(dhIdle') <= Cardinality(dhIdle)
        BY FS_Subset DEF DhInv, DhIdleOK
      <3>2. Cardinality(dhIdle') \in Nat /\ Cardinality(dhIdle) \in Nat
        BY <3>1, FS_CardinalityType DEF DhInv, DhIdleOK
      <3> QED
        BY <3>1, <3>2, DhAssumption DEF DhInv, DhIdleOK
    <2>2. ASSUME NEW c \in dhIdle'
          PROVE  c \in DhConns /\ ~dhConn[c].h2 /\ (DhOpen(c) => \A r \in DhQueries : dhQ'[r].conn # c)
      <3>1. /\ c \in DhConns /\ ~dhConn[c].h2
            /\ DhOpen(c) => \A r \in DhQueries : dhQ[r].conn # c
        BY <2>2 DEF DhInv, DhIdleOK
      <3>2. c # 0
        BY <3>1 DEF DhInv, DhFreshId
      <3> QED
        BY <3>1, <3>2, <1>1, <2>2
    <2> QED
      BY <2>1, <2>2 DEF DhIdleOK, DhConns, DhOpen
  <1> QED
    BY <1>2, <1>3, <1>4, <1>5, <1>6 DEF DhInv

\* A connection that nobody had is dialled for one query.
LEMMA DhDials ==
    ASSUME DhInv, NEW q \in DhQueries, NEW h2 \in BOOLEAN, NEW s \in DhStates,
           DhDialled(h2), dhQ' = [dhQ EXCEPT ![q] = s], s.conn = Cardinality(DhConns) + 1,
           s.pc = "send" \/ (s.pc = "put" /\ h2), dhIdle' = dhIdle,
           dhQ[q].pc \in {"dial", "fresh"},
           dhSlot' = dhSlot \/ (h2 /\ dhSlot' = Cardinality(DhConns) + 1)
    PROVE  DhInv'
  <1> DEFINE n == Cardinality(DhConns)
  <1>1. n \in Nat /\ DhConns = 1 .. n
    BY DEF DhInv, DhFreshId
  <1> HIDE DEF n
  <1>2. dhQ'[q] = s /\ \A r \in DhQueries \ {q} : dhQ'[r] = dhQ[r]
    BY DEF DhInv, DhTypeOK
  <1>3. /\ DhConns' = 1 .. n + 1
        /\ \A c \in DhConns : dhConn'[c] = dhConn[c]
        /\ dhConn'[n + 1] = [h2 |-> h2, open |-> TRUE, wait |-> {}]
        /\ dhConn' \in [1 .. n + 1 -> DhLinks]
    <2>1. dhConn' = [c \in DhConns \cup {n + 1} |->
                       IF c \in DhConns THEN dhConn[c] ELSE [h2 |-> h2, open |-> TRUE, wait |-> {}]]
      BY DEF DhDialled, n
    <2>2. DhConns \cup {n + 1} = 1 .. n + 1 /\ n + 1 \notin DhConns
      BY <1>1
    <2>3. [h2 |-> h2, open |-> TRUE, wait |-> {}] \in DhLinks
      BY DEF DhLinks
    <2>4. \A c \in DhConns : dhConn[c] \in DhLinks
      BY DEF DhInv, DhTypeOK
    <2>5. DOMAIN dhConn' = 1 .. n + 1
      BY <2>1, <2>2
    <2> QED
      BY <2>1, <2>2, <2>3, <2>4, <2>5 DEF DhConns
  <1>4. DhTypeOK'
    <2>1. dhSlot' \in Nat
      BY <1>1 DEF DhInv, DhTypeOK, n
    <2> QED
      BY <2>1, <1>3 DEF DhInv, DhTypeOK
  <1>5. DhFreshId'
    <2>1. Cardinality(1 .. n + 1) = n + 1
      BY <1>1, FS_Interval
    <2> QED
      BY <2>1, <1>1, <1>3 DEF DhFreshId
  <1>6. \A c \in DhConns : c \in DhConns' /\ c # n + 1 /\ c # 0
    BY <1>1, <1>3
  <1>7. n + 1 \in DhConns' /\ n + 1 # 0 /\ n + 1 \notin DhConns
    BY <1>1, <1>3
  <1>8. DhHolds'
    <2>1. ASSUME NEW r \in DhQueries \ {q} PROVE DhMayHold(dhQ[r])'
      <3>1. DhMayHold(dhQ[r]) /\ dhQ'[r] = dhQ[r]
        BY <1>2 DEF DhInv, DhHolds
      <3> QED
        BY <3>1, <1>3, <1>6 DEF DhMayHold, DhOpen
    <2>2. DhMayHold(dhQ[q])'
      BY <1>2, <1>3, <1>7 DEF DhMayHold, DhOpen, n
    <2>3. dhSlot' # 0 => dhSlot' \in DhConns' /\ dhConn'[dhSlot'].h2
      BY <1>3, <1>6, <1>7 DEF DhInv, DhHolds, n
    <2> QED
      BY <2>1, <2>2, <2>3 DEF DhHolds
  <1>9. \A r \in DhQueries : dhQ[r].conn # n + 1
    BY <1>7 DEF DhInv, DhHolds, DhMayHold
  <1>10. dhQ[q].conn = 0 \/ ~DhOpen(dhQ[q].conn)
    BY DEF DhInv, DhHolds, DhMayHold
  <1>11. s.conn = n + 1
    BY DEF n
  <1>12. DhExclusive'
    <2> SUFFICES ASSUME NEW c \in DhConns', ~dhConn'[c].h2, dhConn'[c].open
                 PROVE  /\ \A r \in dhConn'[c].wait : dhQ'[r].conn = c
                        /\ \A r, t \in DhQueries : dhQ'[r].conn = c /\ dhQ'[t].conn = c => r = t
      BY DEF DhExclusive, DhOpen
    <2>1. CASE c = n + 1
      <3>1. dhConn'[c].wait = {}
        BY <2>1, <1>3
      <3> QED
        BY <3>1, <2>1, <1>9, <1>2
    <2>2. CASE c \in DhConns
      <3>1. dhConn'[c] = dhConn[c] /\ c # n + 1 /\ c # 0
        BY <2>2, <1>3, <1>6
      <3>2. /\ \A r \in dhConn[c].wait : dhQ[r].conn = c
            /\ \A r, t \in DhQueries : dhQ[r].conn = c /\ dhQ[t].conn = c => r = t
            /\ dhConn[c].wait \subseteq DhQueries
        BY <2>2, <3>1 DEF DhInv, DhExclusive, DhOpen, DhTypeOK, DhLinks
      <3>3. dhQ[q].conn # c
        BY <3>1, <1>10 DEF DhOpen
      <3> QED
        BY <3>1, <3>2, <3>3, <1>2, <1>11
    <2> QED
      BY <2>1, <2>2, <1>1, <1>3
  <1>13. DhIdleOK'
    <2>1. ASSUME NEW c \in dhIdle
          PROVE  c \in DhConns' /\ ~dhConn'[c].h2 /\ (dhConn'[c].open => \A r \in DhQueries : dhQ'[r].conn # c)
      BY <2>1, <1>3, <1>6, <1>2, <1>11 DEF DhInv, DhIdleOK, DhOpen
    <2> QED
      BY <2>1 DEF DhInv, DhIdleOK, DhOpen
  <1> QED
    BY <1>4, <1>5, <1>8, <1>12, <1>13 DEF DhInv

\* A step on one connection: its protocol stays, and it does not come back.
DhOn(c, k) ==
    /\ c \in DhConns /\ k \in DhLinks
    /\ dhConn' = [dhConn EXCEPT ![c] = k]
    /\ k.h2 = dhConn[c].h2 /\ (k.open => DhOpen(c))

\* A step on connection c changes nothing else of the connections.
LEMMA DhOnConn ==
    ASSUME DhInv, NEW c, NEW k, DhOn(c, k)
    PROVE  /\ DhConns' = DhConns /\ dhConn' \in [DhConns -> DhLinks] /\ DhFreshId'
           /\ \A d \in DhConns : dhConn'[d].h2 = dhConn[d].h2 /\ (dhConn'[d].open => dhConn[d].open)
           /\ \A d \in DhConns \ {c} : dhConn'[d] = dhConn[d]
           /\ dhConn'[c] = k
  <1>1. DhConns' = DhConns
    BY DEF DhOn, DhConns
  <1>2. DhFreshId'
    BY <1>1 DEF DhInv, DhFreshId
  <1> QED
    BY <1>1, <1>2 DEF DhOn, DhInv, DhTypeOK, DhOpen

\* The queries other than q hold what they held when a step on a connection moves q.
LEMMA DhHoldsOn ==
    ASSUME DhInv, NEW c, NEW k, DhOn(c, k), NEW q \in DhQueries,
           \A r \in DhQueries \ {q} : dhQ'[r] = dhQ[r], DhMayHold(dhQ[q])', dhSlot' = dhSlot
    PROVE  DhHolds'
  <1>1. ASSUME NEW r \in DhQueries \ {q} PROVE DhMayHold(dhQ[r])'
    <2>1. DhMayHold(dhQ[r]) /\ dhQ'[r] = dhQ[r]
      BY DEF DhInv, DhHolds
    <2> QED
      BY <2>1, DhOnConn DEF DhMayHold, DhOpen
  <1>2. dhSlot' # 0 => dhSlot' \in DhConns' /\ dhConn'[dhSlot'].h2
    BY DhOnConn DEF DhInv, DhHolds
  <1> QED
    BY <1>1, <1>2 DEF DhHolds

\* Taking, storing and evicting a connection keep the invariant: the connection is handed
\* over whole.
LEMMA DhAcquires ==
    ASSUME DhInv, NEW q \in DhQueries, DhAcquireH1(q) \/ DhAcquire(q) \/ DhAcquireH2(q) \/ DhPut(q) \/ DhEvict(q) \/ DhEnd(q)
    PROVE  DhInv'
  <1>1. dhQ[q] \in DhStates /\ DhMayHold(dhQ[q])
    BY DEF DhInv, DhTypeOK, DhHolds
  <1>2. dhSlot \in Nat /\ (dhSlot # 0 => dhSlot \in DhConns /\ dhConn[dhSlot].h2)
    BY DEF DhInv, DhTypeOK, DhHolds
  <1>3. DhConns \subseteq Nat
    BY DEF DhInv, DhFreshId
  <1>4. CASE DhAcquireH1(q)
    <2>1. dhQ[q].conn = 0 /\ UNCHANGED <<dhConn, dhSlot>>
      BY <1>4, <1>1 DEF DhAcquireH1, DhMayHold
    <2>2. CASE dhIdle' = {} /\ dhQ' = [dhQ EXCEPT ![q].pc = "fresh"]
      <3> DEFINE s == [dhQ[q] EXCEPT !.pc = "fresh"]
      <3>1. s \in DhStates /\ s.pc = "fresh" /\ s.conn = 0
        BY <1>1, <2>1 DEF DhStates, DhPcs
      <3>2. dhQ' = [dhQ EXCEPT ![q] = s]
        BY <2>2
      <3> HIDE DEF s
      <3>3. DhMayHold(s)
        BY <3>1 DEF DhMayHold
      <3> QED
        BY <3>1, <3>2, <3>3, <2>1, <2>2, <1>2, DhHandsOver
    <2>3. ASSUME NEW c \in dhIdle, DhOpen(c), dhIdle' = dhIdle \ {c},
                 dhQ' = [dhQ EXCEPT ![q] = [pc |-> "send", conn |-> c, pooled |-> TRUE]]
          PROVE  DhInv'
      <3> DEFINE s == [pc |-> "send", conn |-> c, pooled |-> TRUE]
      <3>1. c \in DhConns /\ c # 0
        BY DEF DhInv, DhIdleOK, DhFreshId
      <3>2. s \in DhStates /\ s.pc = "send" /\ s.conn = c
        BY <3>1, <1>3 DEF DhStates, DhPcs
      <3>3. dhQ' = [dhQ EXCEPT ![q] = s]
        BY <2>3
      <3> HIDE DEF s
      <3>4. DhMayHold(s)
        BY <3>1, <3>2 DEF DhMayHold
      <3> QED
        BY <3>1, <3>2, <3>3, <3>4, <2>1, <2>3, <1>2, DhHandsOver
    <2> QED
      BY <2>2, <2>3, <1>4 DEF DhAcquireH1
  <1>5. CASE DhAcquireH2(q)
    <2>1. dhQ[q].conn = 0 /\ UNCHANGED <<dhConn, dhIdle>>
      BY <1>5, <1>1 DEF DhAcquireH2, DhMayHold
    <2>2. CASE /\ dhSlot # 0 /\ dhSlot' = dhSlot
               /\ dhQ' = [dhQ EXCEPT ![q] = [pc |-> "send", conn |-> dhSlot, pooled |-> TRUE]]
      <3> DEFINE s == [pc |-> "send", conn |-> dhSlot, pooled |-> TRUE]
      <3>1. s \in DhStates /\ s.pc = "send" /\ s.conn = dhSlot
        BY <1>2 DEF DhStates, DhPcs
      <3>2. dhQ' = [dhQ EXCEPT ![q] = s]
        BY <2>2
      <3> HIDE DEF s
      <3>3. DhMayHold(s)
        BY <3>1, <2>2, <1>2 DEF DhMayHold
      <3> QED
        BY <3>1, <3>2, <3>3, <2>1, <2>2, <1>2, DhHandsOver
    <2>3. CASE dhSlot' = 0 /\ dhQ' = [dhQ EXCEPT ![q].pc = "dial"]
      <3> DEFINE s == [dhQ[q] EXCEPT !.pc = "dial"]
      <3>1. s \in DhStates /\ s.pc = "dial" /\ s.conn = 0
        BY <1>1, <2>1 DEF DhStates, DhPcs
      <3>2. dhQ' = [dhQ EXCEPT ![q] = s]
        BY <2>3
      <3> HIDE DEF s
      <3>3. DhMayHold(s)
        BY <3>1 DEF DhMayHold
      <3> QED
        BY <3>1, <3>2, <3>3, <2>1, <2>3, DhHandsOver
    <2> QED
      BY <2>2, <2>3, <1>5 DEF DhAcquireH2
  <1>6. CASE DhPut(q)
    <2>1. UNCHANGED <<dhConn, dhIdle>> /\ dhSlot' = dhQ[q].conn
      BY <1>6 DEF DhPut
    <2>2. dhQ[q].conn # 0 /\ dhQ[q].conn \in DhConns /\ dhConn[dhQ[q].conn].h2
      BY <1>6, <1>1 DEF DhPut, DhMayHold
    <2> DEFINE s == [dhQ[q] EXCEPT !.pc = "send"]
    <2>3. s \in DhStates /\ s.pc = "send" /\ s.conn = dhQ[q].conn
      BY <1>1 DEF DhStates, DhPcs
    <2>4. dhQ' = [dhQ EXCEPT ![q] = s]
      BY <1>6 DEF DhPut
    <2> HIDE DEF s
    <2>5. DhMayHold(s)
      BY <2>2, <2>3 DEF DhMayHold
    <2> QED
      BY <2>1, <2>2, <2>3, <2>4, <2>5, <1>3, DhHandsOver
  <1>7. CASE DhEvict(q) \/ DhEnd(q)
    <2>1. UNCHANGED <<dhConn, dhIdle>> /\ dhSlot' \in {0, dhSlot}
      BY <1>7 DEF DhEvict, DhEnd
    <2>2. LET o == dhQ[q].conn IN o = 0 \/ dhConn[o].h2 \/ ~DhOpen(o)
      BY <1>7, <1>1 DEF DhEvict, DhEnd, DhMayHold
    <2>3. PICK s : s \in {DhAt("fresh"), DhAt("done")} /\ dhQ' = [dhQ EXCEPT ![q] = s]
      BY <1>7 DEF DhEvict, DhEnd
    <2>4. s \in DhStates /\ s.pc \in {"fresh", "done"} /\ s.conn = 0
      <3>1. CASE s = DhAt("fresh")
        BY <3>1 DEF DhAt, DhStates, DhPcs
      <3>2. CASE s = DhAt("done")
        BY <3>2 DEF DhAt, DhStates, DhPcs
      <3> QED
        BY <3>1, <3>2, <2>3
    <2>5. DhMayHold(s)
      BY <2>4 DEF DhMayHold
    <2>6. dhSlot' \in Nat /\ (dhSlot' # 0 => dhSlot' \in DhConns /\ dhConn[dhSlot'].h2)
      BY <2>1, <1>2
    <2> QED
      BY <2>1, <2>2, <2>3, <2>4, <2>5, <2>6, DhHandsOver
  <1>8. CASE DhAcquire(q)
    <2> DEFINE s == [dhQ[q] EXCEPT !.pc = "lock"]
    <2>1. UNCHANGED <<dhConn, dhIdle, dhSlot>> /\ dhQ[q].conn = 0
      BY <1>8, <1>1 DEF DhAcquire, DhMayHold
    <2>2. s \in DhStates /\ s.pc = "lock" /\ s.conn = 0
      BY <1>1, <2>1 DEF DhStates, DhPcs
    <2>3. dhQ' = [dhQ EXCEPT ![q] = s]
      BY <1>8 DEF DhAcquire
    <2> HIDE DEF s
    <2>4. DhMayHold(s)
      BY <2>2 DEF DhMayHold
    <2> QED
      BY <2>1, <2>2, <2>3, <2>4, <1>2, DhHandsOver
  <1> QED
    BY <1>4, <1>5, <1>6, <1>7, <1>8

\* A connection that is dialled is new to every query.
LEMMA DhConnects ==
    ASSUME DhInv, NEW q \in DhQueries, NEW h2 \in BOOLEAN, DhDial(q, h2) \/ DhFresh(q, h2)
    PROVE  DhInv'
  <1> DEFINE pc == IF DhFresh(q, h2) /\ h2 THEN "put" ELSE "send"
  <1>1. DhTypeOK /\ Cardinality(DhConns) + 1 \in Nat
    BY DEF DhInv, DhFreshId
  <1>2. PICK s : s = [pc |-> pc, conn |-> Cardinality(DhConns) + 1, pooled |-> FALSE]
    OBVIOUS
  <1>3. s \in DhStates /\ s.pc = pc /\ s.conn = Cardinality(DhConns) + 1
    BY <1>1, <1>2 DEF DhStates, DhPcs
  <1>4. dhQ' = [dhQ EXCEPT ![q] = s]
    BY <1>2 DEF DhDial, DhFresh
  <1>5. s.pc = "send" \/ (s.pc = "put" /\ h2)
    BY <1>3
  <1>6. /\ DhDialled(h2) /\ dhIdle' = dhIdle /\ dhQ[q].pc \in {"dial", "fresh"}
        /\ dhSlot' = dhSlot \/ (h2 /\ dhSlot' = Cardinality(DhConns) + 1)
    BY DEF DhDial, DhFresh
  <1> QED
    BY <1>3, <1>4, <1>5, <1>6, DhDials

\* The request goes out: only its query is added, and it is the one that uses the connection.
LEMMA DhSends ==
    ASSUME DhInv, NEW q \in DhQueries, DhSend(q)
    PROVE  DhInv'
  <1> DEFINE c == dhQ[q].conn
             k == [dhConn[c] EXCEPT !.wait = dhConn[c].wait \cup {q}]
  <1>1. dhQ[q] \in DhStates /\ DhMayHold(dhQ[q])
    BY DEF DhInv, DhTypeOK, DhHolds
  <1>2. c \in DhConns /\ c # 0 /\ DhOpen(c) /\ dhConn[c] \in DhLinks
    BY <1>1 DEF DhSend, DhMayHold, DhInv, DhTypeOK
  <1>3. k \in DhLinks /\ k.h2 = dhConn[c].h2 /\ k.open = dhConn[c].open /\ k.wait = dhConn[c].wait \cup {q}
    BY <1>2 DEF DhLinks
  <1>4. DhOn(c, k)
    BY <1>3, <1>2 DEF DhSend, DhOn
  <1>5. /\ dhQ' \in [DhQueries -> DhStates] /\ dhQ'[q].pc = "read" /\ dhQ'[q].conn = c
        /\ \A r \in DhQueries \ {q} : dhQ'[r] = dhQ[r]
    <2>1. /\ [dhQ[q] EXCEPT !.pc = "read"] \in DhStates /\ [dhQ[q] EXCEPT !.pc = "read"].pc = "read"
          /\ [dhQ[q] EXCEPT !.pc = "read"].conn = c
      BY <1>1 DEF DhStates, DhPcs
    <2> QED
      BY <2>1 DEF DhSend, DhInv, DhTypeOK
  <1>6. UNCHANGED <<dhSlot, dhLock, dhIdle, dhH1>>
    BY DEF DhSend
  <1> HIDE DEF c, k
  <1>7. /\ DhConns' = DhConns /\ dhConn' \in [DhConns -> DhLinks] /\ DhFreshId'
        /\ \A d \in DhConns : dhConn'[d].h2 = dhConn[d].h2 /\ (dhConn'[d].open => dhConn[d].open)
        /\ \A d \in DhConns \ {c} : dhConn'[d] = dhConn[d]
        /\ dhConn'[c] = k
    BY <1>4, DhOnConn
  <1>8. DhMayHold(dhQ[q])'
    BY <1>5, <1>2, <1>7 DEF DhMayHold
  <1>9. DhHolds'
    BY <1>4, <1>8, <1>5, <1>6, DhHoldsOn
  <1>10. \A r \in DhQueries : dhQ'[r].conn = dhQ[r].conn
    BY <1>5 DEF c
  <1>11. DhExclusive'
    <2> SUFFICES ASSUME NEW d \in DhConns, ~dhConn'[d].h2, dhConn'[d].open
                 PROVE  /\ \A r \in dhConn'[d].wait : dhQ'[r].conn = d
                        /\ \A r, t \in DhQueries : dhQ'[r].conn = d /\ dhQ'[t].conn = d => r = t
      BY <1>7 DEF DhExclusive, DhOpen
    <2>1. /\ \A r \in dhConn[d].wait : dhQ[r].conn = d
          /\ \A r, t \in DhQueries : dhQ[r].conn = d /\ dhQ[t].conn = d => r = t
          /\ dhConn[d].wait \subseteq DhQueries
      BY <1>7 DEF DhInv, DhExclusive, DhOpen, DhTypeOK, DhLinks
    <2>2. dhConn'[d].wait \subseteq dhConn[d].wait \cup {q} /\ (d # c => dhConn'[d].wait = dhConn[d].wait)
      BY <1>7, <1>3
    <2> QED
      BY <2>1, <2>2, <1>10 DEF c
  <1>12. DhIdleOK'
    BY <1>7, <1>10, <1>6 DEF DhInv, DhIdleOK, DhOpen
  <1> QED
    BY <1>9, <1>11, <1>12, <1>7, <1>5, <1>6 DEF DhInv, DhTypeOK

\* The connection goes back to the idle ones when the only query that used it is done with it.
LEMMA DhReads ==
    ASSUME DhInv, NEW q \in DhQueries, DhRead(q)
    PROVE  DhInv'
  <1> DEFINE c == dhQ[q].conn
             k == [dhConn[c] EXCEPT !.wait = dhConn[c].wait \ {q}]
  <1>1. dhQ[q] \in DhStates /\ DhMayHold(dhQ[q])
    BY DEF DhInv, DhTypeOK, DhHolds
  <1>2. c \in DhConns /\ c # 0 /\ DhOpen(c) /\ dhConn[c] \in DhLinks
    BY <1>1 DEF DhRead, DhMayHold, DhInv, DhTypeOK
  <1>3. k \in DhLinks /\ k.h2 = dhConn[c].h2 /\ k.open = dhConn[c].open /\ k.wait = dhConn[c].wait \ {q}
    BY <1>2 DEF DhLinks
  <1>4. DhOn(c, k)
    BY <1>3, <1>2 DEF DhRead, DhOn
  <1>5. /\ dhQ' \in [DhQueries -> DhStates] /\ dhQ'[q].pc = "done" /\ dhQ'[q].conn = 0
        /\ \A r \in DhQueries \ {q} : dhQ'[r] = dhQ[r]
    <2>1. DhAt("done") \in DhStates /\ DhAt("done").pc = "done" /\ DhAt("done").conn = 0
      BY DEF DhAt, DhStates, DhPcs
    <2> QED
      BY <2>1 DEF DhRead, DhInv, DhTypeOK
  <1>6. UNCHANGED <<dhSlot, dhLock, dhH1>> /\ dhIdle' = DhKept(c)
    BY DEF DhRead
  <1> HIDE DEF c, k
  <1>7. /\ DhConns' = DhConns /\ dhConn' \in [DhConns -> DhLinks] /\ DhFreshId'
        /\ \A d \in DhConns : dhConn'[d].h2 = dhConn[d].h2 /\ (dhConn'[d].open => dhConn[d].open)
        /\ \A d \in DhConns \ {c} : dhConn'[d] = dhConn[d]
        /\ dhConn'[c] = k
    BY <1>4, DhOnConn
  <1>8. DhMayHold(dhQ[q])'
    BY <1>5 DEF DhMayHold
  <1>9. DhHolds'
    BY <1>4, <1>8, <1>5, <1>6, DhHoldsOn
  <1>10. \A d \in DhConns : d # 0
    BY DEF DhInv, DhFreshId
  <1>11. DhExclusive'
    <2> SUFFICES ASSUME NEW d \in DhConns, ~dhConn'[d].h2, dhConn'[d].open
                 PROVE  /\ \A r \in dhConn'[d].wait : dhQ'[r].conn = d
                        /\ \A r, t \in DhQueries : dhQ'[r].conn = d /\ dhQ'[t].conn = d => r = t
      BY <1>7 DEF DhExclusive, DhOpen
    <2>1. /\ \A r \in dhConn[d].wait : dhQ[r].conn = d
          /\ \A r, t \in DhQueries : dhQ[r].conn = d /\ dhQ[t].conn = d => r = t
          /\ dhConn[d].wait \subseteq DhQueries
      BY <1>7 DEF DhInv, DhExclusive, DhOpen, DhTypeOK, DhLinks
    <2>2. dhConn'[d].wait \subseteq dhConn[d].wait \ {q}
      <3>1. CASE d = c
        BY <3>1, <1>7, <1>3
      <3>2. CASE d # c
        BY <3>2, <1>7, <2>1 DEF c
      <3> QED
        BY <3>1, <3>2
    <2> QED
      BY <2>1, <2>2, <1>5, <1>10
  <1>12. DhIdleOK'
    <2>1. IsFiniteSet(dhIdle) /\ Cardinality(dhIdle) \in Nat /\ Cardinality(dhIdle) <= DhMaxIdle
      BY FS_CardinalityType DEF DhInv, DhIdleOK
    <2>2. IsFiniteSet(dhIdle') /\ Cardinality(dhIdle') <= DhMaxIdle
      <3>1. CASE dhIdle' = dhIdle
        BY <3>1, <2>1
      <3>2. CASE dhIdle' = dhIdle \cup {c} /\ Cardinality(dhIdle) < DhMaxIdle
        <4>1. IsFiniteSet(dhIdle') /\ Cardinality(dhIdle') \in {Cardinality(dhIdle), Cardinality(dhIdle) + 1}
          BY <3>2, <2>1, FS_AddElement
        <4> QED
          BY <4>1, <3>2, <2>1, DhAssumption
      <3> QED
        BY <3>1, <3>2, <1>6 DEF DhKept
    <2>3. ASSUME NEW d \in dhIdle'
          PROVE  d \in DhConns /\ ~dhConn'[d].h2 /\ (dhConn'[d].open => \A r \in DhQueries : dhQ'[r].conn # d)
      <3>1. CASE d \in dhIdle
        BY <3>1, <1>7, <1>5, <1>10 DEF DhInv, DhIdleOK, DhOpen
      <3>2. CASE d = c /\ ~dhConn[c].h2
        <4>1. \A r \in DhQueries : dhQ[r].conn = c => r = q
          BY <3>2, <1>2 DEF DhInv, DhExclusive, c
        <4> QED
          BY <4>1, <3>2, <1>2, <1>7, <1>5
      <3> QED
        BY <3>1, <3>2, <2>3, <1>6 DEF DhKept
    <2> QED
      BY <2>2, <2>3, <1>7 DEF DhIdleOK, DhOpen
  <1> QED
    BY <1>9, <1>11, <1>12, <1>7, <1>5, <1>6 DEF DhInv, DhTypeOK

\* A failure ends the use of an HTTP/1.1 connection for good.
LEMMA DhFails ==
    ASSUME DhInv, NEW q \in DhQueries, DhFail(q)
    PROVE  DhInv'
  <1> DEFINE c == dhQ[q].conn
             k == IF dhConn[c].h2 THEN [dhConn[c] EXCEPT !.wait = dhConn[c].wait \ {q}]
                  ELSE [dhConn[c] EXCEPT !.open = FALSE]
  <1>1. dhQ[q] \in DhStates /\ DhMayHold(dhQ[q])
    BY DEF DhInv, DhTypeOK, DhHolds
  <1>2. c \in DhConns /\ c # 0 /\ dhConn[c] \in DhLinks
    BY <1>1 DEF DhFail, DhMayHold, DhInv, DhTypeOK
  <1>3. /\ k \in DhLinks /\ k.h2 = dhConn[c].h2 /\ (k.open => dhConn[c].open)
        /\ ~dhConn[c].h2 => ~k.open
    BY <1>2 DEF DhLinks
  <1>4. DhOn(c, k)
    <2>1. dhConn' = [dhConn EXCEPT ![c] = k]
      BY DEF DhFail
    <2> HIDE DEF c, k
    <2> QED
      BY <2>1, <1>3, <1>2 DEF DhOn, DhOpen
  <1>5. /\ dhQ' \in [DhQueries -> DhStates]
        /\ \/ dhQ'[q].pc = "done" /\ dhQ'[q].conn = 0
           \/ dhQ'[q].pc = "evict" /\ dhQ'[q].conn = c /\ dhConn[c].h2
           \/ dhQ'[q].pc = "fresh" /\ dhQ'[q].conn = c /\ ~dhConn[c].h2
        /\ \A r \in DhQueries \ {q} : dhQ'[r] = dhQ[r]
    <2>1. /\ DhAt("done") \in DhStates /\ DhAt("done").pc = "done" /\ DhAt("done").conn = 0
      BY DEF DhAt, DhStates, DhPcs
    <2>2. \A pc \in DhPcs : /\ [dhQ[q] EXCEPT !.pc = pc] \in DhStates
                            /\ [dhQ[q] EXCEPT !.pc = pc].pc = pc /\ [dhQ[q] EXCEPT !.pc = pc].conn = c
      BY <1>1 DEF DhStates
    <2>3. /\ DhAfter(q) \in DhStates
          /\ \/ DhAfter(q).pc = "done" /\ DhAfter(q).conn = 0
             \/ DhAfter(q).pc = "evict" /\ DhAfter(q).conn = c /\ dhConn[c].h2
             \/ DhAfter(q).pc = "fresh" /\ DhAfter(q).conn = c /\ ~dhConn[c].h2
      BY <2>1, <2>2 DEF DhAfter, DhPcs
    <2> HIDE DEF c
    <2> QED
      BY <2>3 DEF DhFail, DhInv, DhTypeOK
  <1>6. UNCHANGED <<dhSlot, dhLock, dhIdle, dhH1>>
    BY DEF DhFail
  <1> HIDE DEF c, k
  <1>7. /\ DhConns' = DhConns /\ dhConn' \in [DhConns -> DhLinks] /\ DhFreshId'
        /\ \A d \in DhConns : dhConn'[d].h2 = dhConn[d].h2 /\ (dhConn'[d].open => dhConn[d].open)
        /\ \A d \in DhConns \ {c} : dhConn'[d] = dhConn[d]
        /\ dhConn'[c] = k
    BY <1>4, DhOnConn
  <1>8. DhMayHold(dhQ[q])'
    BY <1>5, <1>2, <1>7, <1>3 DEF DhMayHold, DhOpen
  <1>9. DhHolds'
    BY <1>4, <1>8, <1>5, <1>6, DhHoldsOn
  <1>10. \A d \in DhConns : d # 0
    BY DEF DhInv, DhFreshId
  <1>11. \A d \in DhConns : ~dhConn'[d].h2 /\ dhConn'[d].open => d # c
    BY <1>7, <1>3, <1>2
  <1>12. DhExclusive'
    <2> SUFFICES ASSUME NEW d \in DhConns, ~dhConn'[d].h2, dhConn'[d].open
                 PROVE  /\ \A r \in dhConn'[d].wait : dhQ'[r].conn = d
                        /\ \A r, t \in DhQueries : dhQ'[r].conn = d /\ dhQ'[t].conn = d => r = t
      BY <1>7 DEF DhExclusive, DhOpen
    <2>1. d # c /\ dhConn'[d] = dhConn[d]
      BY <1>11, <1>7
    <2>2. /\ \A r \in dhConn[d].wait : dhQ[r].conn = d
          /\ \A r, t \in DhQueries : dhQ[r].conn = d /\ dhQ[t].conn = d => r = t
          /\ dhConn[d].wait \subseteq DhQueries
      BY <2>1 DEF DhInv, DhExclusive, DhOpen, DhTypeOK, DhLinks
    <2>3. dhQ[q].conn # d /\ dhQ'[q].conn # d
      BY <2>1, <1>5, <1>10 DEF c
    <2> QED
      BY <2>1, <2>2, <2>3, <1>5
  <1>13. DhIdleOK'
    <2>1. ASSUME NEW d \in dhIdle
          PROVE  d \in DhConns /\ ~dhConn'[d].h2 /\ (dhConn'[d].open => \A r \in DhQueries : dhQ'[r].conn # d)
      <3>1. /\ d \in DhConns /\ ~dhConn[d].h2
            /\ DhOpen(d) => \A r \in DhQueries : dhQ[r].conn # d
        BY <2>1 DEF DhInv, DhIdleOK
      <3> QED
        BY <3>1, <1>7, <1>5, <1>10, <1>11 DEF DhOpen
    <2> QED
      BY <2>1, <1>7, <1>6 DEF DhInv, DhIdleOK, DhOpen
  <1> QED
    BY <1>9, <1>12, <1>13, <1>7, <1>5, <1>6 DEF DhInv, DhTypeOK

\* A connection that closes stays in the hands it is in.
LEMMA DhCloses ==
    ASSUME DhInv, NEW c, DhClose(c)
    PROVE  DhInv'
  <1> DEFINE k == [dhConn[c] EXCEPT !.open = FALSE]
  <1>1. c \in DhConns /\ dhConn[c] \in DhLinks
    BY DEF DhClose, DhInv, DhTypeOK
  <1>2. k \in DhLinks /\ k.h2 = dhConn[c].h2 /\ ~k.open
    BY <1>1 DEF DhLinks
  <1>3. DhOn(c, k)
    BY <1>2, <1>1 DEF DhClose, DhOn
  <1>4. UNCHANGED <<dhQ, dhSlot, dhLock, dhIdle, dhH1>>
    BY DEF DhClose
  <1> HIDE DEF k
  <1>5. /\ DhConns' = DhConns /\ dhConn' \in [DhConns -> DhLinks] /\ DhFreshId'
        /\ \A d \in DhConns : dhConn'[d].h2 = dhConn[d].h2 /\ (dhConn'[d].open => dhConn[d].open)
        /\ \A d \in DhConns \ {c} : dhConn'[d] = dhConn[d]
        /\ dhConn'[c] = k
    BY <1>3, DhOnConn
  <1>6. DhHolds'
    <2>1. ASSUME NEW r \in DhQueries PROVE DhMayHold(dhQ[r])'
      <3>1. DhMayHold(dhQ[r]) /\ dhQ'[r] = dhQ[r]
        BY <1>4 DEF DhInv, DhHolds
      <3> QED
        BY <3>1, <1>5 DEF DhMayHold, DhOpen
    <2> QED
      BY <2>1, <1>5, <1>4 DEF DhInv, DhHolds
  <1>7. DhExclusive'
    BY <1>5, <1>4, <1>2 DEF DhInv, DhExclusive, DhOpen
  <1>8. DhIdleOK'
    BY <1>5, <1>4 DEF DhInv, DhIdleOK, DhOpen
  <1> QED
    BY <1>6, <1>7, <1>8, <1>5, <1>4 DEF DhInv, DhTypeOK

\* For any number of queries, connections and idle slots: an idle HTTP/1.1 connection is used
\* by nobody and owes nobody a response, there are never more than MAX_IDLE_H1 of them, and an
\* open HTTP/2 connection leaves the slot only through a query that failed on that very
\* connection (put_idle_h1, invalidate_h2).
THEOREM DhSafe == DhSpec => DhPoolSound
  <1>1. DhInit => DhInv
    <2> SUFFICES ASSUME DhInit PROVE DhInv
      OBVIOUS
    <2>1. DhConns = {} /\ dhConn \in [DhConns -> DhLinks]
      BY DEF DhInit, DhConns
    <2>2. Cardinality({}) = 0 /\ IsFiniteSet({})
      BY FS_EmptySet
    <2>3. DhFreshId
      BY <2>1, <2>2 DEF DhFreshId
    <2>4. DhAt("start") \in DhStates /\ DhAt("start").conn = 0 /\ DhAt("start").pc = "start"
      BY DEF DhAt, DhStates, DhPcs
    <2>5. DhTypeOK /\ DhHolds
      BY <2>1, <2>4 DEF DhInit, DhTypeOK, DhHolds, DhMayHold
    <2>6. DhExclusive /\ DhIdleOK
      BY <2>1, <2>2, DhAssumption DEF DhInit, DhExclusive, DhIdleOK
    <2> QED
      BY <2>3, <2>5, <2>6 DEF DhInv
  <1>2. DhInv /\ [DhNext]_dhVars => DhInv'
    <2> SUFFICES ASSUME DhInv, [DhNext]_dhVars PROVE DhInv'
      OBVIOUS
    <2>1. CASE UNCHANGED dhVars
      BY <2>1 DEF dhVars, DhInv, DhTypeOK, DhFreshId, DhHolds, DhMayHold, DhExclusive, DhIdleOK, DhConns, DhOpen
    <2> QED
      BY <2>1, DhAcquires, DhConnects, DhSends, DhReads, DhFails, DhCloses DEF DhNext
  <1>3. DhInv => DhCleanIdle
    <2> SUFFICES ASSUME DhInv, NEW c \in dhIdle, DhOpen(c)
                 PROVE  dhConn[c].wait = {} /\ \A q \in DhQueries : dhQ[q].conn # c
      BY DEF DhCleanIdle, DhInv, DhIdleOK
    <2>1. c \in DhConns /\ ~dhConn[c].h2 /\ \A q \in DhQueries : dhQ[q].conn # c
      BY DEF DhInv, DhIdleOK
    <2>2. dhConn[c].wait \subseteq DhQueries
      BY <2>1 DEF DhInv, DhTypeOK, DhLinks
    <2>3. \A q \in dhConn[c].wait : dhQ[q].conn = c
      BY <2>1 DEF DhInv, DhExclusive
    <2> QED
      BY <2>1, <2>2, <2>3
  <1>4. DhInv /\ [DhNext]_dhVars =>
          [dhSlot # 0 /\ dhSlot' = 0 =>
             \/ ~DhOpen(dhSlot)
             \/ \E q \in DhQueries : dhQ[q].pc = "evict" /\ dhQ[q].conn = dhSlot]_dhVars
    <2> SUFFICES ASSUME DhInv, DhNext, dhSlot # 0, dhSlot' = 0
                 PROVE  \/ ~DhOpen(dhSlot)
                        \/ \E q \in DhQueries : dhQ[q].pc = "evict" /\ dhQ[q].conn = dhSlot
      BY DEF dhVars
    <2>1. ASSUME NEW q \in DhQueries, DhAcquireH2(q) PROVE ~DhOpen(dhSlot)
      BY <2>1 DEF DhAcquireH2
    <2>2. ASSUME NEW q \in DhQueries, DhPut(q) PROVE FALSE
      BY <2>2 DEF DhPut, DhInv, DhHolds, DhMayHold
    <2>3. ASSUME NEW q \in DhQueries, NEW h2 \in BOOLEAN, DhDial(q, h2) PROVE FALSE
      <3>1. Cardinality(DhConns) + 1 # 0
        BY DEF DhInv, DhFreshId
      <3> QED
        BY <2>3, <3>1 DEF DhDial
    <2>4. ASSUME NEW q \in DhQueries, DhEvict(q) PROVE dhQ[q].pc = "evict" /\ dhQ[q].conn = dhSlot
      BY <2>4 DEF DhEvict
    <2>5. ASSUME NEW q \in DhQueries, NEW h2 \in BOOLEAN, DhFresh(q, h2) PROVE FALSE
      BY <2>5 DEF DhFresh
    <2>6. ASSUME NEW c, DhClose(c) PROVE FALSE
      BY <2>6 DEF DhClose
    <2>7. ASSUME NEW q \in DhQueries, DhAcquireH1(q) \/ DhAcquire(q) \/ DhSend(q) \/ DhRead(q) \/ DhFail(q) \/ DhEnd(q) PROVE FALSE
      BY <2>7 DEF DhAcquireH1, DhAcquire, DhSend, DhRead, DhFail, DhEnd
    <2> QED
      BY <2>1, <2>2, <2>3, <2>4, <2>5, <2>6, <2>7 DEF DhNext
  <1> QED
    BY <1>1, <1>2, <1>3, <1>4, PTL DEF DhSpec, DhPoolSound, DhKeepsGood

-----------------------------------------------------------------------------
(* FakeIP *)

FiPcs == {"get", "take", "load", "save", "addr", "ptr", "done"}
FiStates == [pc : FiPcs, cur : Nat, save : Nat]

\* What a flush may leave.
FiLefts ==
    [saved : Nat, addr : [FiDomains -> 0 .. FiHosts], ptr : [0 .. FiHosts - 1 -> FiDomains \cup {"none"}],
     given : SUBSET (FiDomains \X (0 .. FiHosts - 1)), top : Nat, half : SUBSET FiDomains]

FiTypeOK ==
    /\ fiJob \in [FiLookups -> FiStates]
    /\ fiCursor \in Nat /\ fiSaved \in Nat /\ fiTook \in Nat /\ fiBehind \in BOOLEAN
    /\ fiAddr \in [FiDomains -> 0 .. FiHosts]
    /\ fiPtr \in [0 .. FiHosts - 1 -> FiDomains \cup {"none"}]
    /\ fiGiven \subseteq FiDomains \X (0 .. FiHosts - 1) /\ fiTop \in Nat
    /\ fiKept \in FiLefts

\* The range is not used up, and no restart has gone back behind an entry.
FiGood == fiTook <= FiHosts /\ ~fiBehind

FiHas(l) == fiJob[l].pc \in {"load", "save", "addr", "ptr"}

\* No saved cursor and no entry is ahead of the cursor, and that not of the number of
\* addresses taken.
FiCounted ==
    /\ fiCursor <= fiTook /\ fiSaved <= fiTook /\ fiTop <= fiCursor
    /\ \A l \in FiLookups : fiJob[l].pc = "save" => fiJob[l].save <= fiCursor
    /\ \A l \in FiLookups : FiHas(l) => fiJob[l].cur < fiCursor
    /\ \A l \in FiLookups : fiJob[l].pc = "ptr" => fiJob[l].cur < fiTop

\* What says that an address is a domain's.
FiOwns(d, h) ==
    \/ \E l \in FiLookups : FiHas(l) /\ FiDomain[l] = d /\ fiJob[l].cur = h
    \/ fiAddr[d] = h
    \/ fiPtr[h] = d
    \/ <<d, h>> \in fiGiven

\* An address is one domain's, and only after a lookup has taken it.
FiOneOwner == \A h \in 0 .. FiHosts - 1 : \A d \in FiDomains : FiOwns(d, h) =>
    h < fiCursor /\ \A e \in FiDomains : FiOwns(e, h) => e = d

\* What is in the cache is below the top.
FiStored == \A h \in 0 .. FiHosts - 1 : \A d \in FiDomains :
    fiAddr[d] = h \/ fiPtr[h] = d \/ <<d, h>> \in fiGiven => h < fiTop

\* The way back is there, or is about to be stored, or its lookup ended before.
FiBack(d, h) ==
    \/ fiPtr[h] = d
    \/ /\ fiPtr[h] = "none"
       /\ d \in fiTorn \/ \E l \in FiLookups : fiJob[l].pc = "ptr" /\ FiDomain[l] = d /\ fiJob[l].cur = h

FiBacked == \A d \in FiDomains : \A h \in 0 .. FiHosts - 1 :
    fiAddr[d] = h \/ <<d, h>> \in fiGiven => FiBack(d, h)

\* The same of what a flush has left: a restart from it is as good.
FiLeftOwns(f, d, h) == f.addr[d] = h \/ f.ptr[h] = d \/ <<d, h>> \in f.given

FiLeftOK(f) ==
    /\ f.saved <= fiTook
    /\ \A h \in 0 .. FiHosts - 1 : \A d \in FiDomains : FiLeftOwns(f, d, h) =>
         h < f.top /\ \A e \in FiDomains : FiLeftOwns(f, e, h) => e = d
    /\ \A d \in FiDomains : \A h \in 0 .. FiHosts - 1 : f.addr[d] = h \/ <<d, h>> \in f.given =>
         f.ptr[h] = d \/ (f.ptr[h] = "none" /\ d \in fiTorn \cup f.half)

FiSound == FiCounted /\ FiOneOwner /\ FiStored /\ FiBacked

FiInv == FiTypeOK /\ (FiGood => FiSound /\ FiLeftOK(fiKept))

\* The addresses of the range, in order.
LEMMA FiHostRange ==
    /\ \A c \in Nat : FiHost(c) \in 0 .. FiHosts - 1
    /\ \A c \in Nat : c < FiHosts => FiHost(c) = c
  BY FiAssumption DEF FiHost

\* A lookup has a domain, and none is the mark of an empty entry.
LEMMA FiDomainsNamed ==
    /\ \A l \in FiLookups : FiDomain[l] \in FiDomains
    /\ "none" \notin FiDomains
  BY FiAssumption DEF FiDomains

\* A lookup that moves: what it keeps, and that the others stay where they are.
LEMMA FiGoes ==
    ASSUME FiTypeOK, NEW l \in FiLookups, NEW pc \in FiPcs, FiGo(l, pc)
    PROVE  /\ fiJob' \in [FiLookups -> FiStates]
           /\ fiJob'[l].pc = pc
           /\ pc # "done" => fiJob'[l].cur = fiJob[l].cur /\ fiJob'[l].save = fiJob[l].save
           /\ \A k \in FiLookups \ {l} : fiJob'[k] = fiJob[k]
  <1>1. fiJob[l] \in FiStates
    BY DEF FiTypeOK
  <1>2. FiAt(pc) \in FiStates /\ [fiJob[l] EXCEPT !.pc = pc] \in FiStates
    BY <1>1 DEF FiAt, FiStates
  <1>3. /\ [fiJob[l] EXCEPT !.pc = pc].pc = pc /\ [fiJob[l] EXCEPT !.pc = pc].cur = fiJob[l].cur
        /\ [fiJob[l] EXCEPT !.pc = pc].save = fiJob[l].save
    BY <1>1 DEF FiStates
  <1> QED
    BY <1>2, <1>3 DEF FiGo, FiTypeOK, FiAt

\* What a flush finds.
LEMMA FiNowTyped ==
    ASSUME FiTypeOK
    PROVE  FiNow \in FiLefts
  <1>1. FiHalf(FiLookups) \subseteq FiDomains
    BY FiDomainsNamed DEF FiHalf
  <1> QED
    BY <1>1 DEF FiNow, FiLefts, FiTypeOK

\* Where lookups, cursor and entries go in each step; this much holds also after the
\* range is used up.
LEMMA FiTyped ==
    ASSUME FiTypeOK, [FiNext]_fiVars
    PROVE  FiTypeOK' /\ (FiGood' => FiGood)
  <1> USE DEF FiTypeOK, FiGood
  <1>1. \A l \in FiLookups : fiJob[l] \in FiStates /\ fiJob[l].cur \in Nat /\ fiJob[l].save \in Nat
    BY DEF FiStates
  <1>2. ASSUME NEW l \in FiLookups, FiGet(l) PROVE FiTypeOK' /\ (FiGood' => FiGood)
    <2>1. fiJob' \in [FiLookups -> FiStates]
      BY <1>2, FiGoes DEF FiGet, FiPcs
    <2>2. fiGiven' \subseteq FiDomains \X (0 .. FiHosts - 1)
      BY <1>2, FiDomainsNamed, FiAssumption DEF FiGet, FiAnswer, FiNoHost
    <2> QED
      BY <2>1, <2>2, <1>2 DEF FiGet
  <1>3. ASSUME NEW l \in FiLookups, FiTake(l) PROVE FiTypeOK' /\ (FiGood' => FiGood)
    <2>1. fiJob' \in [FiLookups -> FiStates]
      BY <1>3, <1>1 DEF FiTake, FiPcs, FiStates
    <2> QED
      BY <2>1, <1>3, FiAssumption DEF FiTake, fiCache
  <1>4. ASSUME NEW l \in FiLookups, FiLoad(l) PROVE FiTypeOK' /\ (FiGood' => FiGood)
    <2>1. fiJob' \in [FiLookups -> FiStates]
      BY <1>4, <1>1 DEF FiLoad, FiPcs, FiStates
    <2> QED
      BY <2>1, <1>4 DEF FiLoad, fiCache
  <1>5. ASSUME NEW l \in FiLookups, FiSave(l) PROVE FiTypeOK' /\ (FiGood' => FiGood)
    <2>1. fiJob' \in [FiLookups -> FiStates]
      BY <1>5, FiGoes DEF FiSave, FiPcs
    <2> QED
      BY <2>1, <1>5, <1>1 DEF FiSave
  <1>6. ASSUME NEW l \in FiLookups, FiSetAddr(l) PROVE FiTypeOK' /\ (FiGood' => FiGood)
    <2>1. fiJob' \in [FiLookups -> FiStates]
      BY <1>6, FiGoes DEF FiSetAddr, FiPcs
    <2>2. FiHost(fiJob[l].cur) \in 0 .. FiHosts - 1
      BY <1>1, FiHostRange
    <2>3. 0 .. FiHosts - 1 \subseteq 0 .. FiHosts
      BY FiAssumption
    <2>4. FiHost(fiJob[l].cur) \in 0 .. FiHosts
      BY <2>2, <2>3
    <2>5. fiTop' \in Nat
      BY <1>6, <1>1 DEF FiSetAddr
    <2> QED
      BY <2>1, <2>4, <2>5, <1>6 DEF FiSetAddr
  <1>7. ASSUME NEW l \in FiLookups, FiSetPtr(l) PROVE FiTypeOK' /\ (FiGood' => FiGood)
    <2>1. fiJob' \in [FiLookups -> FiStates]
      BY <1>7, FiGoes DEF FiSetPtr, FiPcs
    <2>2. FiHost(fiJob[l].cur) \in 0 .. FiHosts - 1
      BY <1>1, FiHostRange
    <2>3. fiGiven' \subseteq FiDomains \X (0 .. FiHosts - 1)
      BY <1>7, <2>2, FiDomainsNamed DEF FiSetPtr, FiAnswer
    <2> QED
      BY <2>1, <2>2, <2>3, <1>7, FiDomainsNamed DEF FiSetPtr
  <1>8. ASSUME NEW l \in FiLookups, FiFails(l) PROVE FiTypeOK' /\ (FiGood' => FiGood)
    <2>1. fiJob' \in [FiLookups -> FiStates]
      BY <1>8, FiGoes DEF FiFails, FiPcs
    <2> QED
      BY <2>1, <1>8 DEF FiFails, fiCache
  <1>9. ASSUME NEW f \in FiLefts, FiRestart(f) PROVE FiTypeOK' /\ (FiGood' => FiGood)
    <2>1. FiAt("done") \in FiStates
      BY DEF FiAt, FiStates, FiPcs
    <2>2. fiJob' \in [FiLookups -> FiStates]
      BY <2>1, <1>9 DEF FiRestart
    <2>3. fiBehind' \in BOOLEAN /\ (fiBehind => fiBehind')
      BY <1>9 DEF FiRestart
    <2>4. [f EXCEPT !.half = {}] \in FiLefts
      BY DEF FiLefts
    <2>5. /\ f.saved \in Nat /\ f.addr \in [FiDomains -> 0 .. FiHosts]
          /\ f.ptr \in [0 .. FiHosts - 1 -> FiDomains \cup {"none"}]
          /\ f.given \subseteq FiDomains \X (0 .. FiHosts - 1) /\ f.top \in Nat
      BY DEF FiLefts
    <2> QED
      BY <2>2, <2>3, <2>4, <2>5, <1>9 DEF FiRestart
  <1>10. FiNow \in FiLefts
    BY FiNowTyped
  <1>11. CASE FiFlush
    BY <1>11, <1>10 DEF FiFlush, fiCache
  <1>12. CASE FiStop \/ FiCrash
    BY <1>9, <1>12, <1>10 DEF FiStop, FiCrash
  <1>13. CASE UNCHANGED fiVars
    BY <1>13 DEF fiVars, fiCache
  <1> QED
    BY <1>2, <1>3, <1>4, <1>5, <1>6, <1>7, <1>8, <1>11, <1>12, <1>13 DEF FiNext

\* Nobody comes to own an address that a domain has.
LEMMA FiStillOwned ==
    ASSUME FiTypeOK, FiOneOwner, fiCursor' \in Nat, fiCursor' >= fiCursor,
           \A h \in 0 .. FiHosts - 1 : \A d \in FiDomains : FiOwns(d, h)' => FiOwns(d, h)
    PROVE  FiOneOwner'
  BY DEF FiTypeOK, FiOneOwner

\* Moving on without touching the entries.
LEMMA FiMoves ==
    ASSUME FiTypeOK, FiSound, NEW l \in FiLookups, NEW pc \in FiPcs,
           fiJob' \in [FiLookups -> FiStates], fiJob'[l].pc = pc,
           FiHas(l)' => FiHas(l) /\ fiJob'[l].cur = fiJob[l].cur,
           fiJob[l].pc = "ptr" => FiDomain[l] \in fiTorn', pc # "ptr",
           pc = "save" => fiJob'[l].save <= fiCursor,
           \A k \in FiLookups \ {l} : fiJob'[k] = fiJob[k],
           UNCHANGED <<fiCursor, fiTook, fiAddr, fiPtr, fiGiven, fiTop>>,
           fiSaved' \in Nat, fiSaved' <= fiTook, fiTorn \subseteq fiTorn'
    PROVE  FiSound'
  <1> USE DEF FiSound
  <1>1. FiStored'
    BY DEF FiStored
  <1>2. FiCounted'
    BY DEF FiCounted, FiHas
  <1>3. FiOneOwner'
    <2>1. ASSUME NEW h \in 0 .. FiHosts - 1, NEW d \in FiDomains, FiOwns(d, h)' PROVE FiOwns(d, h)
      BY <2>1 DEF FiOwns, FiHas
    <2> QED
      BY <2>1, FiStillOwned DEF FiTypeOK
  <1>4. FiBacked'
    <2>1. ASSUME NEW h \in 0 .. FiHosts - 1, NEW d \in FiDomains, FiBack(d, h) PROVE FiBack(d, h)'
      BY <2>1 DEF FiBack
    <2> QED
      BY <2>1 DEF FiBacked
  <1> QED
    BY <1>1, <1>2, <1>3, <1>4

\* Every step of a lookup keeps the cursor ahead of what was taken and each host with one
\* domain.
LEMMA FiLookupStep ==
    ASSUME FiTypeOK, FiTypeOK', FiGood, FiSound, FiGood', NEW l \in FiLookups,
           FiGet(l) \/ FiTake(l) \/ FiLoad(l) \/ FiSave(l) \/ FiSetAddr(l) \/ FiSetPtr(l) \/ FiFails(l)
    PROVE  FiSound'
  <1> USE DEF FiSound
  <1>1. FiDomain[l] \in FiDomains /\ "none" \notin FiDomains
    BY FiDomainsNamed
  <1>2. fiJob[l] \in FiStates /\ fiJob[l].cur \in Nat /\ fiJob[l].save \in Nat
    BY DEF FiTypeOK, FiStates
  <1>3. CASE FiGet(l)
    <2>1. CASE FiGo(l, "take") /\ UNCHANGED fiGiven
      <3>1. FiGo(l, "take") /\ UNCHANGED <<fiCursor, fiTook, fiAddr, fiPtr, fiGiven, fiTop, fiSaved, fiTorn>> /\ fiJob[l].pc = "get"
        BY <1>3, <2>1 DEF FiGet
      <3>2. fiSaved' \in Nat /\ fiSaved' <= fiTook
        BY <3>1 DEF FiCounted, FiTypeOK
      <3> QED
        BY <3>1, <3>2, FiGoes, FiMoves DEF FiPcs, FiHas
    <2>2. CASE fiAddr[FiDomain[l]] # FiNoHost /\ FiGo(l, "done") /\ FiAnswer(l, fiAddr[FiDomain[l]])
      <3> DEFINE d == FiDomain[l]
                 h == fiAddr[d]
      <3>1. /\ FiGo(l, "done") /\ UNCHANGED <<fiCursor, fiTook, fiAddr, fiPtr, fiTop, fiSaved, fiTorn>> /\ fiJob[l].pc = "get"
            /\ fiGiven' = fiGiven \cup {<<d, h>>}
        BY <1>3, <2>2 DEF FiGet, FiAnswer
      <3>2. /\ fiJob' \in [FiLookups -> FiStates] /\ fiJob'[l].pc = "done"
            /\ \A k \in FiLookups \ {l} : fiJob'[k] = fiJob[k]
        BY <3>1, FiGoes DEF FiPcs
      <3>3. FiCounted'
        BY <3>1, <3>2 DEF FiCounted, FiHas
      <3>4. FiOneOwner'
        <4>1. ASSUME NEW g \in 0 .. FiHosts - 1, NEW e \in FiDomains, FiOwns(e, g)' PROVE FiOwns(e, g)
          BY <4>1, <3>1, <3>2 DEF FiOwns, FiHas
        <4>2. fiCursor' \in Nat /\ fiCursor' >= fiCursor
          BY <3>1 DEF FiTypeOK
        <4> QED
          BY <4>1, <4>2, FiStillOwned
      <3>5. FiBacked'
        <4>1. ASSUME NEW g \in 0 .. FiHosts - 1, NEW e \in FiDomains, FiBack(e, g) PROVE FiBack(e, g)'
          BY <4>1, <3>1, <3>2 DEF FiBack
        <4> QED
          BY <4>1, <3>1 DEF FiBacked
      <3>6. FiStored'
        BY <3>1 DEF FiStored
      <3> QED
        BY <3>3, <3>4, <3>5, <3>6
    <2> QED
      BY <1>3, <2>1, <2>2 DEF FiGet
  <1>4. CASE FiTake(l)
    <2>1. /\ fiJob'[l].pc = "load" /\ fiJob'[l].cur = fiCursor
          /\ \A k \in FiLookups \ {l} : fiJob'[k] = fiJob[k]
          /\ fiJob[l].pc = "take" /\ fiCursor' = fiCursor + 1 /\ fiTook' = fiTook + 1
          /\ UNCHANGED <<fiAddr, fiPtr, fiGiven, fiTop, fiSaved, fiTorn>>
      BY <1>4, <1>2 DEF FiTake, FiTypeOK, FiStates, fiCache
    <2>2. \A k \in FiLookups : fiJob[k].cur \in Nat /\ fiJob[k].save \in Nat
      BY DEF FiTypeOK, FiStates
    <2>3. FiCounted'
      <3>1. \A k \in FiLookups : fiJob'[k].pc = "save" => fiJob'[k].save <= fiCursor'
        BY <2>1, <2>2 DEF FiCounted, FiTypeOK
      <3>2. \A k \in FiLookups : FiHas(k)' => fiJob'[k].cur < fiCursor'
        BY <2>1, <2>2 DEF FiCounted, FiTypeOK, FiHas
      <3> QED
        BY <3>1, <3>2, <2>1 DEF FiCounted, FiTypeOK
    <2>4. FiOneOwner'
      <3>1. ASSUME NEW h \in 0 .. FiHosts - 1, NEW d \in FiDomains, FiOwns(d, h)'
            PROVE  FiOwns(d, h) \/ (h = fiCursor /\ d = FiDomain[l])
        BY <3>1, <2>1 DEF FiOwns, FiHas
      <3>2. \A h \in 0 .. FiHosts - 1 : \A d \in FiDomains : FiOwns(d, h) => h < fiCursor
        BY DEF FiOneOwner
      <3> QED
        BY <3>1, <3>2, <2>1 DEF FiOneOwner, FiTypeOK
    <2>5. FiBacked'
      <3>1. ASSUME NEW g \in 0 .. FiHosts - 1, NEW e \in FiDomains, FiBack(e, g) PROVE FiBack(e, g)'
        BY <3>1, <2>1 DEF FiBack
      <3> QED
        BY <3>1, <2>1 DEF FiBacked
    <2>6. FiStored'
      BY <2>1 DEF FiStored
    <2> QED
      BY <2>3, <2>4, <2>5, <2>6
  <1>5. CASE FiLoad(l)
    <2>1. /\ fiJob'[l].pc = "save" /\ fiJob'[l].cur = fiJob[l].cur /\ fiJob'[l].save = fiCursor
          /\ \A k \in FiLookups \ {l} : fiJob'[k] = fiJob[k]
          /\ fiJob[l].pc = "load" /\ UNCHANGED <<fiCursor, fiTook, fiAddr, fiPtr, fiGiven, fiTop, fiSaved, fiTorn>>
      BY <1>5, <1>2 DEF FiLoad, FiTypeOK, FiStates, fiCache
    <2>2. fiJob' \in [FiLookups -> FiStates] /\ fiSaved' \in Nat /\ fiSaved' <= fiTook /\ fiCursor <= fiCursor
      BY <2>1 DEF FiTypeOK, FiCounted
    <2> QED
      BY <2>1, <2>2, FiMoves DEF FiPcs, FiHas
  <1>6. CASE FiSave(l)
    <2>1. /\ FiGo(l, "addr") /\ fiJob[l].pc = "save"
          /\ UNCHANGED <<fiCursor, fiTook, fiAddr, fiPtr, fiGiven, fiTop, fiTorn>>
      BY <1>6 DEF FiSave
    <2>2. fiSaved' \in Nat /\ fiSaved' <= fiTook
      BY <1>6, <1>2 DEF FiSave, FiTypeOK, FiCounted
    <2> QED
      BY <2>1, <2>2, FiGoes, FiMoves DEF FiPcs, FiHas
  <1>7. fiJob[l].pc \in {"addr", "ptr"} =>
          /\ FiHas(l) /\ fiJob[l].cur < FiHosts /\ fiJob[l].cur \in 0 .. FiHosts - 1
          /\ FiHost(fiJob[l].cur) = fiJob[l].cur
    <2>1. FiHas(l) => fiJob[l].cur < FiHosts
      BY <1>2, FiAssumption DEF FiCounted, FiTypeOK, FiGood
    <2> QED
      BY <2>1, <1>2, FiHostRange, FiAssumption DEF FiHas
  <1>8. CASE FiSetAddr(l)
    <2>1. PICK d \in FiDomains : d = FiDomain[l]
      BY <1>1
    <2>2. PICK h \in 0 .. FiHosts - 1 : h = fiJob[l].cur
      BY <1>8, <1>7 DEF FiSetAddr
    <2>3. /\ FiGo(l, "ptr") /\ fiJob[l].pc = "addr" /\ fiAddr' = [fiAddr EXCEPT ![d] = h]
          /\ UNCHANGED <<fiCursor, fiTook, fiPtr, fiGiven, fiSaved, fiTorn>>
      BY <1>8, <1>7, <2>1, <2>2 DEF FiSetAddr
    <2>4. /\ fiJob' \in [FiLookups -> FiStates] /\ fiJob'[l].pc = "ptr" /\ fiJob'[l].cur = h
          /\ \A k \in FiLookups \ {l} : fiJob'[k] = fiJob[k]
      BY <2>3, <2>2, FiGoes DEF FiPcs
    <2>5. FiHas(l)
      BY <2>3, <1>7
    <2>6. fiAddr'[d] = h /\ \A e \in FiDomains \ {d} : fiAddr'[e] = fiAddr[e]
      BY <2>3 DEF FiTypeOK
    <2>7. FiOwns(d, h)
      BY <2>5, <2>1, <2>2 DEF FiOwns
    <2>8. fiTop' \in Nat /\ fiTop <= fiTop' /\ h < fiTop' /\ (fiTop <= fiCursor /\ h < fiCursor => fiTop' <= fiCursor)
      BY <1>8, <2>2 DEF FiSetAddr, FiTypeOK
    <2>9. FiCounted'
      <3>1. \A k \in FiLookups : fiJob[k].cur \in Nat
        BY DEF FiTypeOK, FiStates
      <3>2. \A k \in FiLookups : fiJob'[k].pc = "ptr" => fiJob'[k].cur < fiTop'
        <4> SUFFICES ASSUME NEW k \in FiLookups, fiJob'[k].pc = "ptr" PROVE fiJob'[k].cur < fiTop'
          OBVIOUS
        <4>1. CASE k = l
          BY <2>4, <2>8, <4>1
        <4>2. CASE k # l
          <5>1. fiJob'[k] = fiJob[k]
            BY <2>4, <4>2
          <5>2. fiJob[k].cur < fiTop
            BY <5>1 DEF FiCounted
          <5>3. PICK x : x = fiJob[k].cur
            OBVIOUS
          <5>4. x \in Nat /\ x < fiTop /\ fiTop \in Nat /\ fiTop' \in Nat /\ fiTop <= fiTop'
            BY <2>8, <3>1, <5>2, <5>3 DEF FiTypeOK
          <5>5. x < fiTop'
            BY <5>4
          <5> QED
            BY <5>1, <5>3, <5>5
        <4> QED
          BY <4>1, <4>2
      <3>3. \A k \in FiLookups : FiHas(k)' => fiJob'[k].cur < fiCursor'
        BY <2>3, <2>4, <2>5, <2>2 DEF FiCounted, FiHas
      <3>4. \A k \in FiLookups : fiJob'[k].pc = "save" => fiJob'[k].save <= fiCursor'
        BY <2>3, <2>4 DEF FiCounted
      <3>5. h < fiCursor
        BY <2>5, <2>2 DEF FiCounted
      <3> QED
        BY <2>3, <2>8, <3>2, <3>3, <3>4, <3>5 DEF FiCounted
    <2>10. FiStored'
      BY <2>3, <2>6, <2>8 DEF FiStored, FiTypeOK
    <2>11. FiOneOwner'
      <3>1. ASSUME NEW g \in 0 .. FiHosts - 1, NEW e \in FiDomains, FiOwns(e, g)' PROVE FiOwns(e, g)
        <4>1. CASE e = d /\ g = h
          BY <4>1, <2>7
        <4>2. CASE \E k \in FiLookups : FiHas(k)' /\ FiDomain[k] = e /\ fiJob'[k].cur = g
          BY <4>2, <2>4, <2>5, <2>2 DEF FiOwns, FiHas
        <4>3. CASE fiAddr'[e] = g
          BY <4>1, <4>3, <2>6 DEF FiOwns
        <4> QED
          BY <4>2, <4>3, <3>1, <2>3 DEF FiOwns
      <3>2. fiCursor' \in Nat /\ fiCursor' >= fiCursor
        BY <2>3 DEF FiTypeOK
      <3> QED
        BY <3>1, <3>2, FiStillOwned
    <2>12. FiBacked'
      <3>1. ASSUME NEW g \in 0 .. FiHosts - 1, NEW e \in FiDomains, FiBack(e, g) PROVE FiBack(e, g)'
        BY <3>1, <2>3, <2>4 DEF FiBack
      <3>2. FiBack(d, h)'
        <4>1. fiPtr[h] # "none" => fiPtr[h] = d
          BY <2>7, <1>1 DEF FiOneOwner, FiOwns, FiTypeOK
        <4> QED
          BY <4>1, <2>3, <2>4, <2>1 DEF FiBack
      <3> QED
        BY <3>1, <3>2, <2>3, <2>6 DEF FiBacked
    <2> QED
      BY <2>9, <2>11, <2>12, <2>10
  <1>9. CASE FiSetPtr(l)
    <2>1. PICK d \in FiDomains : d = FiDomain[l]
      BY <1>1
    <2>2. PICK h \in 0 .. FiHosts - 1 : h = fiJob[l].cur
      BY <1>9, <1>7 DEF FiSetPtr
    <2>3. /\ FiGo(l, "done") /\ fiJob[l].pc = "ptr" /\ fiPtr' = [fiPtr EXCEPT ![h] = d]
          /\ fiGiven' = fiGiven \cup {<<d, h>>}
          /\ UNCHANGED <<fiCursor, fiTook, fiAddr, fiTop, fiSaved, fiTorn>>
      BY <1>9, <1>7, <2>1, <2>2 DEF FiSetPtr, FiAnswer
    <2>4. /\ fiJob' \in [FiLookups -> FiStates] /\ fiJob'[l].pc = "done"
          /\ \A k \in FiLookups \ {l} : fiJob'[k] = fiJob[k]
      BY <2>3, <2>2, FiGoes DEF FiPcs
    <2>5. FiHas(l)
      BY <2>3, <1>7
    <2>6. fiPtr'[h] = d /\ \A g \in 0 .. FiHosts - 1 : g # h => fiPtr'[g] = fiPtr[g]
      BY <2>3 DEF FiTypeOK
    <2>7. FiOwns(d, h)
      BY <2>5, <2>1, <2>2 DEF FiOwns
    <2>8. FiCounted'
      BY <2>3, <2>4 DEF FiCounted, FiHas
    <2>9. FiOneOwner'
      <3>1. ASSUME NEW g \in 0 .. FiHosts - 1, NEW e \in FiDomains, FiOwns(e, g)' PROVE FiOwns(e, g)
        <4>1. CASE e = d /\ g = h
          BY <4>1, <2>7
        <4>2. CASE \E k \in FiLookups : FiHas(k)' /\ FiDomain[k] = e /\ fiJob'[k].cur = g
          BY <4>2, <2>4 DEF FiOwns, FiHas
        <4>3. CASE fiPtr'[g] = e
          BY <4>1, <4>3, <2>6 DEF FiOwns
        <4>4. CASE <<e, g>> \in fiGiven'
          BY <4>1, <4>4, <2>3 DEF FiOwns
        <4> QED
          BY <4>2, <4>3, <4>4, <3>1, <2>3 DEF FiOwns
      <3>2. fiCursor' \in Nat /\ fiCursor' >= fiCursor
        BY <2>3 DEF FiTypeOK
      <3> QED
        BY <3>1, <3>2, FiStillOwned
    <2>10. FiBacked'
      <3>1. ASSUME NEW e \in FiDomains, NEW g \in 0 .. FiHosts - 1, fiAddr[e] = g \/ <<e, g>> \in fiGiven
            PROVE  FiBack(e, g)'
        <4>1. CASE g = h
          <5>1. e = d
            BY <4>1, <3>1, <2>7, <1>1 DEF FiOneOwner, FiOwns
          <5> QED
            BY <5>1, <4>1, <2>6 DEF FiBack
        <4>2. CASE g # h
          <5>1. FiBack(e, g)
            BY <3>1 DEF FiBacked
          <5> QED
            BY <5>1, <4>2, <2>3, <2>4, <2>6, <2>2 DEF FiBack
        <4> QED
          BY <4>1, <4>2
      <3>2. FiBack(d, h)'
        BY <2>6 DEF FiBack
      <3> QED
        BY <3>1, <3>2, <2>3 DEF FiBacked
    <2>11. h < fiTop
      BY <2>3, <2>2 DEF FiCounted
    <2>12. FiStored'
      BY <2>3, <2>6, <2>11, <1>1 DEF FiStored
    <2> QED
      BY <2>8, <2>9, <2>10, <2>12
  <1>10. CASE FiFails(l)
    <2>1. /\ FiGo(l, "done") /\ UNCHANGED <<fiCursor, fiTook, fiAddr, fiPtr, fiGiven, fiTop, fiSaved>>
          /\ fiTorn' = fiTorn \cup FiHalf({l})
      BY <1>10 DEF FiFails, fiCache
    <2>2. fiJob[l].pc = "ptr" => FiDomain[l] \in fiTorn'
      BY <2>1 DEF FiHalf
    <2>3. fiSaved' \in Nat /\ fiSaved' <= fiTook
      BY <2>1 DEF FiTypeOK, FiCounted
    <2> QED
      BY <2>1, <2>2, <2>3, FiGoes, FiMoves DEF FiPcs, FiHas
  <1> QED
    BY <1>3, <1>4, <1>5, <1>6, <1>8, <1>9, <1>10

\* What is in the cache is as good as what a flush leaves of it.
LEMMA FiNowOK ==
    ASSUME FiTypeOK, FiGood, FiSound
    PROVE  FiLeftOK(FiNow)
  <1>1. PICK f : f = FiNow
    OBVIOUS
  <1>2. /\ f.saved = fiSaved /\ f.addr = fiAddr /\ f.ptr = fiPtr /\ f.given = fiGiven /\ f.top = fiTop
        /\ f.half = FiHalf(FiLookups)
    BY <1>1 DEF FiNow
  <1>3. f.saved <= fiTook
    BY <1>2 DEF FiSound, FiCounted, FiTypeOK
  <1>4. ASSUME NEW h \in 0 .. FiHosts - 1, NEW d \in FiDomains, FiLeftOwns(f, d, h)
        PROVE  h < f.top /\ \A e \in FiDomains : FiLeftOwns(f, e, h) => e = d
    <2>1. \A e \in FiDomains : FiLeftOwns(f, e, h) => FiOwns(e, h)
      BY <1>2 DEF FiLeftOwns, FiOwns
    <2>2. h < f.top
      BY <1>2, <1>4 DEF FiLeftOwns, FiSound, FiStored
    <2> QED
      BY <1>4, <2>1, <2>2 DEF FiSound, FiOneOwner
  <1>5. ASSUME NEW d \in FiDomains, NEW h \in 0 .. FiHosts - 1, f.addr[d] = h \/ <<d, h>> \in f.given
        PROVE  f.ptr[h] = d \/ (f.ptr[h] = "none" /\ d \in fiTorn \cup f.half)
    <2>1. FiBack(d, h)
      BY <1>2, <1>5 DEF FiSound, FiBacked
    <2> QED
      BY <1>2, <2>1 DEF FiBack, FiHalf
  <1>6. FiLeftOK(f)
    BY <1>3, <1>4, <1>5 DEF FiLeftOK
  <1> QED
    BY <1>1, <1>6

\* What a flush has left stays as good, as lookups go on.
LEMMA FiLeftStays ==
    ASSUME FiTypeOK, FiTypeOK', NEW f \in FiLefts, FiLeftOK(f), fiTook <= fiTook', fiTorn \subseteq fiTorn'
    PROVE  FiLeftOK(f)'
  <1>1. f.saved \in Nat /\ f.saved <= fiTook'
    BY DEF FiLefts, FiTypeOK, FiLeftOK
  <1> QED
    BY <1>1 DEF FiLeftOK, FiLeftOwns

\* A restart that does not go back behind an entry loses the lookups under way and
\* what the cache has lost, and nothing else.
LEMMA FiRestarts ==
    ASSUME FiTypeOK, FiTypeOK', FiGood', NEW f \in FiLefts, FiLeftOK(f), FiRestart(f)
    PROVE  FiSound' /\ FiLeftOK(fiKept)'
  <1>1. /\ \A l \in FiLookups : fiJob'[l].pc \in {"get", "done"}
        /\ fiCursor' \in {f.saved, 0} /\ fiSaved' = f.saved /\ fiAddr' = f.addr /\ fiPtr' = f.ptr
        /\ fiGiven' = f.given /\ fiTop' = f.top /\ fiTook' = fiTook /\ f.top <= fiCursor'
        /\ fiTorn \subseteq fiTorn' /\ f.half \subseteq fiTorn' /\ fiKept' = [f EXCEPT !.half = {}]
    <2>1. \A l \in FiLookups : fiJob'[l].pc \in {"get", "done"}
      BY DEF FiRestart, FiAt
    <2>2. ~(fiCursor' < f.top)
      BY DEF FiRestart, FiGood
    <2>3. fiCursor' \in Nat /\ f.top \in Nat
      BY DEF FiLefts, FiRestart
    <2>4. f.top <= fiCursor'
      BY <2>2, <2>3
    <2> QED
      BY <2>1, <2>4 DEF FiRestart
  <1>2. FiCounted'
    <2>1. f.saved \in Nat /\ f.saved <= fiTook' /\ fiTook \in Nat /\ fiTook' = fiTook
      BY <1>1 DEF FiLefts, FiLeftOK, FiTypeOK
    <2>2. fiCursor' <= fiTook'
      BY <1>1, <2>1
    <2> QED
      BY <1>1, <2>1, <2>2 DEF FiCounted, FiHas
  <1>3. ASSUME NEW h \in 0 .. FiHosts - 1, NEW d \in FiDomains PROVE FiOwns(d, h)' <=> FiLeftOwns(f, d, h)
    BY <1>1 DEF FiOwns, FiHas, FiLeftOwns
  <1>4. FiOneOwner'
    <2> SUFFICES ASSUME NEW h \in 0 .. FiHosts - 1, NEW d \in FiDomains, FiOwns(d, h)'
                 PROVE  h < fiCursor' /\ \A e \in FiDomains : FiOwns(e, h)' => e = d
      BY DEF FiOneOwner
    <2>1. h < f.top /\ \A e \in FiDomains : FiLeftOwns(f, e, h) => e = d
      BY <1>3 DEF FiLeftOK
    <2>2. h < fiCursor'
      BY <1>1, <2>1 DEF FiLefts
    <2> QED
      BY <1>3, <2>1, <2>2
  <1>5. FiStored'
    BY <1>1 DEF FiStored, FiLeftOK, FiLeftOwns
  <1>6. FiBacked'
    BY <1>1 DEF FiBacked, FiBack, FiLeftOK
  <1>7. FiLeftOK(fiKept)'
    <2>1. PICK k : k = [f EXCEPT !.half = {}]
      OBVIOUS
    <2>2. k.saved = f.saved /\ k.addr = f.addr /\ k.ptr = f.ptr /\ k.given = f.given /\ k.top = f.top
      BY <2>1 DEF FiLefts
    <2>3. fiKept' = k
      BY <1>1, <2>1
    <2>4. \A h \in 0 .. FiHosts - 1 : \A d \in FiDomains : FiLeftOwns(k, d, h) <=> FiLeftOwns(f, d, h)
      BY <2>2 DEF FiLeftOwns
    <2>5. \A h \in 0 .. FiHosts - 1 : \A d \in FiDomains : FiLeftOwns(k, d, h) =>
             h < k.top /\ \A e \in FiDomains : FiLeftOwns(k, e, h) => e = d
      BY <2>2, <2>4 DEF FiLeftOK
    <2>6. \A d \in FiDomains : \A h \in 0 .. FiHosts - 1 : k.addr[d] = h \/ <<d, h>> \in k.given =>
             k.ptr[h] = d \/ (k.ptr[h] = "none" /\ d \in fiTorn' \cup k.half)
      BY <1>1, <2>2 DEF FiLeftOK
    <2>7. k.saved <= fiTook'
      BY <1>1, <2>2 DEF FiLeftOK
    <2>8. FiLeftOK(k)'
      BY <2>5, <2>6, <2>7 DEF FiLeftOK, FiLeftOwns
    <2> QED
      BY <2>3, <2>8 DEF FiLeftOK, FiLeftOwns
  <1> QED
    BY <1>2, <1>4, <1>5, <1>6, <1>7 DEF FiSound

\* Every step keeps the invariant as long as the range is not used up.
LEMMA FiStepSound ==
    ASSUME FiTypeOK, FiTypeOK', FiGood, FiGood', FiSound, FiLeftOK(fiKept), [FiNext]_fiVars
    PROVE  FiSound' /\ FiLeftOK(fiKept)'
  <1>1. fiKept \in FiLefts /\ FiNow \in FiLefts
    BY FiNowTyped DEF FiTypeOK
  <1>2. FiLeftOK(FiNow)
    BY FiNowOK
  <1>3. PICK k \in FiLefts : k = fiKept
    BY <1>1
  <1>4. ASSUME NEW l \in FiLookups,
               FiGet(l) \/ FiTake(l) \/ FiLoad(l) \/ FiSave(l) \/ FiSetAddr(l) \/ FiSetPtr(l) \/ FiFails(l)
        PROVE  FiSound' /\ FiLeftOK(fiKept)'
    <2>1. FiSound'
      BY <1>4, FiLookupStep
    <2>2. fiKept' = k /\ fiTook <= fiTook' /\ fiTorn \subseteq fiTorn'
      BY <1>4, <1>3 DEF FiGet, FiTake, FiLoad, FiSave, FiSetAddr, FiSetPtr, FiFails, FiTypeOK
    <2>3. FiLeftOK(k)'
      BY <1>3, <2>2, FiLeftStays
    <2> QED
      BY <2>1, <2>2, <2>3 DEF FiLeftOK, FiLeftOwns
  <1>5. CASE FiFlush
    <2>1. PICK g \in FiLefts : g = FiNow
      BY <1>1
    <2>2. fiKept' = g /\ UNCHANGED <<fiJob, fiCursor, fiTook, fiTorn, fiAddr, fiPtr, fiGiven, fiTop, fiSaved>>
      BY <1>5, <2>1 DEF FiFlush, fiCache
    <2>3. FiLeftOK(g)'
      <3>1. FiLeftOK(g) /\ fiTook <= fiTook' /\ fiTorn \subseteq fiTorn'
        BY <1>2, <2>1, <2>2 DEF FiTypeOK
      <3> QED
        BY <3>1, FiLeftStays
    <2>4. FiSound'
      BY <2>2 DEF FiSound, FiCounted, FiOneOwner, FiStored, FiBacked, FiOwns, FiBack, FiHas
    <2> QED
      BY <2>2, <2>3, <2>4 DEF FiLeftOK, FiLeftOwns
  <1>6. CASE FiStop
    BY <1>6, <1>1, <1>2, FiRestarts DEF FiStop
  <1>7. CASE FiCrash
    BY <1>7, <1>1, FiRestarts DEF FiCrash
  <1>8. CASE UNCHANGED fiVars
    <2>1. UNCHANGED <<fiJob, fiCursor, fiTook, fiTorn, fiAddr, fiPtr, fiGiven, fiTop, fiSaved, fiKept>>
      BY <1>8 DEF fiVars, fiCache
    <2>2. FiSound'
      BY <2>1 DEF FiSound, FiCounted, FiOneOwner, FiStored, FiBacked, FiOwns, FiBack, FiHas
    <2>3. FiLeftOK(fiKept)'
      BY <2>1 DEF FiLeftOK, FiLeftOwns
    <2> QED
      BY <2>2, <2>3
  <1> QED
    BY <1>4, <1>5, <1>6, <1>7, <1>8 DEF FiNext

\* For any number of lookups, domains, flushes, stops and crashes and any size of the
\* range: an address that was answered leads back to its domain, or nowhere while a
\* lookup is between the two entries or ended there, and never to another domain; a
\* crash takes back no answer from before the last flush (resolve_internal,
\* reverse_lookup, load_cursor).
THEOREM FiSafe == FiSpec => []FiLeadsBack
  <1>1. FiInit => FiInv
    <2> SUFFICES ASSUME FiInit PROVE FiInv
      OBVIOUS
    <2>1. FiAt("get") \in FiStates
      BY DEF FiAt, FiStates, FiPcs
    <2>2. \A l \in FiLookups : fiJob[l].pc = "get"
      BY DEF FiInit, FiAt
    <2>3. /\ fiJob \in [FiLookups -> FiStates]
          /\ fiCursor = 0 /\ fiSaved = 0 /\ fiTook = 0 /\ fiBehind = FALSE /\ fiTop = 0
          /\ fiAddr \in [FiDomains -> 0 .. FiHosts]
          /\ fiPtr \in [0 .. FiHosts - 1 -> FiDomains \cup {"none"}]
          /\ fiGiven = {} /\ fiKept = FiNow
      <3>1. FiHosts \in 0 .. FiHosts
        BY FiAssumption
      <3> QED
        BY <2>1, <3>1 DEF FiInit, FiNoHost
    <2>4. FiHalf(FiLookups) = {}
      BY <2>2 DEF FiHalf
    <2>5. FiNow \in FiLefts
      BY <2>3, <2>4 DEF FiNow, FiLefts
    <2>6. FiTypeOK
      BY <2>3, <2>5 DEF FiTypeOK
    <2>7. FiCounted
      BY <2>2, <2>3 DEF FiCounted, FiHas
    <2>8. \A h \in 0 .. FiHosts - 1 : \A d \in FiDomains : ~FiOwns(d, h)
      BY <2>2, FiDomainsNamed, FiAssumption DEF FiInit, FiOwns, FiHas, FiNoHost
    <2>9. FiOneOwner /\ FiStored
      BY <2>8 DEF FiOneOwner, FiStored, FiOwns
    <2>10. FiBacked
      BY <2>8 DEF FiBacked, FiOwns
    <2>11. FiSound
      BY <2>7, <2>9, <2>10 DEF FiSound
    <2>12. FiGood => FiLeftOK(FiNow)
      BY <2>11, <2>6, FiNowOK
    <2> QED
      BY <2>3, <2>6, <2>11, <2>12 DEF FiInv
  <1>2. FiInv /\ [FiNext]_fiVars => FiInv'
    <2> SUFFICES ASSUME FiInv, [FiNext]_fiVars PROVE FiInv'
      OBVIOUS
    <2>1. FiTypeOK' /\ (FiGood' => FiGood)
      BY FiTyped DEF FiInv
    <2>2. ASSUME FiGood' PROVE FiSound' /\ FiLeftOK(fiKept)'
      BY <2>1, <2>2, FiStepSound DEF FiInv
    <2> QED
      BY <2>1, <2>2 DEF FiInv
  <1>3. FiInv => FiLeadsBack
    <2> SUFFICES ASSUME FiInv, FiGood, NEW g \in fiGiven
                 PROVE  fiPtr[g[2]] = g[1] \/ (fiPtr[g[2]] = "none" /\ g[1] \in fiTorn \cup FiHalf(FiLookups))
      BY DEF FiLeadsBack, FiGood
    <2>1. g = <<g[1], g[2]>> /\ g[1] \in FiDomains /\ g[2] \in 0 .. FiHosts - 1
      BY DEF FiInv, FiTypeOK
    <2>2. FiBack(g[1], g[2])
      BY <2>1 DEF FiInv, FiSound, FiBacked
    <2> QED
      BY <2>2 DEF FiBack, FiHalf
  <1> QED
    BY <1>1, <1>2, <1>3, PTL DEF FiSpec

-----------------------------------------------------------------------------
(* Single flight *)

DnPcs == {"mem", "disk", "remember", "purge", "join", "follow", "ask", "setmem", "setdisk",
          "check", "send", "drop", "done", "gone"}
DnStates == [pc : DnPcs, why : {"first", "lead", "fall"}, val : DnQueries \cup {"none", "err"},
             lead : DnQueries \cup {"none"}]

DnTypeOK ==
    /\ dnQ \in [DnQueries -> DnStates]
    /\ dnDisk \in DnQueries \cup {"none"}
    /\ dnFlight \in DnQueries \cup {"none"}

\* Only a leader gets to the end of a flight, and only one that is none joins one.
DnRoles == \A q \in DnQueries :
    /\ dnQ[q].pc \in {"check", "send", "drop"} => dnQ[q].why = "lead"
    /\ dnQ[q].pc \in {"join", "follow", "done", "gone"} => dnQ[q].why = "first"

DnInv == DnTypeOK /\ DnRoles /\ DnOneFlight

\* What DnGo does to its query and to the others.
LEMMA DnGoes ==
    ASSUME DnTypeOK, NEW q \in DnQueries, NEW pc \in DnPcs, DnGo(q, pc)
    PROVE  /\ dnQ' \in [DnQueries -> DnStates]
           /\ dnQ'[q].pc = pc
           /\ dnQ'[q].why = IF pc \in {"done", "gone"} THEN "first" ELSE dnQ[q].why
           /\ \A r \in DnQueries \ {q} : dnQ'[r] = dnQ[r]
  <1>1. dnQ[q] \in DnStates
    BY DEF DnTypeOK
  <1>2. DnAt(pc, "first") \in DnStates /\ [dnQ[q] EXCEPT !.pc = pc] \in DnStates
    BY <1>1 DEF DnAt, DnStates
  <1>3. [dnQ[q] EXCEPT !.pc = pc].pc = pc /\ [dnQ[q] EXCEPT !.pc = pc].why = dnQ[q].why
    BY <1>1 DEF DnStates
  <1> QED
    BY <1>2, <1>3 DEF DnGo, DnTypeOK, DnAt

\* A step of one query that leaves the flight to whoever has it.
DnKeepsRole(q) ==
    /\ dnQ' \in [DnQueries -> DnStates]
    /\ \A r \in DnQueries \ {q} : dnQ'[r] = dnQ[r]
    /\ dnFlight' = dnFlight /\ dnDisk' \in DnQueries \cup {"none"}
    /\ DnLeads(q)' <=> DnLeads(q)
    /\ dnQ'[q].pc \in {"check", "send", "drop"} => dnQ'[q].why = "lead"
    /\ dnQ'[q].pc \in {"join", "follow", "done", "gone"} => dnQ'[q].why = "first"

\* A query that keeps its part in the flight keeps the invariant.
LEMMA DnKeeps ==
    ASSUME DnInv, NEW q \in DnQueries, DnKeepsRole(q)
    PROVE  DnInv'
  <1>1. DnTypeOK'
    BY DEF DnInv, DnTypeOK, DnKeepsRole
  <1>2. DnRoles'
    BY DEF DnInv, DnRoles, DnKeepsRole
  <1>3. DnOneFlight'
    BY DEF DnInv, DnOneFlight, DnKeepsRole, DnLeads
  <1> QED
    BY <1>1, <1>2, <1>3 DEF DnInv

\* A step after which nobody leads, by the one that led.
LEMMA DnReleases ==
    ASSUME DnInv, NEW q \in DnQueries, NEW pc \in {"done", "gone"}, DnGo(q, pc), dnQ[q].why = "lead",
           dnQ[q].pc \notin {"done", "gone"}, dnFlight' = "none", dnDisk' = dnDisk
    PROVE  DnInv'
  <1>1. /\ dnQ' \in [DnQueries -> DnStates]
        /\ dnQ'[q].pc = pc /\ dnQ'[q].why = "first"
        /\ \A r \in DnQueries \ {q} : dnQ'[r] = dnQ[r]
    BY DnGoes DEF DnInv, DnPcs
  <1>2. dnFlight = q
    BY DEF DnInv, DnOneFlight, DnLeads
  <1>3. DnOneFlight'
    BY <1>1, <1>2, DnAssumption DEF DnInv, DnOneFlight, DnLeads
  <1>4. DnRoles'
    BY <1>1 DEF DnInv, DnRoles
  <1> QED
    BY <1>1, <1>3, <1>4 DEF DnInv, DnTypeOK

\* Every step of a query, and its cancellation, keeps the invariant.
LEMMA DnQueryStep ==
    ASSUME DnInv, NEW q \in DnQueries, DnStep(q) \/ DnCancel(q)
    PROVE  DnInv'
  <1> USE DEF DnInv
  <1>1. dnQ[q] \in DnStates
    BY DEF DnTypeOK
  <1>2. /\ dnQ[q].pc \in {"check", "send", "drop"} => dnQ[q].why = "lead"
        /\ dnQ[q].pc \in {"join", "follow", "done", "gone"} => dnQ[q].why = "first"
    BY DEF DnRoles
  <1>3. dnQ[q].why \in {"first", "lead", "fall"}
    BY <1>1 DEF DnStates
  <1>4. DnHit(q) \in DnPcs /\ DnMiss(q) \in DnPcs
    BY DEF DnHit, DnMiss, DnPcs
  <1>5. CASE DnGetMem(q)
    <2> DEFINE pc == IF DnFresh(dnMem) THEN DnHit(q) ELSE "disk"
    <2>1. pc \in DnPcs /\ DnGo(q, pc)
      BY <1>5, <1>4 DEF DnGetMem, DnPcs
    <2>2. (pc = "done" /\ dnQ[q].why # "lead") \/ (pc = "drop" /\ dnQ[q].why = "lead") \/ pc = "disk"
      BY DEF DnHit
    <2>3. DnKeepsRole(q)
      <3> HIDE DEF pc
      <3> QED
        BY <2>1, <2>2, <1>5, DnGoes DEF DnGetMem, DnKeepsRole, DnLeads, DnTypeOK
    <2> QED
      BY <2>3, DnKeeps
  <1>6. CASE DnGetDisk(q)
    <2>1. CASE DnFresh(dnDisk) /\ dnQ' = [dnQ EXCEPT ![q].pc = "remember", ![q].val = dnDisk]
      <3>1. dnQ' \in [DnQueries -> DnStates]
        BY <2>1, <1>1 DEF DnTypeOK, DnStates, DnPcs
      <3>2. /\ dnQ'[q].pc = "remember" /\ dnQ'[q].why = dnQ[q].why
            /\ \A r \in DnQueries \ {q} : dnQ'[r] = dnQ[r]
        BY <2>1, <1>1 DEF DnTypeOK, DnStates
      <3> QED
        BY <3>1, <3>2, <1>6, DnKeeps DEF DnGetDisk, DnKeepsRole, DnLeads, DnTypeOK, dnCache
    <2>2. CASE DnGo(q, "purge")
      BY <2>2, <1>6, DnGoes, DnKeeps DEF DnGetDisk, DnKeepsRole, DnLeads, DnTypeOK, dnCache, DnPcs
    <2>3. CASE DnGo(q, DnMiss(q))
      BY <2>3, <1>6, <1>4, DnGoes, DnKeeps DEF DnGetDisk, DnKeepsRole, DnLeads, DnTypeOK, dnCache, DnMiss
    <2> QED
      BY <2>1, <2>2, <2>3, <1>6 DEF DnGetDisk
  <1>7. CASE DnRemember(q)
    <2>1. (DnHit(q) = "done" /\ dnQ[q].why # "lead") \/ (DnHit(q) = "drop" /\ dnQ[q].why = "lead")
      BY DEF DnHit
    <2> QED
      BY <2>1, <1>7, <1>4, DnGoes, DnKeeps DEF DnRemember, DnKeepsRole, DnLeads, DnTypeOK
  <1>8. CASE DnPurge(q)
    BY <1>8, <1>4, DnGoes, DnKeeps DEF DnPurge, DnKeepsRole, DnLeads, DnTypeOK, DnMiss
  <1>9. CASE DnJoin(q)
    <2>1. CASE dnFlight = "none"
      <3>1. dnFlight' = q /\ dnQ' = [dnQ EXCEPT ![q] = DnAt("mem", "lead")] /\ dnDisk' = dnDisk
        BY <1>9, <2>1 DEF DnJoin, dnCache
      <3>2. DnAt("mem", "lead") \in DnStates
        BY DEF DnAt, DnStates, DnPcs
      <3>3. /\ dnQ' \in [DnQueries -> DnStates]
            /\ dnQ'[q].pc = "mem" /\ dnQ'[q].why = "lead"
            /\ \A r \in DnQueries \ {q} : dnQ'[r] = dnQ[r]
        BY <3>1, <3>2 DEF DnTypeOK, DnAt
      <3>4. DnOneFlight'
        BY <3>1, <3>3, <2>1, DnAssumption DEF DnOneFlight, DnLeads
      <3>5. DnRoles'
        BY <3>3 DEF DnRoles
      <3> QED
        BY <3>1, <3>3, <3>4, <3>5 DEF DnTypeOK
    <2>2. CASE dnFlight # "none"
      <3>1. dnQ' = [dnQ EXCEPT ![q].pc = "follow", ![q].lead = dnFlight]
        BY <1>9, <2>2 DEF DnJoin
      <3>2. dnQ' \in [DnQueries -> DnStates]
        BY <3>1, <1>1 DEF DnTypeOK, DnStates, DnPcs
      <3>3. /\ dnQ'[q].pc = "follow" /\ dnQ'[q].why = dnQ[q].why
            /\ \A r \in DnQueries \ {q} : dnQ'[r] = dnQ[r]
        BY <3>1, <1>1 DEF DnTypeOK, DnStates
      <3> QED
        BY <3>2, <3>3, <1>9, <2>2, <1>2, DnKeeps DEF DnJoin, DnKeepsRole, DnLeads, DnTypeOK, dnCache
    <2> QED
      BY <2>1, <2>2
  <1>10. CASE DnFollow(q)
    <2>1. CASE DnGo(q, "done")
      BY <2>1, <1>10, <1>2, DnGoes, DnKeeps DEF DnFollow, DnKeepsRole, DnLeads, DnTypeOK, dnCache, DnPcs
    <2>2. CASE dnQ' = [dnQ EXCEPT ![q] = DnAt("mem", "fall")]
      <3>1. DnAt("mem", "fall") \in DnStates
        BY DEF DnAt, DnStates, DnPcs
      <3>2. /\ dnQ' \in [DnQueries -> DnStates]
            /\ dnQ'[q].pc = "mem" /\ dnQ'[q].why = "fall"
            /\ \A r \in DnQueries \ {q} : dnQ'[r] = dnQ[r]
        BY <2>2, <3>1 DEF DnTypeOK, DnAt
      <3> QED
        BY <3>2, <1>10, <1>2, DnKeeps DEF DnFollow, DnKeepsRole, DnLeads, DnTypeOK, dnCache
    <2> QED
      BY <2>1, <2>2, <1>10 DEF DnFollow
  <1>11. ASSUME NEW res \in {"err", "keep", "zero"}, DnAsked(q, res)
         PROVE  DnInv'
    <2>1. CASE DnGo(q, "setmem")
      BY <2>1, <1>11, DnGoes, DnKeeps DEF DnAsked, DnKeepsRole, DnLeads, DnTypeOK, dnCache, DnPcs
    <2>2. CASE dnQ[q].why # "lead" /\ DnGo(q, "done")
      BY <2>2, <1>11, DnGoes, DnKeeps DEF DnAsked, DnKeepsRole, DnLeads, DnTypeOK, dnCache, DnPcs
    <2>3. CASE /\ dnQ[q].why = "lead"
               /\ dnQ' = [dnQ EXCEPT ![q].pc = "check", ![q].val = IF res = "err" THEN res ELSE @]
      <3>1. dnQ' \in [DnQueries -> DnStates]
        BY <2>3, <1>1 DEF DnTypeOK, DnStates, DnPcs
      <3>2. /\ dnQ'[q].pc = "check" /\ dnQ'[q].why = dnQ[q].why
            /\ \A r \in DnQueries \ {q} : dnQ'[r] = dnQ[r]
        BY <2>3, <1>1 DEF DnTypeOK, DnStates
      <3> QED
        BY <3>1, <3>2, <2>3, <1>11, DnKeeps DEF DnAsked, DnKeepsRole, DnLeads, DnTypeOK, dnCache
    <2> QED
      BY <2>1, <2>2, <2>3, <1>11 DEF DnAsked
  <1>12. CASE DnSetMem(q)
    BY <1>12, DnGoes, DnKeeps DEF DnSetMem, DnKeepsRole, DnLeads, DnTypeOK, DnPcs
  <1>13. CASE DnSetDisk(q)
    <2> DEFINE pc == IF dnQ[q].why = "lead" THEN "check" ELSE "done"
    <2>1. pc \in DnPcs /\ DnGo(q, pc)
      BY <1>13 DEF DnSetDisk, DnPcs
    <2>2. (pc = "done" /\ dnQ[q].why # "lead") \/ (pc = "check" /\ dnQ[q].why = "lead")
      OBVIOUS
    <2> HIDE DEF pc
    <2> QED
      BY <2>1, <2>2, <1>13, DnGoes, DnKeeps DEF DnSetDisk, DnKeepsRole, DnLeads, DnTypeOK
  <1>14. CASE DnCheck(q)
    <2> DEFINE pc == IF \E f \in DnQueries : dnQ[f].pc = "follow" /\ dnQ[f].lead = q THEN "send" ELSE "drop"
    <2>1. pc \in DnPcs /\ pc \in {"send", "drop"} /\ DnGo(q, pc)
      BY <1>14 DEF DnCheck, DnPcs
    <2> HIDE DEF pc
    <2> QED
      BY <2>1, <1>14, <1>2, DnGoes, DnKeeps DEF DnCheck, DnKeepsRole, DnLeads, DnTypeOK, dnCache
  <1>15. CASE DnFinish(q)
    BY <1>15, <1>2, DnReleases DEF DnFinish, dnCache
  <1>16. CASE DnDropped(q)
    BY <1>16, <1>2, DnReleases DEF DnDropped, dnCache
  <1>17. CASE DnCancel(q)
    <2>1. CASE dnQ[q].why = "lead"
      BY <2>1, <1>17, DnReleases DEF DnCancel, dnCache
    <2>2. CASE dnQ[q].why # "lead"
      BY <2>2, <1>17, DnGoes, DnKeeps DEF DnCancel, DnKeepsRole, DnLeads, DnTypeOK, dnCache, DnPcs
    <2> QED
      BY <2>1, <2>2
  <1> QED
    BY <1>5, <1>6, <1>7, <1>8, <1>9, <1>10, <1>11, <1>12, <1>13, <1>14, <1>15, <1>16, <1>17 DEF DnStep

\* However queries join, finish, are cancelled and find the cache changed, at most one of
\* them leads, and it is the one in `inflight`: finish and the drop of a leader never take
\* the next leader's flight out (DnsCache::join, FlightLeader).
THEOREM DnSafe == DnSpec => []DnOneFlight
  <1>1. DnInit => DnInv
    <2> SUFFICES ASSUME DnInit PROVE DnInv
      OBVIOUS
    <2>1. DnAt("mem", "first") \in DnStates
      BY DEF DnAt, DnStates, DnPcs
    <2>2. \A q \in DnQueries : dnQ[q].pc = "mem" /\ dnQ[q].why = "first"
      BY DEF DnInit, DnAt
    <2> QED
      BY <2>1, <2>2, DnAssumption DEF DnInit, DnInv, DnTypeOK, DnRoles, DnOneFlight, DnLeads
  <1>2. DnInv /\ [DnNext]_dnVars => DnInv'
    <2> SUFFICES ASSUME DnInv, [DnNext]_dnVars PROVE DnInv'
      OBVIOUS
    <2>1. ASSUME NEW q \in DnQueries, DnStep(q) \/ DnCancel(q) PROVE DnInv'
      BY <2>1, DnQueryStep
    <2>2. CASE UNCHANGED <<dnQ, dnFlight>> /\ dnDisk' \in {dnDisk, "none"}
      BY <2>2 DEF DnInv, DnTypeOK, DnRoles, DnOneFlight, DnLeads
    <2>3. ASSUME NEW q \in DnQueries, DnExpire(q) PROVE DnInv'
      BY <2>2, <2>3 DEF DnExpire
    <2> QED
      BY <2>1, <2>2, <2>3 DEF DnNext, DnEvict, DnRemoveMem, DnRemoveDisk, dnVars
  <1>3. DnInv => DnOneFlight
    BY DEF DnInv
  <1> QED
    BY <1>1, <1>2, <1>3, PTL DEF DnSpec

-----------------------------------------------------------------------------
(* Router: rules *)

\* The targets a request can have: its own, a sniffed one, a reverse lookup's.
SoOwnTargets == {r.target : r \in SoRequests} \cup {SoSniff(r) : r \in SoRequests}
\* With them, the domains a reverse lookup can give.
SoTargets ==
    SoOwnTargets \cup [kind : {"domain"}, host : {SoPtr[t.host] : t \in {u \in SoOwnTargets : u.kind = "ip"}},
                       port : {t.port : t \in SoOwnTargets}]

\* How far a request is.
SoProgress ==
    [pc : {"new", "walk", "geoip", "resolve", "done"}, i : Nat \ {0}, mode : SoModes \cup {"none"}, sniffed : BOOLEAN,
     dns : BOOLEAN, out : Nat, to : SoTargets, near : SUBSET Nat]

\* The types of the state.
SoTypeOK ==
    /\ soRules \in Seq({soRules[i] : i \in DOMAIN soRules})
    /\ soMode \in SoModes
    /\ soReq \in [SoRequests -> SoProgress]

\* What a request has seen of its payload after the rules up to n.
SoSees(r, q, n) ==
    /\ q.sniffed <=> SoLooked(q.mode, n)
    /\ q.dns <=> SoLooked(q.mode, n) /\ r.question # "none"
    /\ q.to = SoTargetAt(r, q.mode, n)

\* No rule before n holds.
SoNoneBefore(r, q, n) == \A j \in DOMAIN soRules : j < n => ~SoRuleHolds(r, q, j)

\* Where a request is: on its way it has passed the rules before its own for a reason;
\* when it waits for the resolver or the GeoIP database, all but that holds of its rule.
SoAt(r, q) ==
    /\ q.pc \in {"new", "walk", "geoip", "resolve"} => q.near = {}
    /\ q.pc = "new" => q.i = 1 /\ ~q.sniffed /\ ~q.dns /\ q.to = r.target
    /\ q.pc = "walk" => q.i <= Len(soRules) + 1 /\ SoSees(r, q, q.i - 1) /\ SoNoneBefore(r, q, q.i)
    /\ q.pc \in {"geoip", "resolve"} =>
         /\ q.i \in DOMAIN soRules /\ SoSees(r, q, q.i) /\ SoNoneBefore(r, q, q.i)
         /\ SoActive(soRules[q.i], q.mode) /\ SoLocal(soRules[q.i], r, q.to, q.dns)
         /\ ~soRules[q.i].reverse /\ soRules[q.i].geoip # {}
    /\ q.pc = "done" =>
         \/ q.out = 0 /\ SoNoneBefore(r, q, Len(soRules) + 1)
         \/ q.out \in DOMAIN soRules /\ SoRuleHolds(r, q, q.out) /\ SoNoneBefore(r, q, q.out)

\* A request is where its progress says.
SoWalked(r) == SoAt(r, soReq[r])

\* What makes SoPicksRight inductive.
SoInv == SoTypeOK /\ \A r \in SoRequests : SoWalked(r)

\* domain_matches_suffix compares whole labels.
LEMMA SoLabels == SoWholeLabels
<1> SUFFICES ASSUME NEW d \in SoNames, NEW s \in SoNames, s # <<>>
             PROVE  SoSuffixMatches(d, s) <=> \E i \in SoDots(d) : i <= Len(d) /\ SubSeq(d, i + 1, Len(d)) = s
  BY DEF SoWholeLabels
<1>1. /\ d \in Seq(STRING) /\ s \in Seq(STRING) /\ Len(d) \in Nat /\ Len(s) \in Nat \ {0}
      /\ DOMAIN d = 1 .. Len(d)
  BY SoAssumption, EmptySeq, LenProperties
<1>2. PICK m \in Nat : m = Len(d)
  BY <1>1
<1>3. PICK k \in Nat \ {0} : k = Len(s)
  BY <1>1
<1>4. SoSuffixMatches(d, s) <=> m >= k /\ SubSeq(d, m - k + 1, m) = s /\ (m = k \/ d[m - k] = ".")
  BY <1>2, <1>3 DEF SoSuffixMatches
<1>5. \A i : i \in SoDots(d) /\ i <= m <=> i = 0 \/ (i \in 1 .. m /\ d[i] = ".")
  BY <1>1, <1>2 DEF SoDots
<1>6. ASSUME m >= k, SubSeq(d, m - k + 1, m) = s, m = k \/ d[m - k] = "."
      PROVE  \E i \in SoDots(d) : i <= m /\ SubSeq(d, i + 1, m) = s
  <2>1. PICK i \in Nat : i = m - k
    BY <1>6
  <2>2. i = 0 \/ (i \in 1 .. m /\ d[i] = ".")
    BY <1>6, <2>1
  <2> QED
    BY <1>5, <1>6, <2>1, <2>2
<1>7. ASSUME NEW i \in SoDots(d), i <= m, SubSeq(d, i + 1, m) = s
      PROVE  m >= k /\ SubSeq(d, m - k + 1, m) = s /\ (m = k \/ d[m - k] = ".")
  <2>1. i \in Nat /\ (i = 0 \/ d[i] = ".")
    BY <1>5, <1>7
  <2>2. Len(SubSeq(d, i + 1, m)) = m - i
    <3>1. i + 1 \in 1 .. m + 1 /\ m \in i .. m /\ i + 1 \in Int /\ (i + 1 <= m => m - (i + 1) + 1 = m - i)
          /\ (i + 1 > m => m - i = 0)
      BY <1>7, <2>1
    <3>2. Len(SubSeq(d, i + 1, m)) = IF i + 1 <= m THEN m - (i + 1) + 1 ELSE 0
      BY <1>1, <1>2, <2>1
    <3> QED
      BY <3>1, <3>2, <1>7, <2>1
  <2>3. k = m - i
    BY <1>3, <1>7, <2>2
  <2>4. m >= k /\ m - k = i /\ (m = k <=> i = 0)
    BY <1>7, <2>1, <2>3
  <2> QED
    BY <1>7, <2>1, <2>4
<1> QED
  BY <1>2, <1>4, <1>6, <1>7

\* Requests that have not started satisfy the invariant.
LEMMA SoInitInv == SoInit => SoInv
<1> SUFFICES ASSUME SoInit PROVE SoInv
  OBVIOUS
<1>1. SoTypeOK
  <2>1. soRules \in Seq({soRules[i] : i \in DOMAIN soRules}) /\ soMode \in SoModes
    BY SoAssumption DEF SoInit
  <2>2. ASSUME NEW r \in SoRequests PROVE soReq[r] \in SoProgress
    <3>1. r.target \in SoTargets
      BY DEF SoTargets, SoOwnTargets
    <3> QED
      BY <3>1 DEF SoInit, SoProgress
  <2>3. soReq \in [SoRequests -> SoProgress]
    BY <2>2 DEF SoInit
  <2> QED
    BY <2>1, <2>3 DEF SoTypeOK
<1>2. \A r \in SoRequests : SoWalked(r)
  BY DEF SoInit, SoWalked, SoAt
<1> QED
  BY <1>1, <1>2 DEF SoInv

\* Looking at one more rule.
LEMMA SoLookedNext ==
    ASSUME NEW n \in Nat \ {0}, NEW mode
    PROVE  /\ SoLooked(mode, n) <=>
                SoLooked(mode, n - 1) \/ (SoActive(soRules[n], mode) /\ soRules[n].protocol # {})
           /\ ~SoLooked(mode, 0)
<1>1. \A j : j \in 1 .. n <=> j \in 1 .. (n - 1) \/ j = n
  OBVIOUS
<1>2. 1 .. 0 = {}
  OBVIOUS
<1> QED
  BY <1>1, <1>2 DEF SoLooked

\* What is said of a request depends on its own record and the rules alone.
LEMMA SoSame ==
    ASSUME NEW r, NEW q, SoAt(r, q), soRules' = soRules, soReq'[r] = q
    PROVE  SoWalked(r)'
  BY DEF SoWalked, SoAt, SoSees, SoNoneBefore, SoRuleHolds, SoTargetAt, SoLooked

\* A step of one request keeps the invariant if its new record does.
LEMMA SoStep ==
    ASSUME SoInv, NEW r \in SoRequests, NEW q \in SoProgress, SoAt(r, q),
           soReq' = [soReq EXCEPT ![r] = q], soRules' = soRules, soMode' = soMode
    PROVE  SoInv'
<1>1. SoTypeOK'
  BY DEF SoInv, SoTypeOK
<1>2. ASSUME NEW x \in SoRequests PROVE SoWalked(x)'
  <2>1. CASE x = r
    <3>1. soReq'[x] = q
      BY <2>1 DEF SoInv, SoTypeOK
    <3> QED
      BY <2>1, <3>1, SoSame
  <2>2. CASE x # r
    <3>1. soReq'[x] = soReq[x] /\ SoAt(x, soReq[x])
      BY <2>2 DEF SoInv, SoTypeOK, SoWalked
    <3> QED
      BY <3>1, SoSame
  <2> QED
    BY <2>1, <2>2
<1> QED
  BY <1>1, <1>2 DEF SoInv

\* Whether a rule holds depends on the request's mode and on what the database said.
LEMMA SoHoldsSame ==
    ASSUME NEW r, NEW p, NEW q, NEW i, p.mode = q.mode, i \in p.near <=> i \in q.near
    PROVE  SoRuleHolds(r, p, i) <=> SoRuleHolds(r, q, i)
  BY DEF SoRuleHolds

\* The rules and a request's record.
LEMMA SoBasics ==
    ASSUME SoInv, NEW r \in SoRequests
    PROVE  /\ Len(soRules) \in Nat /\ DOMAIN soRules = 1 .. Len(soRules)
           /\ soReq[r] \in SoProgress /\ SoAt(r, soReq[r])
<1>1. soRules \in Seq({soRules[i] : i \in DOMAIN soRules})
  BY DEF SoInv, SoTypeOK
<1>2. Len(soRules) \in Nat /\ DOMAIN soRules = 1 .. Len(soRules)
  BY <1>1, LenProperties
<1> QED
  BY <1>2 DEF SoInv, SoTypeOK, SoWalked

\* Passing a rule that does not hold.
LEMMA SoPasses ==
    ASSUME SoInv, NEW r \in SoRequests, NEW q \in SoProgress,
           q.pc = "walk", q.i \in DOMAIN soRules, q.near = {},
           SoSees(r, q, q.i), SoNoneBefore(r, q, q.i), ~SoRuleHolds(r, q, q.i)
    PROVE  SoPassed(q) \in SoProgress /\ SoAt(r, SoPassed(q))
<1> DEFINE p == SoPassed(q)
<1>1. q.i \in Nat \ {0} /\ q.i + 1 \in Nat \ {0} /\ (q.i + 1) - 1 = q.i
  BY DEF SoProgress
<1>2. p \in SoProgress
  BY <1>1 DEF SoPassed, SoProgress
<1>3. /\ p.i = q.i + 1 /\ p.pc = "walk" /\ p.mode = q.mode /\ p.near = {} /\ p.to = q.to
      /\ p.sniffed = q.sniffed /\ p.dns = q.dns
  BY DEF SoPassed, SoProgress
<1> HIDE DEF p
<1>4. p.i <= Len(soRules) + 1
  BY <1>1, <1>3, SoBasics
<1>5. SoSees(r, p, p.i - 1)
  BY <1>1, <1>3 DEF SoSees
<1>6. SoNoneBefore(r, p, p.i)
  <2>1. SUFFICES ASSUME NEW j \in DOMAIN soRules, j < q.i + 1 PROVE ~SoRuleHolds(r, p, j)
    BY <1>3 DEF SoNoneBefore
  <2>2. j < q.i \/ j = q.i
    BY <1>1, <2>1, SoBasics
  <2>3. ~SoRuleHolds(r, q, j)
    BY <2>2 DEF SoNoneBefore
  <2> QED
    BY <1>3, <2>3, SoHoldsSame
<1>7. SoAt(r, p)
  BY <1>3, <1>4, <1>5, <1>6 DEF SoAt
<1> QED
  BY <1>2, <1>7 DEF p

\* Choosing a rule that holds.
LEMMA SoChooses ==
    ASSUME SoInv, NEW r \in SoRequests, NEW q \in SoProgress, NEW to \in SoTargets,
           q.i \in DOMAIN soRules, SoNoneBefore(r, q, q.i), SoRuleHolds(r, q, q.i)
    PROVE  SoChosen(q, to) \in SoProgress /\ SoAt(r, SoChosen(q, to))
<1> DEFINE p == SoChosen(q, to)
<1>1. p \in SoProgress
  BY DEF SoChosen, SoProgress
<1>2. p.pc = "done" /\ p.out = q.i /\ p.mode = q.mode /\ p.near = q.near
  BY DEF SoChosen, SoProgress
<1> HIDE DEF p
<1>3. SoRuleHolds(r, p, p.out)
  BY <1>2, SoHoldsSame
<1>4. SoNoneBefore(r, p, p.out)
  <2>1. SUFFICES ASSUME NEW j \in DOMAIN soRules, j < q.i PROVE ~SoRuleHolds(r, p, j)
    BY <1>2 DEF SoNoneBefore
  <2>2. ~SoRuleHolds(r, q, j)
    BY <2>1 DEF SoNoneBefore
  <2> QED
    BY <1>2, <2>2, SoHoldsSame
<1>5. SoAt(r, p)
  BY <1>2, <1>3, <1>4 DEF SoAt
<1> QED
  BY <1>1, <1>5 DEF p

\* A request reads the mode and starts at the first rule.
LEMMA SoStartKeeps ==
    ASSUME SoInv, NEW r \in SoRequests, SoStart(r)
    PROVE  SoInv'
<1> DEFINE q == [soReq[r] EXCEPT !.pc = "walk", !.mode = soMode]
<1>1. soReq[r] \in SoProgress /\ SoAt(r, soReq[r]) /\ soMode \in SoModes
  BY SoBasics DEF SoInv, SoTypeOK
<1>2. soReq' = [soReq EXCEPT ![r] = q] /\ soRules' = soRules /\ soMode' = soMode /\ soReq[r].pc = "new"
  BY DEF SoStart, SoInv, SoTypeOK
<1>3. q \in SoProgress
  BY <1>1 DEF SoProgress
<1>4. q.pc = "walk" /\ q.near = {} /\ q.i = 1 /\ ~q.sniffed /\ ~q.dns /\ q.to = r.target
  BY <1>1, <1>2 DEF SoAt, SoProgress
<1> HIDE DEF q
<1>5. ~SoLooked(q.mode, 0)
  BY SoLookedNext
<1>6. SoSees(r, q, q.i - 1)
  BY <1>4, <1>5 DEF SoSees, SoTargetAt
<1>7. SoNoneBefore(r, q, q.i) /\ q.i <= Len(soRules) + 1
  BY <1>4, SoBasics DEF SoNoneBefore
<1>8. SoAt(r, q)
  BY <1>4, <1>6, <1>7 DEF SoAt
<1> QED
  BY <1>2, <1>3, <1>8, SoStep

\* A rule of another mode is passed.
LEMMA SoSkipKeeps ==
    ASSUME SoInv, NEW r \in SoRequests, SoSkip(r)
    PROVE  SoInv'
<1> DEFINE q == soReq[r]
<1>1. q \in SoProgress /\ SoAt(r, q) /\ q.i \in Nat \ {0}
  BY SoBasics DEF SoProgress
<1>2. /\ q.pc = "walk" /\ q.i \in DOMAIN soRules /\ ~SoActive(soRules[q.i], q.mode)
      /\ soReq' = [soReq EXCEPT ![r] = SoPassed(q)] /\ soRules' = soRules /\ soMode' = soMode
  BY DEF SoSkip, SoInv, SoTypeOK
<1> HIDE DEF q
<1>3. q.near = {} /\ SoSees(r, q, q.i - 1) /\ SoNoneBefore(r, q, q.i)
  BY <1>1, <1>2 DEF SoAt
<1>4. SoLooked(q.mode, q.i) <=> SoLooked(q.mode, q.i - 1)
  BY <1>1, <1>2, SoLookedNext
<1>5. SoSees(r, q, q.i)
  BY <1>3, <1>4 DEF SoSees, SoTargetAt
<1>6. ~SoRuleHolds(r, q, q.i)
  BY <1>2 DEF SoRuleHolds
<1>7. SoPassed(q) \in SoProgress /\ SoAt(r, SoPassed(q))
  BY <1>1, <1>2, <1>3, <1>5, <1>6, SoPasses
<1> QED
  BY <1>2, <1>7, SoStep

\* What a request sees when it looks at an active rule.
LEMMA SoSeenSees ==
    ASSUME SoInv, NEW r \in SoRequests,
           soReq[r].pc = "walk", soReq[r].i \in DOMAIN soRules,
           SoActive(soRules[soReq[r].i], soReq[r].mode)
    PROVE  LET q == SoSeen(r) IN
           /\ q \in SoProgress /\ q.pc = "walk" /\ q.i = soReq[r].i /\ q.mode = soReq[r].mode /\ q.near = {}
           /\ SoSees(r, q, q.i) /\ SoNoneBefore(r, q, q.i)
<1> DEFINE p == soReq[r]
           q == SoSeen(r)
           asks == soRules[p.i].protocol # {}
<1>1. p \in SoProgress /\ p.i \in Nat \ {0} /\ p.sniffed \in BOOLEAN
  BY SoBasics DEF SoProgress
<1>2. p.near = {} /\ SoSees(r, p, p.i - 1) /\ SoNoneBefore(r, p, p.i)
  BY SoBasics DEF SoAt
<1>3. SoLooked(p.mode, p.i) <=> SoLooked(p.mode, p.i - 1) \/ asks
  BY <1>1, SoLookedNext
<1>4. CASE asks /\ ~p.sniffed
  <2>1. q = [p EXCEPT !.sniffed = TRUE, !.dns = r.question # "none", !.to = SoSniff(r)]
    BY <1>4 DEF SoSeen
  <2>2. SoSniff(r) \in SoTargets
    BY DEF SoTargets, SoOwnTargets
  <2>3. q \in SoProgress
    BY <1>1, <2>1, <2>2 DEF SoProgress
  <2>4. /\ q.pc = p.pc /\ q.i = p.i /\ q.mode = p.mode /\ q.near = {} /\ q.sniffed = TRUE
        /\ q.dns = (r.question # "none") /\ q.to = SoSniff(r)
    BY <1>1, <1>2, <2>1 DEF SoProgress
  <2> HIDE DEF q
  <2>5. SoSees(r, q, q.i)
    BY <1>3, <1>4, <2>4 DEF SoSees, SoTargetAt
  <2>6. SoNoneBefore(r, q, q.i)
    BY <1>2, <2>4, SoHoldsSame DEF SoNoneBefore
  <2> QED
    BY <2>3, <2>4, <2>5, <2>6 DEF q
<1>5. CASE ~(asks /\ ~p.sniffed)
  <2>1. q = p
    BY <1>5 DEF SoSeen
  <2>2. SoLooked(p.mode, p.i) <=> SoLooked(p.mode, p.i - 1)
    BY <1>2, <1>3, <1>5 DEF SoSees
  <2>3. SoSees(r, p, p.i)
    BY <1>2, <2>2 DEF SoSees, SoTargetAt
  <2> QED
    BY <1>1, <1>2, <2>1, <2>3
<1> QED
  BY <1>4, <1>5

\* A request that sees its rule as it is judges it as the specification does.
LEMMA SoJudges ==
    ASSUME NEW r, NEW q, SoSees(r, q, q.i)
    PROVE  /\ SoLocal(soRules[q.i], r, q.to, q.dns) <=>
                SoLocal(soRules[q.i], r, SoTargetAt(r, q.mode, q.i), SoLooked(q.mode, q.i) /\ r.question # "none")
           /\ q.to = SoTargetAt(r, q.mode, q.i)
  BY DEF SoSees, SoLocal, SoWhen

\* A rule is passed, holds, or waits for the GeoIP database.
LEMMA SoTryKeeps ==
    ASSUME SoInv, NEW r \in SoRequests, SoTry(r)
    PROVE  SoInv'
<1> DEFINE q == SoSeen(r)
           rule == soRules[q.i]
           named == [kind |-> "domain", host |-> SoPtr[q.to.host], port |-> q.to.port]
           next == IF ~SoLocal(rule, r, q.to, q.dns) THEN SoPassed(q)
                   ELSE IF rule.reverse
                        THEN IF SoReversed(rule, q.to) THEN SoChosen(q, named) ELSE SoPassed(q)
                   ELSE IF rule.geoip # {} THEN [q EXCEPT !.pc = "geoip"]
                   ELSE SoChosen(q, q.to)
<1>1. /\ soReq[r].pc = "walk" /\ soReq[r].i \in DOMAIN soRules
      /\ SoActive(soRules[soReq[r].i], soReq[r].mode)
      /\ soReq' = [soReq EXCEPT ![r] = next] /\ soRules' = soRules /\ soMode' = soMode
  BY DEF SoTry
<1>2. /\ q \in SoProgress /\ q.pc = "walk" /\ q.i \in DOMAIN soRules /\ q.near = {}
      /\ SoSees(r, q, q.i) /\ SoNoneBefore(r, q, q.i) /\ SoActive(rule, q.mode)
  BY <1>1, SoSeenSees
<1> HIDE DEF q
<1>3. SoRuleHolds(r, q, q.i) <=>
        /\ SoLocal(rule, r, q.to, q.dns)
        /\ IF rule.reverse THEN SoReversed(rule, q.to) ELSE rule.geoip = {}
  BY <1>2, SoJudges DEF SoRuleHolds
<1>4. (SoPassed(q) \in SoProgress /\ SoAt(r, SoPassed(q))) \/ SoRuleHolds(r, q, q.i)
  BY <1>2, SoPasses
<1>5. q.to \in SoTargets
  BY <1>2 DEF SoProgress
<1>6. next \in SoProgress /\ SoAt(r, next)
  <2>1. CASE ~SoLocal(rule, r, q.to, q.dns)
    BY <1>3, <1>4, <2>1
  <2>2. CASE SoLocal(rule, r, q.to, q.dns) /\ rule.reverse /\ SoReversed(rule, q.to)
    <3>1. named \in SoTargets
      <4>1. q.to.kind = "ip"
        BY <2>2 DEF SoReversed
      <4>2. q.to \in SoOwnTargets
        BY <1>5, <4>1 DEF SoTargets
      <4> QED
        BY <4>1, <4>2 DEF SoTargets
    <3>2. next = SoChosen(q, named)
      BY <2>2
    <3> QED
      BY <1>2, <1>3, <2>2, <3>1, <3>2, SoChooses
  <2>3. CASE SoLocal(rule, r, q.to, q.dns) /\ rule.reverse /\ ~SoReversed(rule, q.to)
    BY <1>3, <1>4, <2>3
  <2>4. CASE SoLocal(rule, r, q.to, q.dns) /\ ~rule.reverse /\ rule.geoip = {}
    <3>1. next = SoChosen(q, q.to)
      BY <2>4
    <3> QED
      BY <1>2, <1>3, <1>5, <2>4, <3>1, SoChooses
  <2>5. CASE SoLocal(rule, r, q.to, q.dns) /\ ~rule.reverse /\ rule.geoip # {}
    <3> DEFINE p == [q EXCEPT !.pc = "geoip"]
    <3>1. next = p
      BY <2>5
    <3>2. p \in SoProgress
      BY <1>2 DEF SoProgress
    <3>3. /\ p.pc = "geoip" /\ p.i = q.i /\ p.near = {} /\ p.mode = q.mode /\ p.to = q.to /\ p.dns = q.dns
          /\ p.sniffed = q.sniffed
      BY <1>2 DEF SoProgress
    <3> HIDE DEF p
    <3>4. SoSees(r, p, p.i)
      BY <1>2, <3>3 DEF SoSees
    <3>5. SoNoneBefore(r, p, p.i)
      BY <1>2, <3>3, SoHoldsSame DEF SoNoneBefore
    <3>6. SoAt(r, p)
      BY <1>2, <2>5, <3>3, <3>4, <3>5 DEF SoAt
    <3> HIDE DEF next
    <3> QED
      BY <3>1, <3>2, <3>6
  <2> QED
    BY <2>1, <2>2, <2>3, <2>4, <2>5
<1> HIDE DEF next
<1> QED
  BY <1>1, <1>6, SoStep

\* The answer of the database, whatever it is.
LEMMA SoAnswered ==
    ASSUME SoInv, NEW r \in SoRequests, NEW yes \in BOOLEAN, soReq[r].pc \in {"geoip", "resolve"}
    PROVE  SoHolds(soReq[r], yes) \in SoProgress /\ SoAt(r, SoHolds(soReq[r], yes))
<1> DEFINE q == soReq[r]
<1>1. q \in SoProgress /\ q.i \in Nat /\ q.to \in SoTargets
  BY SoBasics DEF SoProgress
<1>2. /\ q.near = {} /\ q.i \in DOMAIN soRules /\ SoSees(r, q, q.i) /\ SoNoneBefore(r, q, q.i)
      /\ SoActive(soRules[q.i], q.mode) /\ SoLocal(soRules[q.i], r, q.to, q.dns)
      /\ ~soRules[q.i].reverse /\ soRules[q.i].geoip # {}
  BY SoBasics DEF SoAt
<1> HIDE DEF q
<1>3. CASE yes
  <2> DEFINE p == [q EXCEPT !.pc = "walk", !.near = @ \cup {q.i}]
  <2>1. p \in SoProgress
    BY <1>1 DEF SoProgress
  <2>2. /\ p.i = q.i /\ p.near = {q.i} /\ p.mode = q.mode /\ p.to = q.to /\ p.dns = q.dns
        /\ p.sniffed = q.sniffed
    BY <1>1, <1>2 DEF SoProgress
  <2>3. SoHolds(q, yes) = SoChosen(p, q.to)
    BY <1>3 DEF SoHolds
  <2> HIDE DEF p
  <2>4. SoSees(r, p, p.i)
    BY <1>2, <2>2 DEF SoSees
  <2>5. SoRuleHolds(r, p, p.i)
    BY <1>2, <2>2, <2>4, SoJudges DEF SoRuleHolds
  <2>6. SoNoneBefore(r, p, p.i)
    <3>1. SUFFICES ASSUME NEW j \in DOMAIN soRules, j < q.i PROVE ~SoRuleHolds(r, p, j)
      BY <2>2 DEF SoNoneBefore
    <3>2. j # q.i /\ ~SoRuleHolds(r, q, j)
      BY <1>1, <1>2, <3>1, SoBasics DEF SoNoneBefore
    <3>3. j \in p.near <=> j \in q.near
      BY <1>2, <2>2, <3>2
    <3> QED
      BY <2>2, <3>2, <3>3, SoHoldsSame
  <2> QED
    BY <1>1, <1>2, <2>1, <2>2, <2>3, <2>5, <2>6, SoChooses DEF q
<1>4. CASE ~yes
  <2> DEFINE p == [q EXCEPT !.pc = "walk"]
  <2>1. p \in SoProgress
    BY <1>1 DEF SoProgress
  <2>2. /\ p.pc = "walk" /\ p.i = q.i /\ p.near = {} /\ p.mode = q.mode /\ p.to = q.to /\ p.dns = q.dns
        /\ p.sniffed = q.sniffed
    BY <1>1, <1>2 DEF SoProgress
  <2>3. SoHolds(q, yes) = SoPassed(p)
    BY <1>4 DEF SoHolds
  <2> HIDE DEF p
  <2>4. SoSees(r, p, p.i)
    BY <1>2, <2>2 DEF SoSees
  <2>5. ~SoRuleHolds(r, p, p.i)
    BY <1>2, <2>2 DEF SoRuleHolds
  <2>6. SoNoneBefore(r, p, p.i)
    BY <1>2, <2>2, SoHoldsSame DEF SoNoneBefore
  <2> QED
    BY <1>2, <2>1, <2>2, <2>3, <2>4, <2>5, <2>6, SoPasses DEF q
<1> QED
  BY <1>3, <1>4

\* The verdict, cached or new, for the rule that waits for it.
LEMMA SoVerdict ==
    ASSUME SoInv, NEW r \in SoRequests, NEW yes \in BOOLEAN, soReq[r].pc \in {"geoip", "resolve"},
           soReq' = [soReq EXCEPT ![r] = SoHolds(soReq[r], yes)], soRules' = soRules, soMode' = soMode
    PROVE  SoInv'
<1>1. SoHolds(soReq[r], yes) \in SoProgress /\ SoAt(r, SoHolds(soReq[r], yes))
  BY SoAnswered
<1> QED
  BY <1>1, SoStep

\* The cache answers, or the request goes on to the resolver.
LEMMA SoLookupKeeps ==
    ASSUME SoInv, NEW r \in SoRequests, SoLookup(r)
    PROVE  SoInv'
<1> DEFINE q == soReq[r]
           p == [q EXCEPT !.pc = "resolve"]
           cached == soGeo[q.to.host] = "yes"
<1>1. q.pc = "geoip" /\ soRules' = soRules /\ soMode' = soMode
  BY DEF SoLookup
<1>2. CASE soReq' = [soReq EXCEPT ![r] = SoHolds(soReq[r], cached)]
  <2>1. cached \in BOOLEAN
    OBVIOUS
  <2> HIDE DEF cached
  <2> QED
    BY <1>1, <1>2, <2>1, SoVerdict
<1>3. CASE soReq' = [soReq EXCEPT ![r] = p]
  <2>1. q \in SoProgress /\ SoAt(r, q)
    BY SoBasics
  <2>2. p \in SoProgress
    BY <2>1 DEF SoProgress
  <2>3. /\ p.pc = "resolve" /\ p.i = q.i /\ p.near = q.near /\ p.mode = q.mode /\ p.to = q.to /\ p.dns = q.dns
        /\ p.sniffed = q.sniffed
    BY <2>1 DEF SoProgress
  <2> HIDE DEF p, q
  <2>4. SoSees(r, p, p.i)
    BY <1>1, <2>1, <2>3 DEF SoAt, SoSees
  <2>5. SoNoneBefore(r, p, p.i)
    BY <1>1, <2>1, <2>3, SoHoldsSame DEF SoAt, SoNoneBefore
  <2>6. SoAt(r, p)
    BY <1>1, <2>1, <2>3, <2>4, <2>5 DEF SoAt
  <2> QED
    BY <1>1, <1>3, <2>2, <2>6, SoStep
<1>4. \/ soReq' = [soReq EXCEPT ![r] = SoHolds(soReq[r], cached)]
      \/ soReq' = [soReq EXCEPT ![r] = p]
  BY DEF SoLookup
<1> QED
  BY <1>2, <1>3, <1>4

\* The resolver and the database answer, or the host does not resolve.
LEMMA SoResolveKeeps ==
    ASSUME SoInv, NEW r \in SoRequests, SoResolve(r) \/ SoUnresolved(r)
    PROVE  SoInv'
<1> DEFINE near == SoCountry[soReq[r].to.host] \in soRules[soReq[r].i].geoip
<1>1. soReq[r].pc = "resolve" /\ soRules' = soRules /\ soMode' = soMode
  BY DEF SoResolve, SoUnresolved
<1>2. \E yes \in {near, FALSE} : soReq' = [soReq EXCEPT ![r] = SoHolds(soReq[r], yes)]
  BY DEF SoResolve, SoUnresolved
<1>3. near \in BOOLEAN
  OBVIOUS
<1> HIDE DEF near
<1>4. PICK yes \in BOOLEAN : soReq' = [soReq EXCEPT ![r] = SoHolds(soReq[r], yes)]
  BY <1>2, <1>3
<1> QED
  BY <1>1, <1>4, SoVerdict

\* A request that passed every rule gets the default.
LEMMA SoDefaultKeeps ==
    ASSUME SoInv, NEW r \in SoRequests, SoDefault(r)
    PROVE  SoInv'
<1> DEFINE q == soReq[r]
           p == [q EXCEPT !.pc = "done", !.out = 0]
<1>1. q \in SoProgress /\ SoAt(r, q) /\ q.i \in Nat \ {0}
  BY SoBasics DEF SoProgress
<1>2. /\ q.pc = "walk" /\ q.i \notin DOMAIN soRules
      /\ soReq' = [soReq EXCEPT ![r] = p] /\ soRules' = soRules /\ soMode' = soMode
  BY DEF SoDefault, SoInv, SoTypeOK
<1>3. p \in SoProgress
  BY <1>1 DEF SoProgress
<1>4. p.pc = "done" /\ p.out = 0 /\ p.near = q.near /\ p.mode = q.mode
  BY <1>1 DEF SoProgress
<1> HIDE DEF q, p
<1>5. q.i = Len(soRules) + 1 /\ SoNoneBefore(r, q, q.i)
  BY <1>1, <1>2, SoBasics DEF SoAt
<1>6. SoNoneBefore(r, p, Len(soRules) + 1)
  BY <1>4, <1>5, SoHoldsSame DEF SoNoneBefore
<1>7. SoAt(r, p)
  BY <1>4, <1>6 DEF SoAt
<1> QED
  BY <1>2, <1>3, <1>7, SoStep

\* A step that changes no request.
LEMMA SoIdle ==
    ASSUME SoInv, soReq' = soReq, soRules' = soRules, soMode' \in SoModes
    PROVE  SoInv'
<1>1. ASSUME NEW r \in SoRequests PROVE SoWalked(r)'
  BY SoSame DEF SoInv, SoWalked
<1> QED
  BY <1>1 DEF SoInv, SoTypeOK

\* Every step of a request, of the mode and of the database keeps the invariant.
LEMMA SoNextKeeps == SoInv /\ [SoNext]_soVars => SoInv'
<1> SUFFICES ASSUME SoInv, [SoNext]_soVars PROVE SoInv'
  OBVIOUS
<1>1. ASSUME NEW r \in SoRequests, SoStart(r) PROVE SoInv'
  BY <1>1, SoStartKeeps
<1>2. ASSUME NEW r \in SoRequests, SoSkip(r) PROVE SoInv'
  BY <1>2, SoSkipKeeps
<1>3. ASSUME NEW r \in SoRequests, SoTry(r) PROVE SoInv'
  BY <1>3, SoTryKeeps
<1>4. ASSUME NEW r \in SoRequests, SoLookup(r) PROVE SoInv'
  BY <1>4, SoLookupKeeps
<1>5. ASSUME NEW r \in SoRequests, SoResolve(r) \/ SoUnresolved(r) PROVE SoInv'
  BY <1>5, SoResolveKeeps
<1>6. ASSUME NEW r \in SoRequests, SoDefault(r) PROVE SoInv'
  BY <1>6, SoDefaultKeeps
<1>7. ASSUME NEW m \in SoModes, SoSetMode(m) PROVE SoInv'
  BY <1>7, SoIdle DEF SoSetMode
<1>8. ASSUME NEW h \in SoHosts, SoGeoExpires(h) PROVE SoInv'
  BY <1>8, SoIdle DEF SoGeoExpires, SoInv, SoTypeOK
<1>9. ASSUME UNCHANGED soVars PROVE SoInv'
  BY <1>9, SoIdle DEF soVars, SoInv, SoTypeOK
<1> QED
  BY <1>1, <1>2, <1>3, <1>4, <1>6, <1>7, <1>8, <1>9, <1>5 DEF SoNext

\* The invariant says of a request that is done that its rule is the first that holds.
LEMMA SoPicks == SoInv => SoPicksRight
<1> SUFFICES ASSUME SoInv PROVE SoFirstWins
  BY SoLabels DEF SoPicksRight
<1> SUFFICES ASSUME NEW r \in SoRequests, soReq[r].pc = "done"
             PROVE  LET hold == {i \in DOMAIN soRules : SoRuleHolds(r, soReq[r], i)} IN
                    IF hold = {} THEN soReq[r].out = 0
                    ELSE soReq[r].out \in hold /\ \A i \in hold : soReq[r].out <= i
  BY DEF SoFirstWins
<1> DEFINE q == soReq[r]
<1>1. /\ Len(soRules) \in Nat /\ DOMAIN soRules = 1 .. Len(soRules) /\ q.out \in Nat
      /\ \/ q.out = 0 /\ SoNoneBefore(r, q, Len(soRules) + 1)
         \/ q.out \in DOMAIN soRules /\ SoRuleHolds(r, q, q.out) /\ SoNoneBefore(r, q, q.out)
  BY SoBasics DEF SoAt, SoProgress
<1> HIDE DEF q
<1>2. CASE q.out = 0 /\ SoNoneBefore(r, q, Len(soRules) + 1)
  <2>1. \A i \in DOMAIN soRules : ~SoRuleHolds(r, q, i)
    BY <1>1, <1>2 DEF SoNoneBefore
  <2> QED
    BY <1>2, <2>1 DEF q
<1>3. CASE q.out \in DOMAIN soRules /\ SoRuleHolds(r, q, q.out) /\ SoNoneBefore(r, q, q.out)
  <2>1. \A i \in DOMAIN soRules : SoRuleHolds(r, q, i) => q.out <= i
    BY <1>1, <1>3 DEF SoNoneBefore
  <2> QED
    BY <1>3, <2>1 DEF q
<1> QED
  BY <1>1, <1>2, <1>3

\* Router rules (find_outbound): the outbound of a request is that of the first rule that
\* holds of it in the mode the request started with, the default if none does, and a domain
\* suffix matches whole labels only, for any rules, requests, modes and answers of the
\* GeoIP database, with the mode switched at any time.
THEOREM SoSafe == SoInit /\ [][SoNext]_soVars => []SoPicksRight
<1>1. SoInit /\ [][SoNext]_soVars => []SoInv
  BY SoInitInv, SoNextKeeps, PTL
<1> QED
  BY <1>1, SoPicks, PTL

-----------------------------------------------------------------------------
(* Router: UDP sessions *)

\* What the loop and the tasks keep of a session.
RuRecord ==
    [key : RuKeys, pc : {"connect", "first", "run", "drop", "gone"}, q : Seq(Nat), hold : Seq(Nat),
     asks : Nat, ready : Nat, back : BOOLEAN, got : Nat, closed : BOOLEAN, reset : BOOLEAN]

\* The types of the state.
RuTypeOK ==
    /\ ruIn \in Nat
    /\ ruS \in Seq(RuRecord)
    /\ ruMap \in [RuKeys -> Nat]
    /\ ruSent \in [RuKeys -> Nat]
    /\ ruLoop \in [pc : {"recv", "send", "over"}, key : RuKeys \cup {"none"}, pkt : Nat, sid : Nat]

\* Where the task of a session can still take datagrams.
RuOpened == {"connect", "first", "run"}

\* The map knows sessions of the flow only; the loop sends to the session it found there,
\* whose entry can be removed meanwhile, and never replaced.
RuMapped ==
    /\ \A k \in RuKeys : ruMap[k] # 0 => ruMap[k] \in RuIds /\ ruS[ruMap[k]].key = k
    /\ ruLoop.pc = "send" =>
         /\ ruLoop.key \in RuKeys
         /\ ruLoop.sid \in RuIds
         /\ ruS[ruLoop.sid].key = ruLoop.key
         /\ ruMap[ruLoop.key] \in {0, ruLoop.sid}

\* Datagram p of flow k has not been given to the outbound, and was received before the
\* one that the loop holds.
RuBetween(p, k) ==
    /\ ruSent[k] < p /\ p <= ruIn
    /\ ruLoop.pc = "send" /\ ruLoop.key = k => p < ruLoop.pkt

\* Datagrams are numbered as they are received.
RuRises(q) == \A i, j \in DOMAIN q : i < j => q[i] < q[j]

\* The datagrams of a session: its batch, then its queue.
RuLine(r) ==
    /\ RuRises(r.q) /\ RuRises(r.hold)
    /\ \A i \in DOMAIN r.hold : \A j \in DOMAIN r.q : r.hold[i] < r.q[j]
    /\ \A i \in DOMAIN r.q : RuBetween(r.q[i], r.key)
    /\ \A i \in DOMAIN r.hold : RuBetween(r.hold[i], r.key)
    /\ r.pc \in {"connect", "first"} => r.q # <<>> /\ r.hold = <<>>
    /\ r.pc \notin RuOpened => r.q = <<>> /\ r.hold = <<>>

\* What has been given to the outbound, what the loop holds and what the sessions hold
\* follow one another.
RuOrdered ==
    /\ \A k \in RuKeys : ruSent[k] <= ruIn
    /\ ruLoop.pc = "send" => ruSent[ruLoop.key] < ruLoop.pkt /\ ruLoop.pkt <= ruIn
    /\ \A s \in RuIds : RuLine(ruS[s])

\* What makes RuFound, RuCounts and RuInOrder inductive together.
RuInv == RuTypeOK /\ RuMapped /\ RuFound /\ RuCounts /\ RuOrdered

\* The sessions that are counted.
RuLive == {s \in RuIds : ruS[s].pc \in {"first", "run"}}

\* Finitely many sessions are counted.
LEMMA RuLiveFinite ==
    ASSUME NEW S, NEW q \in Seq(S), NEW L, L \subseteq DOMAIN q
    PROVE  IsFiniteSet(L) /\ Cardinality(L) \in Nat
<1>1. DOMAIN q = 1 .. Len(q) /\ Len(q) \in Nat
  BY LenProperties
<1>2. IsFiniteSet(1 .. Len(q))
  BY <1>1, FS_Interval
<1> QED
  BY <1>1, <1>2, FS_Subset, FS_CardinalityType

\* A loop without sessions satisfies the invariant.
LEMMA RuInitInv == RuInit => RuInv
<1> SUFFICES ASSUME RuInit PROVE RuInv
  OBVIOUS
<1>1. RuTypeOK /\ RuIds = {}
  BY DEF RuInit, RuTypeOK, RuIdleLoop, RuIds
<1>2. RuMapped /\ RuFound /\ RuOrdered
  BY <1>1 DEF RuInit, RuMapped, RuFound, RuOrdered, RuIdleLoop
<1>3. RuCounts
  <2>1. {s \in RuIds : ruS[s].pc \in {"first", "run"}} = {}
    BY <1>1
  <2> QED
    BY <2>1, FS_EmptySet DEF RuInit, RuCounts
<1> QED
  BY <1>1, <1>2, <1>3 DEF RuInv

\* One session becomes r.
LEMMA RuUpdate ==
    ASSUME RuTypeOK, NEW s \in RuIds, NEW r \in RuRecord, ruS' = [ruS EXCEPT ![s] = r]
    PROVE  /\ ruS' \in Seq(RuRecord) /\ RuIds' = RuIds
           /\ ruS'[s] = r /\ \A u \in RuIds : u # s => ruS'[u] = ruS[u]
  BY DEF RuTypeOK, RuIds

\* What a session has queued and what it holds are numbers of datagrams.
LEMMA RuQueuedNumbers ==
    ASSUME NEW r \in RuRecord
    PROVE  /\ \A i \in DOMAIN r.q : r.q[i] \in Nat
           /\ \A i \in DOMAIN r.hold : r.hold[i] \in Nat
<1>1. r.q \in Seq(Nat) /\ r.hold \in Seq(Nat)
  BY DEF RuRecord
<1> QED
  BY <1>1, ElementOfSeq, LenProperties

\* The record of a session.
LEMMA RuRecordOf ==
    ASSUME RuTypeOK, NEW s \in RuIds
    PROVE  ruS[s] \in RuRecord
  BY DEF RuTypeOK, RuIds

\* A session that has just been opened.
LEMMA RuNewSession ==
    ASSUME NEW k \in RuKeys, NEW p \in Nat
    PROVE  /\ RuSession(k, p) \in RuRecord /\ RuSession(k, p).key = k /\ RuSession(k, p).pc = "connect"
           /\ RuSession(k, p).q = <<p>> /\ RuSession(k, p).hold = <<>>
<1>1. <<p>> \in Seq(Nat) /\ <<>> \in Seq(Nat)
  OBVIOUS
<1> QED
  BY <1>1 DEF RuSession, RuRecord

\* Counting a query or not leaves the rest of a session as it is.
LEMMA RuAsks ==
    ASSUME NEW r \in RuRecord, NEW n \in Nat
    PROVE  LET x == [r EXCEPT !.asks = @ + n]
           IN  x \in RuRecord /\ x.key = r.key /\ x.pc = r.pc /\ x.q = r.q /\ x.hold = r.hold
<1>1. r.asks + n \in Nat
  BY DEF RuRecord
<1> QED
  BY <1>1 DEF RuRecord

\* A step of one session's task, which keeps its flow and is not opened by it, leaves
\* the map and what the loop found there as they were.
LEMMA RuTaskMapped ==
    ASSUME RuTypeOK, RuMapped, RuFound, NEW s \in RuIds, NEW r \in RuRecord,
           ruS' = [ruS EXCEPT ![s] = r], r.key = ruS[s].key,
           r.pc \in RuOpened => ruS[s].pc \in RuOpened, UNCHANGED <<ruMap, ruLoop>>
    PROVE  RuMapped' /\ RuFound'
<1>1. RuIds' = RuIds /\ ruS'[s] = r /\ \A u \in RuIds : u # s => ruS'[u] = ruS[u]
  BY RuUpdate
<1>2. \A u \in RuIds : ruS'[u].key = ruS[u].key
  BY <1>1
<1>3. \A u \in RuIds : ruS'[u].pc \in RuOpened => ruS[u].pc \in RuOpened
  BY <1>1
<1>4. RuMapped'
  BY <1>1, <1>2 DEF RuMapped
<1>5. RuFound'
  BY <1>1, <1>2, <1>3 DEF RuFound, RuOpen, RuOpened
<1> QED
  BY <1>4, <1>5

\* How such a step changes the number of those that are counted.
LEMMA RuTaskCounts ==
    ASSUME RuTypeOK, RuCounts, NEW s \in RuIds, NEW r \in RuRecord,
           ruS' = [ruS EXCEPT ![s] = r]
    PROVE  /\ (r.pc \in {"first", "run"} <=> ruS[s].pc \in {"first", "run"}) /\ ruActive' = ruActive => RuCounts'
           /\ r.pc \in {"first", "run"} /\ ruS[s].pc \notin {"first", "run"} /\ ruActive' = ruActive + 1 => RuCounts'
           /\ r.pc \notin {"first", "run"} /\ ruS[s].pc \in {"first", "run"} /\ ruActive' = ruActive - 1 => RuCounts'
<1>1. ruS' \in Seq(RuRecord) /\ RuIds' = RuIds /\ ruS'[s] = r /\ \A u \in RuIds : u # s => ruS'[u] = ruS[u]
  BY RuUpdate
<1>2. IsFiniteSet(RuLive) /\ Cardinality(RuLive) \in Nat
  <2>1. ruS \in Seq(RuRecord) /\ RuLive \subseteq DOMAIN ruS
    BY DEF RuTypeOK, RuLive, RuIds
  <2> QED
    BY <2>1, RuLiveFinite
<1>3. ruActive = Cardinality(RuLive)
  BY DEF RuCounts, RuLive
<1>4. RuCounts' <=> ruActive' = Cardinality(RuLive')
  BY DEF RuCounts, RuLive
<1>5. ASSUME r.pc \in {"first", "run"} <=> ruS[s].pc \in {"first", "run"}
      PROVE  RuLive' = RuLive
  BY <1>1, <1>5 DEF RuLive
<1>6. ASSUME r.pc \in {"first", "run"}, ruS[s].pc \notin {"first", "run"}
      PROVE  Cardinality(RuLive') = Cardinality(RuLive) + 1
  <2>1. RuLive' = RuLive \cup {s} /\ s \notin RuLive
    BY <1>1, <1>6 DEF RuLive
  <2> QED
    BY <2>1, <1>2, FS_AddElement
<1>7. ASSUME r.pc \notin {"first", "run"}, ruS[s].pc \in {"first", "run"}
      PROVE  Cardinality(RuLive') = Cardinality(RuLive) - 1
  <2>1. RuLive' = RuLive \ {s} /\ s \in RuLive
    BY <1>1, <1>7 DEF RuLive
  <2> QED
    BY <2>1, <1>2, FS_RemoveElement
<1> QED
  BY <1>3, <1>4, <1>5, <1>6, <1>7

\* ... and one that gives nothing to the outbound keeps the order, if its own datagrams do.
LEMMA RuTaskOrdered ==
    ASSUME RuTypeOK, RuOrdered, NEW s \in RuIds, NEW r \in RuRecord,
           ruS' = [ruS EXCEPT ![s] = r], RuLine(r), UNCHANGED <<ruIn, ruLoop, ruSent>>
    PROVE  RuOrdered'
<1>1. RuIds' = RuIds /\ ruS'[s] = r /\ \A u \in RuIds : u # s => ruS'[u] = ruS[u]
  BY RuUpdate
<1>2. \A u \in RuIds : RuLine(ruS'[u])
  BY <1>1 DEF RuOrdered
<1>3. ASSUME NEW u \in RuIds, RuLine(ruS'[u]) PROVE RuLine(ruS[u])'
  BY <1>3 DEF RuLine, RuBetween
<1> QED
  BY <1>1, <1>2, <1>3 DEF RuOrdered

\* A datagram that is given to the outbound is later than those given before and
\* earlier than all that its flow has under way.
LEMMA RuGivesOrdered ==
    ASSUME RuTypeOK, RuMapped, RuFound, RuOrdered, NEW s \in RuIds, NEW r \in RuRecord, NEW p \in Nat,
           ruS' = [ruS EXCEPT ![s] = r], ruS[s].pc \in RuOpened, r.key = ruS[s].key,
           r.pc = "run", RuBetween(p, r.key),
           RuRises(r.q), RuRises(r.hold),
           \A i \in DOMAIN r.hold : \A j \in DOMAIN r.q : r.hold[i] < r.q[j],
           \A i \in DOMAIN r.q : RuBetween(r.q[i], r.key) /\ p < r.q[i],
           \A i \in DOMAIN r.hold : RuBetween(r.hold[i], r.key) /\ p < r.hold[i],
           ruSent' = [ruSent EXCEPT ![r.key] = p], UNCHANGED <<ruIn, ruLoop>>
    PROVE  RuOrdered' /\ \A k \in RuKeys : ruSent'[k] >= ruSent[k]
<1>1. RuIds' = RuIds /\ ruS'[s] = r /\ \A u \in RuIds : u # s => ruS'[u] = ruS[u]
  BY RuUpdate
<1>2. r.key \in RuKeys
  BY DEF RuRecord
<1>3. ruSent'[r.key] = p /\ \A k \in RuKeys : k # r.key => ruSent'[k] = ruSent[k]
  BY <1>2 DEF RuTypeOK
<1>4. RuLine(ruS[s])'
  BY <1>1, <1>3 DEF RuLine, RuBetween, RuOpened, RuRises
<1>5. ASSUME NEW u \in RuIds, u # s PROVE RuLine(ruS[u])'
  <2>1. RuLine(ruS[u]) /\ ruS'[u] = ruS[u] /\ ruS[u] \in RuRecord
    BY <1>1, <1>5, RuRecordOf DEF RuOrdered
  <2>2. CASE ruS[u].key = r.key
    <3>1. ruS[u].pc \notin RuOpened
      BY <2>2, <1>5 DEF RuFound, RuOpen, RuOpened
    <3> QED
      BY <3>1, <2>1 DEF RuLine, RuRises
  <2>3. CASE ruS[u].key # r.key
    <3>1. ruSent'[ruS[u].key] = ruSent[ruS[u].key]
      BY <1>3, <2>1, <2>3 DEF RuRecord
    <3> QED
      BY <3>1, <2>1 DEF RuLine, RuBetween
  <2> QED
    BY <2>2, <2>3
<1>6. \A k \in RuKeys : ruSent'[k] <= ruIn'
  BY <1>3 DEF RuOrdered, RuBetween
<1>7. ruLoop'.pc = "send" => ruSent'[ruLoop'.key] < ruLoop'.pkt /\ ruLoop'.pkt <= ruIn'
  BY <1>3 DEF RuOrdered, RuBetween, RuMapped
<1>8. \A k \in RuKeys : ruSent'[k] >= ruSent[k]
  <2>1. ruSent[r.key] <= p
    BY <1>2 DEF RuBetween, RuTypeOK
  <2> QED
    BY <2>1, <1>3 DEF RuTypeOK
<1> QED
  BY <1>1, <1>4, <1>5, <1>6, <1>7, <1>8 DEF RuOrdered

\* The outbound is given nothing older than before.
RuForwardOnly == \A k \in RuKeys : ruSent'[k] >= ruSent[k]

\* A step that gives nothing to the outbound is in order.
LEMMA RuSilent ==
    ASSUME RuTypeOK, ruSent' = ruSent
    PROVE  RuForwardOnly
  BY DEF RuTypeOK, RuForwardOnly

\* dispatch_packet returns.
LEMMA RuEndKeeps ==
    ASSUME RuInv, NEW s \in RuIds, ruS[s].pc \in RuOpened, RuEnd(s),
           UNCHANGED <<ruIn, ruLoop, ruMap, ruSent>>
    PROVE  RuInv' /\ RuForwardOnly
<1> DEFINE r == RuEnded(s)
<1>1. RuTypeOK /\ RuMapped /\ RuFound /\ RuCounts /\ RuOrdered
  BY DEF RuInv
<1>2. ruS[s] \in RuRecord
  BY <1>1, RuRecordOf
<1>3. /\ r \in RuRecord /\ r.key = ruS[s].key /\ r.pc = "drop" /\ r.q = <<>> /\ r.hold = <<>>
      /\ r.pc \notin RuOpened
  <2> DEFINE n == RuSession(ruS[s].key, 0)
  <2>1. n \in RuRecord /\ n.key = ruS[s].key /\ n.hold = <<>>
    BY <1>2, RuNewSession DEF RuRecord
  <2>2. <<>> \in Seq(Nat)
    OBVIOUS
  <2>3. r = [n EXCEPT !.pc = "drop", !.q = <<>>, !.closed = TRUE]
    BY DEF RuEnded
  <2> HIDE DEF n, r
  <2> QED
    BY <2>1, <2>2, <2>3 DEF RuRecord, RuOpened
<1>4. ruS' = [ruS EXCEPT ![s] = r]
  BY DEF RuEnd
<1> HIDE DEF r
<1>5. RuTypeOK'
  BY <1>1, <1>3, <1>4, RuUpdate DEF RuTypeOK
<1>6. RuMapped' /\ RuFound'
  BY <1>1, <1>3, <1>4, RuTaskMapped
<1>7. RuCounts'
  <2>1. CASE ruS[s].pc = "connect"
    <3>1. ruActive' = ruActive - 0
      BY <2>1 DEF RuEnd
    <3>2. ruActive \in Nat
      <4>1. ruS \in Seq(RuRecord) /\ RuLive \subseteq DOMAIN ruS
        BY <1>1 DEF RuTypeOK, RuLive, RuIds
      <4> QED
        BY <4>1, <1>1, RuLiveFinite DEF RuCounts, RuLive
    <3>3. ruActive' = ruActive
      BY <3>1, <3>2
    <3> QED
      BY <2>1, <3>3, <1>1, <1>3, <1>4, RuTaskCounts
  <2>2. CASE ruS[s].pc # "connect"
    <3>1. ruActive' = ruActive - 1 /\ ruS[s].pc \in {"first", "run"}
      BY <2>2 DEF RuEnd, RuOpened
    <3> QED
      BY <3>1, <1>1, <1>3, <1>4, RuTaskCounts
  <2> QED
    BY <2>1, <2>2
<1>8. RuOrdered'
  <2>1. RuLine(r)
    BY <1>3 DEF RuLine, RuRises, RuOpened
  <2> QED
    BY <2>1, <1>1, <1>3, <1>4, RuTaskOrdered
<1> QED
  BY <1>1, <1>5, <1>6, <1>7, <1>8, RuSilent DEF RuInv

\* A step that leaves the datagrams of the session where they are.
LEMMA RuStays ==
    ASSUME RuInv, NEW s \in RuIds, NEW r \in RuRecord, ruS' = [ruS EXCEPT ![s] = r],
           r.key = ruS[s].key, r.pc = ruS[s].pc, r.q = ruS[s].q, r.hold = ruS[s].hold,
           UNCHANGED <<ruIn, ruLoop, ruMap, ruActive, ruSent>>
    PROVE  RuInv' /\ RuForwardOnly
<1>1. RuTypeOK /\ RuMapped /\ RuFound /\ RuCounts /\ RuOrdered
  BY DEF RuInv
<1>2. RuTypeOK'
  BY <1>1, RuUpdate DEF RuTypeOK
<1>3. RuMapped' /\ RuFound'
  BY <1>1, RuTaskMapped
<1>4. RuCounts'
  BY <1>1, RuTaskCounts
<1>5. RuOrdered'
  <2>1. RuLine(ruS[s])
    BY <1>1 DEF RuOrdered
  <2>2. RuLine(r)
    BY <2>1 DEF RuLine
  <2> QED
    BY <2>2, <1>1, RuTaskOrdered
<1> QED
  BY <1>1, <1>2, <1>3, <1>4, <1>5, RuSilent DEF RuInv

\* The outbound connects, or it does not and the task ends.
LEMMA RuConnectKeeps ==
    ASSUME RuInv, NEW s \in RuIds, RuConnect(s)
    PROVE  RuInv' /\ RuForwardOnly
<1>1. RuTypeOK /\ RuMapped /\ RuFound /\ RuCounts /\ RuOrdered /\ ruS[s] \in RuRecord
  BY RuRecordOf DEF RuInv
<1>2. CASE RuEnd(s)
  <2>1. ruS[s].pc \in RuOpened /\ UNCHANGED <<ruIn, ruLoop, ruMap, ruSent>>
    BY DEF RuConnect, RuOpened
  <2> QED
    BY <2>1, <1>2, RuEndKeeps
<1>3. CASE ruS' = [ruS EXCEPT ![s].pc = "first"] /\ ruActive' = ruActive + 1
  <2> DEFINE r == [ruS[s] EXCEPT !.pc = "first"]
  <2>1. /\ r \in RuRecord /\ r.key = ruS[s].key /\ r.pc = "first" /\ r.q = ruS[s].q
        /\ r.hold = ruS[s].hold /\ ruS[s].pc = "connect"
        /\ UNCHANGED <<ruIn, ruLoop, ruMap, ruSent>>
    BY <1>1 DEF RuRecord, RuConnect
  <2>2. ruS' = [ruS EXCEPT ![s] = r]
    BY <1>3
  <2> HIDE DEF r
  <2>3. RuTypeOK'
    BY <1>1, <2>1, <2>2, RuUpdate DEF RuTypeOK
  <2>4. RuMapped' /\ RuFound'
    BY <1>1, <2>1, <2>2, RuTaskMapped DEF RuOpened
  <2>5. RuCounts'
    BY <1>1, <1>3, <2>1, <2>2, RuTaskCounts
  <2>6. RuOrdered'
    <3>1. RuLine(ruS[s])
      BY <1>1 DEF RuOrdered
    <3>2. RuLine(r)
      BY <3>1, <2>1 DEF RuLine, RuOpened
    <3> QED
      BY <3>2, <1>1, <2>1, <2>2, RuTaskOrdered
  <2> QED
    BY <1>1, <2>1, <2>3, <2>4, <2>5, <2>6, RuSilent DEF RuInv
<1> QED
  BY <1>2, <1>3 DEF RuConnect

\* The head of a rising sequence and what follows it.
LEMMA RuTailRises ==
    ASSUME NEW q \in Seq(Nat), q # <<>>, RuRises(q)
    PROVE  /\ Tail(q) \in Seq(Nat) /\ RuRises(Tail(q)) /\ 1 \in DOMAIN q /\ Head(q) = q[1] /\ Head(q) \in Nat
           /\ \A i \in DOMAIN Tail(q) : i + 1 \in DOMAIN q /\ Tail(q)[i] = q[i + 1] /\ Head(q) < Tail(q)[i]
<1>1. /\ Len(q) \in Nat \ {0} /\ DOMAIN q = 1 .. Len(q) /\ Tail(q) \in Seq(Nat)
      /\ DOMAIN Tail(q) = 1 .. (Len(q) - 1) /\ Head(q) = q[1]
  BY LenProperties, EmptySeq, HeadTailProperties
<1>2. 1 \in DOMAIN q /\ Head(q) \in Nat
  BY <1>1
<1>3. ASSUME NEW i \in DOMAIN Tail(q)
      PROVE  i \in Nat /\ i + 1 \in DOMAIN q /\ 1 < i + 1 /\ Tail(q)[i] = q[i + 1]
  <2>1. i \in Nat /\ i + 1 \in DOMAIN q /\ 1 < i + 1
    BY <1>1, <1>3
  <2> QED
    BY <2>1, <1>1, <1>3
<1>4. \A i \in DOMAIN Tail(q) : Head(q) < Tail(q)[i]
  BY <1>1, <1>2, <1>3 DEF RuRises
<1>5. RuRises(Tail(q))
  <2>1. ASSUME NEW i \in DOMAIN Tail(q), NEW j \in DOMAIN Tail(q), i < j
        PROVE  i + 1 < j + 1
    BY <2>1, <1>3
  <2> QED
    BY <2>1, <1>3 DEF RuRises
<1> QED
  BY <1>1, <1>2, <1>3, <1>4, <1>5

\* The datagram that opened the session goes out, or the task ends.
LEMMA RuFirstKeeps ==
    ASSUME RuInv, NEW s \in RuIds, RuFirst(s)
    PROVE  RuInv' /\ RuForwardOnly
<1>1. RuTypeOK /\ RuMapped /\ RuFound /\ RuCounts /\ RuOrdered /\ ruS[s] \in RuRecord
  BY RuRecordOf DEF RuInv
<1>2. CASE RuEnd(s) /\ UNCHANGED ruSent
  <2>1. ruS[s].pc \in RuOpened /\ UNCHANGED <<ruIn, ruLoop, ruMap, ruSent>>
    BY <1>2 DEF RuFirst, RuOpened
  <2> QED
    BY <2>1, <1>2, RuEndKeeps
<1>3. CASE /\ RuGives(s, Head(ruS[s].q), [ruS[s] EXCEPT !.pc = "run", !.q = Tail(@)])
           /\ UNCHANGED ruActive
  <2> DEFINE b == [ruS[s] EXCEPT !.pc = "run", !.q = Tail(@)]
             r == [b EXCEPT !.asks = @ + (IF b.key \in RuDns THEN 1 ELSE 0)]
             p == Head(ruS[s].q)
  <2>1. ruS' = [ruS EXCEPT ![s] = r] /\ ruSent' = [ruSent EXCEPT ![ruS[s].key] = p]
    BY <1>3 DEF RuGives
  <2>2. ruS[s].pc = "first" /\ UNCHANGED <<ruIn, ruLoop, ruMap>>
    BY DEF RuFirst
  <2>3. RuLine(ruS[s]) /\ ruS[s].q # <<>> /\ ruS[s].q \in Seq(Nat) /\ ruS[s].hold = <<>>
    BY <1>1, <2>2 DEF RuOrdered, RuLine, RuRecord
  <2>4. /\ Tail(ruS[s].q) \in Seq(Nat) /\ RuRises(Tail(ruS[s].q)) /\ 1 \in DOMAIN ruS[s].q /\ p = ruS[s].q[1]
        /\ p \in Nat
        /\ \A i \in DOMAIN Tail(ruS[s].q) :
              i + 1 \in DOMAIN ruS[s].q /\ Tail(ruS[s].q)[i] = ruS[s].q[i + 1] /\ p < Tail(ruS[s].q)[i]
    BY <2>3, RuTailRises DEF RuLine
  <2>5. /\ b \in RuRecord /\ b.key = ruS[s].key /\ b.pc = "run" /\ b.hold = <<>>
        /\ b.q = Tail(ruS[s].q)
    BY <1>1, <2>3, <2>4 DEF RuRecord
  <2> HIDE DEF b
  <2>6. /\ r \in RuRecord /\ r.key = ruS[s].key /\ r.pc = "run" /\ r.hold = <<>>
        /\ r.q = Tail(ruS[s].q)
    <3>1. (IF b.key \in RuDns THEN 1 ELSE 0) \in Nat
      OBVIOUS
    <3> QED
      BY <3>1, <2>5, RuAsks
  <2> HIDE DEF p, r
  <2>7. RuTypeOK'
    <3>1. ruS[s].key \in RuKeys
      BY <1>1 DEF RuRecord
    <3> QED
      BY <3>1, <1>1, <2>1, <2>2, <2>4, <2>6, RuUpdate DEF RuTypeOK
  <2>8. RuMapped' /\ RuFound'
    BY <1>1, <2>1, <2>2, <2>6, RuTaskMapped DEF RuOpened
  <2>9. RuCounts'
    BY <1>1, <1>3, <2>1, <2>2, <2>6, RuTaskCounts
  <2>10. RuOrdered' /\ RuForwardOnly
    <3>1. RuBetween(p, r.key) /\ \A i \in DOMAIN r.q : RuBetween(r.q[i], r.key) /\ p < r.q[i]
      BY <2>3, <2>4, <2>6 DEF RuLine
    <3>2. DOMAIN r.hold = {}
      BY <2>6
    <3>3. RuRises(r.q) /\ RuRises(r.hold) /\ ruS[s].pc \in RuOpened /\ ruSent' = [ruSent EXCEPT ![r.key] = p]
      BY <2>1, <2>2, <2>4, <2>6, <3>2 DEF RuRises, RuOpened
    <3> QED
      BY <3>1, <3>2, <3>3, <1>1, <2>1, <2>2, <2>4, <2>6, RuGivesOrdered DEF RuForwardOnly
  <2> QED
    BY <2>7, <2>8, <2>9, <2>10 DEF RuInv
<1> QED
  BY <1>2, <1>3 DEF RuFirst

\* The next datagram of the batch goes out, or the task ends.
LEMMA RuForwardKeeps ==
    ASSUME RuInv, NEW s \in RuIds, RuForward(s)
    PROVE  RuInv' /\ RuForwardOnly
<1>1. RuTypeOK /\ RuMapped /\ RuFound /\ RuCounts /\ RuOrdered /\ ruS[s] \in RuRecord
  BY RuRecordOf DEF RuInv
<1>2. CASE RuEnd(s) /\ UNCHANGED ruSent
  <2>1. ruS[s].pc \in RuOpened /\ UNCHANGED <<ruIn, ruLoop, ruMap, ruSent>>
    BY <1>2 DEF RuForward, RuOpened
  <2> QED
    BY <2>1, <1>2, RuEndKeeps
<1>3. CASE RuGives(s, Head(ruS[s].hold), [ruS[s] EXCEPT !.hold = Tail(@)]) /\ UNCHANGED ruActive
  <2> DEFINE b == [ruS[s] EXCEPT !.hold = Tail(@)]
             r == [b EXCEPT !.asks = @ + (IF b.key \in RuDns THEN 1 ELSE 0)]
             p == Head(ruS[s].hold)
  <2>1. ruS' = [ruS EXCEPT ![s] = r] /\ ruSent' = [ruSent EXCEPT ![ruS[s].key] = p]
    BY <1>3 DEF RuGives
  <2>2. ruS[s].pc = "run" /\ ruS[s].hold # <<>> /\ UNCHANGED <<ruIn, ruLoop, ruMap>>
    BY DEF RuForward
  <2>3. RuLine(ruS[s]) /\ ruS[s].hold \in Seq(Nat) /\ ruS[s].q \in Seq(Nat)
    BY <1>1, <2>2 DEF RuOrdered, RuRecord
  <2>4. /\ Tail(ruS[s].hold) \in Seq(Nat) /\ RuRises(Tail(ruS[s].hold)) /\ 1 \in DOMAIN ruS[s].hold
        /\ p = ruS[s].hold[1] /\ p \in Nat
        /\ \A i \in DOMAIN Tail(ruS[s].hold) :
              /\ i + 1 \in DOMAIN ruS[s].hold /\ Tail(ruS[s].hold)[i] = ruS[s].hold[i + 1]
              /\ p < Tail(ruS[s].hold)[i]
    BY <2>2, <2>3, RuTailRises DEF RuLine
  <2>5. /\ b \in RuRecord /\ b.key = ruS[s].key /\ b.pc = "run" /\ b.q = ruS[s].q
        /\ b.hold = Tail(ruS[s].hold)
    BY <1>1, <2>2, <2>3, <2>4 DEF RuRecord
  <2> HIDE DEF b
  <2>6. /\ r \in RuRecord /\ r.key = ruS[s].key /\ r.pc = "run" /\ r.q = ruS[s].q
        /\ r.hold = Tail(ruS[s].hold)
    <3>1. (IF b.key \in RuDns THEN 1 ELSE 0) \in Nat
      OBVIOUS
    <3> QED
      BY <3>1, <2>5, RuAsks
  <2> HIDE DEF p, r
  <2>7. RuTypeOK'
    <3>1. ruS[s].key \in RuKeys
      BY <1>1 DEF RuRecord
    <3> QED
      BY <3>1, <1>1, <2>1, <2>2, <2>4, <2>6, RuUpdate DEF RuTypeOK
  <2>8. RuMapped' /\ RuFound'
    BY <1>1, <2>1, <2>2, <2>6, RuTaskMapped DEF RuOpened
  <2>9. RuCounts'
    BY <1>1, <1>3, <2>1, <2>2, <2>6, RuTaskCounts
  <2>10. RuOrdered' /\ RuForwardOnly
    <3>1. RuBetween(p, r.key) /\ \A i \in DOMAIN r.hold : RuBetween(r.hold[i], r.key) /\ p < r.hold[i]
      BY <2>3, <2>4, <2>6 DEF RuLine
    <3>2. \A i \in DOMAIN r.q : RuBetween(r.q[i], r.key) /\ p < r.q[i]
      BY <2>3, <2>4, <2>6 DEF RuLine
    <3>3. \A i \in DOMAIN r.hold : \A j \in DOMAIN r.q : r.hold[i] < r.q[j]
      BY <2>3, <2>4, <2>6 DEF RuLine
    <3>4. RuRises(r.q) /\ RuRises(r.hold) /\ ruS[s].pc \in RuOpened /\ ruSent' = [ruSent EXCEPT ![r.key] = p]
      BY <2>1, <2>2, <2>3, <2>4, <2>6 DEF RuLine, RuOpened
    <3> QED
      BY <3>1, <3>2, <3>3, <3>4, <1>1, <2>1, <2>2, <2>4, <2>6, RuGivesOrdered DEF RuForwardOnly
  <2> QED
    BY <2>7, <2>8, <2>9, <2>10 DEF RuInv
<1> QED
  BY <1>2, <1>3 DEF RuForward

\* The task takes what is queued as its next batch.
LEMMA RuTakeKeeps ==
    ASSUME RuInv, NEW s \in RuIds, RuTake(s)
    PROVE  RuInv' /\ RuForwardOnly
<1> DEFINE r == [ruS[s] EXCEPT !.hold = ruS[s].q, !.q = <<>>]
<1>1. RuTypeOK /\ RuMapped /\ RuFound /\ RuCounts /\ RuOrdered /\ ruS[s] \in RuRecord
  BY RuRecordOf DEF RuInv
<1>2. ruS' = [ruS EXCEPT ![s] = r]
  BY DEF RuTake
<1>3. /\ ruS[s].pc = "run" /\ UNCHANGED <<ruIn, ruLoop, ruMap, ruActive, ruSent>>
  BY DEF RuTake
<1>4. <<>> \in Seq(Nat)
  OBVIOUS
<1>5. /\ r \in RuRecord /\ r.key = ruS[s].key /\ r.pc = "run" /\ r.q = <<>>
      /\ r.hold = ruS[s].q
  BY <1>1, <1>3, <1>4 DEF RuRecord
<1> HIDE DEF r
<1>6. RuTypeOK'
  BY <1>1, <1>2, <1>3, <1>5, RuUpdate DEF RuTypeOK
<1>7. RuMapped' /\ RuFound'
  BY <1>1, <1>2, <1>3, <1>5, RuTaskMapped
<1>8. RuCounts'
  BY <1>1, <1>2, <1>3, <1>5, RuTaskCounts
<1>9. RuOrdered'
  <2>1. RuLine(ruS[s])
    BY <1>1 DEF RuOrdered
  <2>2. RuLine(r)
    BY <2>1, <1>5 DEF RuLine, RuOpened, RuRises
  <2> QED
    BY <2>2, <1>1, <1>2, <1>3, <1>5, RuTaskOrdered
<1> QED
  BY <1>1, <1>3, <1>6, <1>7, <1>8, <1>9, RuSilent DEF RuInv

\* Answers, datagrams of the remote and ends of a session.
LEMMA RuBackKeeps ==
    ASSUME RuInv, NEW s \in RuIds,
           RuAnswer(s) \/ RuBack(s) \/ RuDeliver(s) \/ RuIdle(s) \/ RuStop(s)
    PROVE  RuInv' /\ RuForwardOnly
<1>1. ruS[s] \in RuRecord
  BY RuRecordOf DEF RuInv
<1>2. CASE RuAnswer(s)
  <2>1. UNCHANGED <<ruIn, ruLoop, ruMap, ruActive, ruSent>> /\ ruS[s].asks - 1 \in Nat
    BY <1>1, <1>2 DEF RuAnswer, RuRecord
  <2>2. CASE ruS' = [ruS EXCEPT ![s].asks = @ - 1, ![s].ready = 1]
    <3> DEFINE r == [ruS[s] EXCEPT !.asks = @ - 1, !.ready = 1]
    <3>1. ruS' = [ruS EXCEPT ![s] = r]
      BY <2>2, <1>1 DEF RuInv, RuTypeOK, RuIds
    <3>2. r \in RuRecord /\ r.key = ruS[s].key /\ r.pc = ruS[s].pc /\ r.q = ruS[s].q /\ r.hold = ruS[s].hold
      BY <1>1, <2>1 DEF RuRecord
    <3> HIDE DEF r
    <3> QED
      BY <2>1, <3>1, <3>2, RuStays
  <2>3. CASE ruS' = [ruS EXCEPT ![s].asks = @ - 1, ![s].closed = TRUE]
    <3> DEFINE r == [ruS[s] EXCEPT !.asks = @ - 1, !.closed = TRUE]
    <3>1. ruS' = [ruS EXCEPT ![s] = r]
      BY <2>3, <1>1 DEF RuInv, RuTypeOK, RuIds
    <3>2. r \in RuRecord /\ r.key = ruS[s].key /\ r.pc = ruS[s].pc /\ r.q = ruS[s].q /\ r.hold = ruS[s].hold
      BY <1>1, <2>1 DEF RuRecord
    <3> HIDE DEF r
    <3> QED
      BY <2>1, <3>1, <3>2, RuStays
  <2> QED
    BY <1>2, <2>2, <2>3 DEF RuAnswer
<1>3. CASE RuBack(s)
  <2>1. UNCHANGED <<ruIn, ruLoop, ruMap, ruActive, ruSent>> /\ ruS[s].got + 1 \in Nat
    BY <1>1, <1>3 DEF RuBack, RuRecord
  <2>2. CASE ruS' = [ruS EXCEPT ![s].ready = 0, ![s].back = TRUE, ![s].got = @ + 1, ![s].closed = TRUE]
    <3> DEFINE r == [ruS[s] EXCEPT !.ready = 0, !.back = TRUE, !.got = @ + 1, !.closed = TRUE]
    <3>1. ruS' = [ruS EXCEPT ![s] = r]
      BY <2>2, <1>1 DEF RuInv, RuTypeOK, RuIds
    <3>2. r \in RuRecord /\ r.key = ruS[s].key /\ r.pc = ruS[s].pc /\ r.q = ruS[s].q /\ r.hold = ruS[s].hold
      BY <1>1, <2>1 DEF RuRecord
    <3> HIDE DEF r
    <3> QED
      BY <2>1, <3>1, <3>2, RuStays
  <2>3. CASE ruS' = [ruS EXCEPT ![s].back = TRUE, ![s].got = @ + 1]
    <3> DEFINE r == [ruS[s] EXCEPT !.back = TRUE, !.got = @ + 1]
    <3>1. ruS' = [ruS EXCEPT ![s] = r]
      BY <2>3, <1>1 DEF RuInv, RuTypeOK, RuIds
    <3>2. r \in RuRecord /\ r.key = ruS[s].key /\ r.pc = ruS[s].pc /\ r.q = ruS[s].q /\ r.hold = ruS[s].hold
      BY <1>1, <2>1 DEF RuRecord
    <3> HIDE DEF r
    <3> QED
      BY <2>1, <3>1, <3>2, RuStays
  <2> QED
    BY <1>3, <2>2, <2>3 DEF RuBack
<1>4. CASE RuDeliver(s)
  <2>1. UNCHANGED <<ruIn, ruLoop, ruMap, ruSent>> /\ ruS[s].pc \in RuOpened
    BY <1>4 DEF RuDeliver, RuOpened
  <2>2. CASE RuEnd(s)
    BY <2>1, <2>2, RuEndKeeps
  <2>3. CASE ruS' = [ruS EXCEPT ![s].back = FALSE] /\ UNCHANGED ruActive
    <3>1. [ruS[s] EXCEPT !.back = FALSE] \in RuRecord
      BY <1>1 DEF RuRecord
    <3> QED
      BY <2>1, <2>3, <3>1, <1>1, RuStays DEF RuRecord
  <2> QED
    BY <1>4, <2>2, <2>3 DEF RuDeliver
<1>5. CASE RuIdle(s) \/ RuStop(s)
  <2>1. UNCHANGED <<ruIn, ruLoop, ruMap, ruSent>> /\ ruS[s].pc \in RuOpened /\ RuEnd(s)
    BY <1>5 DEF RuIdle, RuStop, RuOpened
  <2> QED
    BY <2>1, RuEndKeeps
<1> QED
  BY <1>2, <1>3, <1>4, <1>5

\* The task removes its flow's entry, and no other session's.
LEMMA RuForgetKeeps ==
    ASSUME RuInv, NEW s \in RuIds, RuForget(s)
    PROVE  RuInv' /\ RuForwardOnly
<1> DEFINE r == [ruS[s] EXCEPT !.pc = "gone"]
           k == ruS[s].key
<1>1. RuTypeOK /\ RuMapped /\ RuFound /\ RuCounts /\ RuOrdered /\ ruS[s] \in RuRecord
  BY RuRecordOf DEF RuInv
<1>2. ruS' = [ruS EXCEPT ![s] = r]
  BY DEF RuForget
<1>3. /\ ruS[s].pc = "drop" /\ UNCHANGED <<ruIn, ruLoop, ruActive, ruSent>>
      /\ ruMap' = [ruMap EXCEPT ![k] = IF @ # 0 /\ ~RuOpen(@) THEN 0 ELSE @]
  BY DEF RuForget
<1>4. r \in RuRecord /\ r.key = ruS[s].key /\ r.pc = "gone" /\ r.q = ruS[s].q /\ r.hold = ruS[s].hold
  BY <1>1 DEF RuRecord
<1>5. k \in RuKeys
  BY <1>1 DEF RuRecord
<1> HIDE DEF r
<1>6. ruS' \in Seq(RuRecord) /\ RuIds' = RuIds /\ ruS'[s] = r /\ \A u \in RuIds : u # s => ruS'[u] = ruS[u]
  BY <1>1, <1>2, <1>4, RuUpdate
<1>7. /\ ruMap' \in [RuKeys -> Nat] /\ \A l \in RuKeys : ruMap'[l] \in {0, ruMap[l]}
      /\ \A l \in RuKeys : ruMap[l] # 0 /\ RuOpen(ruMap[l]) => ruMap'[l] = ruMap[l]
  BY <1>1, <1>3, <1>5 DEF RuTypeOK
<1>8. RuTypeOK'
  BY <1>1, <1>3, <1>6, <1>7 DEF RuTypeOK
<1>9. \A u \in RuIds : ruS'[u].key = ruS[u].key /\ (ruS'[u].pc \in RuOpened => ruS[u].pc \in RuOpened)
  BY <1>4, <1>6 DEF RuOpened
<1>10. RuMapped'
  BY <1>1, <1>3, <1>6, <1>7, <1>9 DEF RuMapped
<1>11. RuFound'
  <2> SUFFICES ASSUME NEW u \in RuIds, RuOpen(u)' PROVE ruMap'[ruS'[u].key] = u
    BY <1>6 DEF RuFound
  <2>1. RuOpen(u) /\ ruS'[u].key = ruS[u].key /\ ruS[u].key \in RuKeys
    BY <1>1, <1>9, RuRecordOf DEF RuOpen, RuOpened, RuRecord
  <2>2. ruMap[ruS[u].key] = u /\ u # 0
    BY <1>1, <2>1 DEF RuFound, RuIds, RuTypeOK
  <2> QED
    BY <2>1, <2>2, <1>7
<1>12. RuCounts'
  BY <1>1, <1>2, <1>3, <1>4, RuTaskCounts
<1>13. RuOrdered'
  <2>1. RuLine(ruS[s])
    BY <1>1 DEF RuOrdered
  <2>2. RuLine(r)
    BY <2>1, <1>3, <1>4 DEF RuLine, RuOpened
  <2> QED
    BY <2>2, <1>1, <1>2, <1>3, <1>4, RuTaskOrdered
<1> QED
  BY <1>1, <1>3, <1>8, <1>10, <1>11, <1>12, <1>13, RuSilent DEF RuInv

\* The association ends.
LEMMA RuResetKeeps ==
    ASSUME RuInv, RuReset
    PROVE  RuInv' /\ RuForwardOnly
<1>1. RuTypeOK /\ RuMapped /\ RuFound /\ RuCounts /\ RuOrdered
  BY DEF RuInv
<1>2. /\ ruLoop' = [RuIdleLoop EXCEPT !.pc = "over"] /\ UNCHANGED <<ruIn, ruMap, ruActive, ruSent>>
      /\ ruS' = [s \in RuIds |-> [ruS[s] EXCEPT !.reset = @ \/ ruS[s].pc = "run"]]
  BY DEF RuReset
<1>3. ruLoop' \in [pc : {"recv", "send", "over"}, key : RuKeys \cup {"none"}, pkt : Nat, sid : Nat] /\ ruLoop'.pc = "over"
  BY <1>2 DEF RuIdleLoop
<1>4. RuIds' = RuIds
  BY <1>2 DEF RuIds
<1>5. ASSUME NEW s \in RuIds
      PROVE  /\ ruS'[s] \in RuRecord
             /\ ruS'[s].key = ruS[s].key /\ ruS'[s].pc = ruS[s].pc /\ ruS'[s].q = ruS[s].q
             /\ ruS'[s].hold = ruS[s].hold
  <2>1. ruS[s] \in RuRecord
    BY <1>1, RuRecordOf
  <2>2. PICK b \in BOOLEAN : ruS'[s] = [ruS[s] EXCEPT !.reset = b]
    BY <1>2
  <2> QED
    BY <2>1, <2>2 DEF RuRecord
<1>6. ruS' \in Seq(RuRecord)
  <2>1. Len(ruS) \in Nat /\ RuIds = 1 .. Len(ruS)
    BY <1>1 DEF RuTypeOK, RuIds
  <2>2. ruS' \in [1 .. Len(ruS) -> RuRecord]
    BY <1>2, <1>5, <2>1
  <2> QED
    BY <2>1, <2>2, SeqDef
<1>7. RuTypeOK'
  BY <1>1, <1>2, <1>3, <1>6 DEF RuTypeOK
<1>8. RuMapped' /\ RuFound'
  BY <1>1, <1>2, <1>3, <1>4, <1>5 DEF RuMapped, RuFound, RuOpen
<1>9. RuCounts'
  <2>1. RuLive' = RuLive
    BY <1>4, <1>5 DEF RuLive
  <2> QED
    BY <2>1, <1>1, <1>2 DEF RuCounts, RuLive
<1>10. RuOrdered'
  <2>1. ASSUME NEW s \in RuIds PROVE RuLine(ruS[s])'
    <3>1. RuLine(ruS[s])
      BY <1>1 DEF RuOrdered
    <3> QED
      BY <3>1, <1>2, <1>3, <1>5 DEF RuLine, RuBetween
  <2> QED
    BY <2>1, <1>1, <1>2, <1>3, <1>4 DEF RuOrdered
<1> QED
  BY <1>1, <1>2, <1>7, <1>8, <1>9, <1>10, RuSilent DEF RuInv

\* A flow without an open session is given a new one, with a datagram that is later than
\* all that the flow was given; the loop receives again.
LEMMA RuSpawnKeeps ==
    ASSUME RuInv, NEW k \in RuKeys, NEW p \in Nat, RuSpawn(k, p),
           \A s \in RuIds : ruS[s].pc \in RuOpened => ruS[s].key # k,
           ruSent[k] < p, p <= ruIn', ruIn' \in Nat, ruIn <= ruIn', UNCHANGED <<ruActive, ruSent>>
    PROVE  RuInv' /\ RuForwardOnly
<1> DEFINE r == RuSession(k, p)
<1>1. RuTypeOK /\ RuMapped /\ RuFound /\ RuCounts /\ RuOrdered
  BY DEF RuInv
<1>2. PICK n \in Nat : n = Len(ruS) + 1
  BY <1>1 DEF RuTypeOK
<1>3. /\ r \in RuRecord /\ r.key = k /\ r.pc = "connect" /\ r.q = <<p>> /\ r.hold = <<>>
  BY RuNewSession
<1>4. ruS' = Append(ruS, r) /\ ruMap' = [ruMap EXCEPT ![k] = n] /\ ruLoop' = RuIdleLoop
  BY <1>2 DEF RuSpawn
<1> HIDE DEF r
<1>5. /\ ruS' \in Seq(RuRecord) /\ RuIds' = RuIds \cup {n} /\ n \notin RuIds /\ n \in Nat \ {0}
      /\ ruS'[n] = r /\ \A u \in RuIds : ruS'[u] = ruS[u]
  <2>1. ruS \in Seq(RuRecord) /\ Len(ruS) \in Nat /\ RuIds = 1 .. Len(ruS)
    BY <1>1 DEF RuTypeOK, RuIds
  <2>2. ruS' \in Seq(RuRecord) /\ Len(ruS') = n /\ ruS'[n] = r /\ \A u \in 1 .. Len(ruS) : ruS'[u] = ruS[u]
    BY <2>1, <1>2, <1>3, <1>4, AppendProperties
  <2>3. RuIds' = 1 .. n
    BY <2>2 DEF RuIds
  <2> QED
    BY <2>1, <2>2, <2>3, <1>2
<1>6. ruLoop' \in [pc : {"recv", "send", "over"}, key : RuKeys \cup {"none"}, pkt : Nat, sid : Nat] /\ ruLoop'.pc = "recv"
  BY <1>4 DEF RuIdleLoop
<1>7. /\ ruMap' \in [RuKeys -> Nat] /\ ruMap'[k] = n /\ \A l \in RuKeys : l # k => ruMap'[l] = ruMap[l]
  BY <1>1, <1>4, <1>5 DEF RuTypeOK
<1>8. RuTypeOK'
  BY <1>1, <1>5, <1>6, <1>7 DEF RuTypeOK
<1>9. RuMapped'
  BY <1>1, <1>3, <1>5, <1>6, <1>7 DEF RuMapped
<1>10. RuFound'
  <2>1. ASSUME NEW u \in RuIds, RuOpen(u)' PROVE ruMap'[ruS'[u].key] = u
    <3>1. ruS'[u] = ruS[u] /\ RuOpen(u) /\ ruS[u].key \in RuKeys
      BY <2>1, <1>1, <1>5, RuRecordOf DEF RuOpen, RuRecord
    <3>2. ruS[u].key # k
      BY <3>1 DEF RuOpen, RuOpened
    <3> QED
      BY <3>1, <3>2, <1>1, <1>7 DEF RuFound
  <2> QED
    BY <2>1, <1>3, <1>5, <1>7 DEF RuFound
<1>11. RuCounts'
  <2>1. RuLive' = RuLive
    BY <1>3, <1>5 DEF RuLive
  <2> QED
    BY <2>1, <1>1 DEF RuCounts, RuLive
<1>12. RuOrdered'
  <2>1. \A l \in RuKeys : ruSent'[l] <= ruIn'
    BY <1>1 DEF RuOrdered, RuTypeOK
  <2>2. ASSUME NEW u \in RuIds PROVE RuLine(ruS[u])'
    <3>1. RuLine(ruS[u]) /\ ruS'[u] = ruS[u] /\ ruS[u] \in RuRecord
      BY <1>1, <1>5, RuRecordOf DEF RuOrdered
    <3>2. ASSUME NEW x \in Nat, RuBetween(x, ruS[u].key) PROVE ruSent'[ruS[u].key] < x /\ x <= ruIn'
      BY <3>2, <1>1 DEF RuBetween, RuTypeOK
    <3>3. /\ \A i \in DOMAIN ruS[u].q : ruS[u].q[i] \in Nat
          /\ \A i \in DOMAIN ruS[u].hold : ruS[u].hold[i] \in Nat
      BY <3>1, RuQueuedNumbers
    <3> QED
      BY <3>1, <3>2, <3>3, <1>6 DEF RuLine, RuBetween
  <2>3. RuLine(ruS[n])'
    <3>1. DOMAIN <<p>> = {1} /\ <<p>>[1] = p /\ <<p>> # <<>> /\ DOMAIN <<>> = {}
      OBVIOUS
    <3>2. /\ ruS'[n].q = <<p>> /\ ruS'[n].hold = <<>> /\ ruS'[n].pc = "connect" /\ ruS'[n].key = k
      BY <1>3, <1>5
    <3>3. RuRises(<<p>>) /\ RuRises(<<>>)
      BY <3>1 DEF RuRises
    <3>4. ruSent'[k] < p /\ p <= ruIn' /\ ruLoop'.pc # "send"
      BY <1>6
    <3> HIDE DEF RuRises
    <3> QED
      BY <3>1, <3>2, <3>3, <3>4 DEF RuLine, RuBetween, RuOpened
  <2> QED
    BY <2>1, <2>2, <2>3, <1>5, <1>6 DEF RuOrdered
<1> QED
  BY <1>1, <1>8, <1>9, <1>10, <1>11, <1>12, RuSilent DEF RuInv

\* The loop receives a datagram.
LEMMA RuRecvKeeps ==
    ASSUME RuInv, NEW k \in RuKeys, RuRecv(k)
    PROVE  RuInv' /\ RuForwardOnly
<1>1. RuTypeOK /\ RuMapped /\ RuFound /\ RuCounts /\ RuOrdered
  BY DEF RuInv
<1>2. /\ ruLoop.pc = "recv" /\ ruIn' = ruIn + 1 /\ UNCHANGED <<ruActive, ruSent>>
      /\ ruIn' \in Nat /\ ruIn < ruIn' /\ ruSent[k] < ruIn'
  BY <1>1 DEF RuRecv, RuTypeOK, RuOrdered
<1>3. CASE ruMap[k] = 0
  <2>1. RuSpawn(k, ruIn')
    BY <1>2, <1>3 DEF RuRecv
  <2>2. ASSUME NEW s \in RuIds, ruS[s].pc \in RuOpened, ruS[s].key = k PROVE FALSE
    <3>1. ruMap[k] = s /\ s # 0
      BY <2>2, <1>1 DEF RuFound, RuOpen, RuOpened, RuIds, RuTypeOK
    <3> QED
      BY <3>1, <1>3
  <2>3. ruIn <= ruIn' /\ ruIn' <= ruIn'
    BY <1>1, <1>2 DEF RuTypeOK
  <2>4. PICK p \in Nat : p = ruIn'
    BY <1>2
  <2> QED
    BY <1>2, <2>1, <2>2, <2>3, <2>4, RuSpawnKeeps
<1>4. CASE ruMap[k] # 0
  <2>1. /\ ruLoop' = [pc |-> "send", key |-> k, pkt |-> ruIn + 1, sid |-> ruMap[k]]
        /\ UNCHANGED <<ruMap, ruS>>
    BY <1>4 DEF RuRecv
  <2>2. RuTypeOK' /\ RuIds' = RuIds
    BY <1>1, <1>2, <2>1 DEF RuTypeOK, RuIds
  <2>3. RuMapped' /\ RuFound' /\ RuCounts'
    BY <1>1, <1>2, <1>4, <2>1, <2>2 DEF RuMapped, RuFound, RuCounts, RuOpen
  <2>4. ASSUME NEW u \in RuIds PROVE RuLine(ruS[u])'
    <3>1. RuLine(ruS[u]) /\ ruS'[u] = ruS[u] /\ ruS[u] \in RuRecord
      BY <1>1, <2>1, RuRecordOf DEF RuOrdered
    <3>2. ASSUME NEW x \in Nat, RuBetween(x, ruS[u].key)
          PROVE  ruSent'[ruS[u].key] < x /\ x <= ruIn' /\ x < ruLoop'.pkt
      BY <3>2, <1>1, <1>2, <2>1 DEF RuBetween, RuTypeOK
    <3>3. /\ \A i \in DOMAIN ruS[u].q : ruS[u].q[i] \in Nat
          /\ \A i \in DOMAIN ruS[u].hold : ruS[u].hold[i] \in Nat
      BY <3>1, RuQueuedNumbers
    <3> QED
      BY <3>1, <3>2, <3>3 DEF RuLine, RuBetween
  <2>5. RuOrdered'
    BY <1>1, <1>2, <2>1, <2>2, <2>4 DEF RuOrdered, RuTypeOK
  <2> QED
    BY <1>1, <1>2, <2>2, <2>3, <2>5, RuSilent DEF RuInv
<1> QED
  BY <1>3, <1>4

\* The datagram that the loop holds is queued behind all that are there.
LEMMA RuQueueKeeps ==
    ASSUME RuInv, ruLoop.pc = "send", RuQueue, UNCHANGED <<ruIn, ruActive, ruSent>>
    PROVE  RuInv' /\ RuForwardOnly
<1>1. RuTypeOK /\ RuMapped /\ RuFound /\ RuCounts /\ RuOrdered
  BY DEF RuInv
<1>2. PICK s \in RuIds : s = ruLoop.sid
  BY <1>1 DEF RuMapped
<1>3. PICK p \in Nat : p = ruLoop.pkt
  BY <1>1 DEF RuTypeOK
<1> DEFINE r == [ruS[s] EXCEPT !.q = Append(@, p)]
<1>4. /\ ruS' = [ruS EXCEPT ![s] = r] /\ ruLoop' = RuIdleLoop /\ ruMap' = ruMap
      /\ ruS[s].pc \in RuOpened
  BY <1>2, <1>3 DEF RuQueue, RuOpen, RuOpened
<1>5. ruS[s] \in RuRecord /\ ruS[s].key = ruLoop.key /\ ruLoop.key \in RuKeys /\ RuLine(ruS[s])
  BY <1>1, <1>2, RuRecordOf DEF RuMapped, RuOrdered
<1>6. PICK q \in Seq(Nat) : q = ruS[s].q
  BY <1>5 DEF RuRecord
<1>7. /\ Append(q, p) \in Seq(Nat) /\ Append(q, p) # <<>> /\ Len(q) \in Nat /\ DOMAIN q = 1 .. Len(q)
      /\ DOMAIN Append(q, p) = 1 .. (Len(q) + 1)
      /\ Append(q, p)[Len(q) + 1] = p /\ \A i \in DOMAIN q : Append(q, p)[i] = q[i]
  BY <1>6, AppendProperties, LenProperties
<1>8. r \in RuRecord /\ r.key = ruS[s].key /\ r.pc = ruS[s].pc /\ r.q = Append(q, p) /\ r.hold = ruS[s].hold
  BY <1>5, <1>6, <1>7 DEF RuRecord
<1> HIDE DEF r
<1>9. ruLoop' \in [pc : {"recv", "send", "over"}, key : RuKeys \cup {"none"}, pkt : Nat, sid : Nat] /\ ruLoop'.pc = "recv"
  BY <1>4 DEF RuIdleLoop
<1>10. ruS' \in Seq(RuRecord) /\ RuIds' = RuIds /\ ruS'[s] = r /\ \A u \in RuIds : u # s => ruS'[u] = ruS[u]
  BY <1>1, <1>4, <1>8, RuUpdate
<1>11. RuTypeOK'
  BY <1>1, <1>4, <1>9, <1>10 DEF RuTypeOK
<1>12. \A u \in RuIds : ruS'[u].key = ruS[u].key /\ ruS'[u].pc = ruS[u].pc
  BY <1>8, <1>10
<1>13. RuMapped' /\ RuFound'
  BY <1>1, <1>4, <1>9, <1>10, <1>12 DEF RuMapped, RuFound, RuOpen
<1>14. RuCounts'
  BY <1>1, <1>4, <1>8, RuTaskCounts
<1>15. RuOrdered'
  <2>1. ASSUME NEW x \in Nat, NEW k, RuBetween(x, k) PROVE ruSent'[k] < x /\ x <= ruIn' /\ ruLoop'.pc # "send"
    BY <2>1, <1>9 DEF RuBetween
  <2>2. ASSUME NEW u \in RuIds, u # s PROVE RuLine(ruS[u])'
    <3>1. RuLine(ruS[u]) /\ ruS'[u] = ruS[u] /\ ruS[u] \in RuRecord
      BY <1>1, <1>10, <2>2, RuRecordOf DEF RuOrdered
    <3>2. /\ \A i \in DOMAIN ruS[u].q : ruS[u].q[i] \in Nat
          /\ \A i \in DOMAIN ruS[u].hold : ruS[u].hold[i] \in Nat
      BY <3>1, RuQueuedNumbers
    <3> QED
      BY <3>1, <3>2, <2>1 DEF RuLine, RuBetween
  <2>3. RuLine(ruS[s])'
    <3> DEFINE h == ruS[s].hold
    <3>1. /\ \A i \in DOMAIN q : q[i] \in Nat /\ q[i] < p
          /\ \A i \in DOMAIN h : h[i] \in Nat /\ h[i] < p
      BY <1>3, <1>5, <1>6 DEF RuLine, RuBetween, RuRecord
    <3>2. \A i \in DOMAIN Append(q, p) : i = Len(q) + 1 \/ (i \in DOMAIN q /\ i < Len(q) + 1)
      BY <1>7
    <3>3. RuRises(Append(q, p))
      <4>1. ASSUME NEW i \in DOMAIN Append(q, p), NEW j \in DOMAIN Append(q, p), i < j
            PROVE  Append(q, p)[i] < Append(q, p)[j]
        <5>1. i \in DOMAIN q
          BY <4>1, <1>7
        <5>2. CASE j = Len(q) + 1
          BY <5>1, <5>2, <1>7, <3>1
        <5>3. CASE j \in DOMAIN q
          BY <4>1, <5>1, <5>3, <1>5, <1>6, <1>7 DEF RuLine, RuRises
        <5> QED
          BY <5>2, <5>3, <3>2
      <4> QED
        BY <4>1 DEF RuRises
    <3>4. \A i \in DOMAIN h : \A j \in DOMAIN Append(q, p) : h[i] < Append(q, p)[j]
      BY <3>1, <3>2, <1>5, <1>6, <1>7 DEF RuLine
    <3>5. ruSent'[ruS[s].key] < p /\ p <= ruIn'
      BY <1>1, <1>3, <1>5 DEF RuOrdered
    <3>6. \A j \in DOMAIN Append(q, p) :
            ruSent'[ruS[s].key] < Append(q, p)[j] /\ Append(q, p)[j] <= ruIn'
      <4>1. \A i \in DOMAIN q : ruSent'[ruS[s].key] < q[i] /\ q[i] <= ruIn'
        BY <3>1, <2>1, <1>5, <1>6 DEF RuLine
      <4> QED
        BY <4>1, <3>2, <3>5, <1>7
    <3>7. \A i \in DOMAIN h : ruSent'[ruS[s].key] < h[i] /\ h[i] <= ruIn'
      BY <3>1, <2>1, <1>5 DEF RuLine
    <3>8. /\ ruS'[s].q = Append(q, p) /\ ruS'[s].hold = h /\ ruS'[s].key = ruS[s].key
          /\ ruS'[s].pc = ruS[s].pc
      BY <1>8, <1>10
    <3>9. /\ RuRises(h) /\ ruS[s].pc \in RuOpened
          /\ ruS[s].pc \in {"connect", "first"} => h = <<>>
      BY <1>4, <1>5 DEF RuLine
    <3> QED
      BY <3>3, <3>4, <3>6, <3>7, <3>8, <3>9, <1>7, <1>9 DEF RuLine, RuBetween
  <2> QED
    BY <2>2, <2>3, <1>1, <1>4, <1>9, <1>10 DEF RuOrdered
<1> QED
  BY <1>1, <1>11, <1>13, <1>14, <1>15, RuSilent DEF RuInv

\* The loop sends on what it holds.
LEMMA RuSendKeeps ==
    ASSUME RuInv, RuSend
    PROVE  RuInv' /\ RuForwardOnly
<1>1. RuTypeOK /\ RuMapped /\ RuFound /\ RuOrdered
  BY DEF RuInv
<1>2. ruLoop.pc = "send" /\ UNCHANGED <<ruIn, ruActive, ruSent>>
  BY DEF RuSend
<1>3. CASE RuQueue
  BY <1>2, <1>3, RuQueueKeeps
<1>4. CASE ~RuOpen(ruLoop.sid) /\ RuSpawn(ruLoop.key, ruLoop.pkt)
  <2>1. PICK k \in RuKeys : k = ruLoop.key
    BY <1>1, <1>2 DEF RuMapped
  <2>2. PICK p \in Nat : p = ruLoop.pkt
    BY <1>1 DEF RuTypeOK
  <2>3. ASSUME NEW s \in RuIds, ruS[s].pc \in RuOpened, ruS[s].key = k PROVE FALSE
    <3>1. ruMap[k] = s /\ s # 0 /\ RuOpen(s)
      BY <2>3, <1>1 DEF RuFound, RuOpen, RuOpened, RuIds, RuTypeOK
    <3> QED
      BY <3>1, <2>1, <1>1, <1>2, <1>4 DEF RuMapped
  <2>4. ruSent[k] < p /\ p <= ruIn' /\ ruIn' \in Nat /\ ruIn <= ruIn'
    BY <2>1, <2>2, <1>1, <1>2 DEF RuOrdered, RuTypeOK
  <2> QED
    BY <1>2, <1>4, <2>1, <2>2, <2>3, <2>4, RuSpawnKeeps
<1> QED
  BY <1>3, <1>4 DEF RuSend

\* Every step of the loop and of the tasks keeps the invariant and the order.
LEMMA RuNextKeeps ==
    ASSUME RuInv, RuNext
    PROVE  RuInv' /\ RuForwardOnly
<1>1. CASE \E k \in RuKeys : RuRecv(k)
  BY <1>1, RuRecvKeeps
<1>2. CASE \E s \in RuIds : RuTask(s) \/ RuAnswer(s) \/ RuBack(s) \/ RuIdle(s)
  <2>1. PICK s \in RuIds : RuTask(s) \/ RuAnswer(s) \/ RuBack(s) \/ RuIdle(s)
    BY <1>2
  <2>2. CASE RuTask(s)
    BY <2>2, RuConnectKeeps, RuFirstKeeps, RuTakeKeeps, RuForwardKeeps, RuBackKeeps, RuForgetKeeps DEF RuTask
  <2> QED
    BY <2>1, <2>2, RuBackKeeps
<1> QED
  BY <1>1, <1>2, RuSendKeeps, RuResetKeeps DEF RuNext

\* The sessions of the UDP loop.
THEOREM RuSafe == RuInit /\ [][RuNext]_ruVars => [](RuFound /\ RuCounts) /\ RuInOrder
<1>1. RuInv /\ [RuNext]_ruVars => RuInv' /\ [\A k \in RuKeys : ruSent'[k] >= ruSent[k]]_ruVars
  <2>1. CASE RuNext
    BY <2>1, RuNextKeeps DEF RuForwardOnly
  <2>2. ASSUME RuInv, UNCHANGED ruVars PROVE RuInv'
    BY <2>2 DEF ruVars, RuInv, RuTypeOK, RuMapped, RuFound, RuCounts, RuOrdered, RuLine, RuBetween, RuOpen, RuIds
  <2> QED
    BY <2>1, <2>2
<1>2. RuInv => RuFound /\ RuCounts
  BY DEF RuInv
<1> QED
  BY <1>1, <1>2, RuInitInv, PTL DEF RuInOrder

-----------------------------------------------------------------------------
(* Selector *)

\* A connect call and the connection it makes.
SlCallType ==
    [pc : {"new", "try", "capture", "register", "open", "closed", "failed"}, from : SlNodes,
     tried : SUBSET SlNodes, node : SlNodes, leaf : SlNodes, told : BOOLEAN, old : BOOLEAN]
\* An update of the selection.
SlUpdateType == [pc : {"none", "swap", "kill", "save"}, idx : SlNodes, old : SlNodes]

\* The types of the state.
SlTypeOK ==
    /\ slSel \in SlNodes
    /\ slCall \in [SlCalls -> SlCallType]
    /\ slUp \in [SlActors -> SlUpdateType]
    /\ slRound \in [SlTesters -> {"idle", "test"}]

\* An actor that will start an update has none under way, so that a kill that is due is
\* never overwritten; only registered connections belong to an old selection.
SlFree ==
    /\ \A c \in SlCalls : slCall[c].pc \in {"new", "try"} => slUp[c].pc = "none"
    /\ \A t \in SlTesters : slRound[t] = "test" => slUp[t].pc = "none"
    /\ \A c \in SlCalls : slCall[c].old => slCall[c].pc = "open"

\* What makes SlOldTold and SlTriesAll inductive.
SlInv == SlTypeOK /\ SlFree /\ SlOldTold /\ SlTriesAll

\* A set of numbers has a least one.
LEMMA SlMin ==
    ASSUME NEW S \in SUBSET Nat, S # {}
    PROVE  Min(S) \in S
<1>1. \E x \in S : \A y \in S : ~(<<y, x>> \in OpToRel(<, Nat))
  BY NatLessThanWellFounded, WFMin
<1>2. ASSUME NEW x \in Nat, NEW y \in Nat, ~(<<y, x>> \in OpToRel(<, Nat)) PROVE x <= y
  <2>1. <<y, x>> \in Nat \X Nat /\ <<y, x>>[1] = y /\ <<y, x>>[2] = x
    OBVIOUS
  <2>2. ~(y < x)
    BY <1>2, <2>1, Zenon DEF OpToRel
  <2> QED
    BY <2>2
<1>3. \E x \in S : \A y \in S : x <= y
  BY <1>1, <1>2
<1> QED
  BY <1>3 DEF Min

\* The nodes are numbers, and the one after a node is a node.
LEMMA SlNodeTypes == 0 \in SlNodes /\ SlNodes \subseteq Nat /\ \A n \in SlNodes : (n + 1) % SlN \in SlNodes
  BY SlAssumption DEF SlNodes

\* A test that some node answers chooses a node.
LEMMA SlBestNode ==
    ASSUME slSel \in SlNodes, NEW up \in SUBSET SlNodes, up # {}, NEW lat \in [up -> SlLatencies]
    PROVE  SlBest(lat) \in SlNodes
<1> DEFINE lats == {lat[i] : i \in DOMAIN lat}
           low == Min(lats)
           best == {i \in DOMAIN lat : lat[i] = low}
<1>1. lats \in SUBSET Nat /\ lats # {}
  <2>1. DOMAIN lat = up /\ \A i \in up : lat[i] \in Nat
    BY SlAssumption
  <2>2. PICK i \in up : TRUE
    OBVIOUS
  <2> QED
    BY <2>1, <2>2
<1>2. low \in lats
  BY <1>1, SlMin
<1>3. best \in SUBSET Nat /\ best # {}
  BY <1>2, SlNodeTypes
<1>4. Min(best) \in best
  BY <1>3, SlMin
<1>5. SlBest(lat) = IF slTested /\ slSel \in DOMAIN lat /\ lat[slSel] <= low + SlTolerance THEN slSel ELSE Min(best)
  BY DEF SlBest
<1>6. Min(best) \in SlNodes
  BY <1>4
<1> QED
  BY <1>5, <1>6

\* A selector that nobody has used satisfies the invariant.
LEMMA SlInitInv == SlInit => SlInv
<1> SUFFICES ASSUME SlInit PROVE SlInv
  OBVIOUS
<1>1. SlTypeOK
  BY SlNodeTypes DEF SlInit, SlTypeOK, SlCallType, SlUpdateType, SlIdle, SlNoUpdate
<1>2. SlFree /\ SlOldTold /\ SlTriesAll
  BY DEF SlInit, SlFree, SlOldTold, SlTriesAll, SlIdle, SlNoUpdate, SlActors
<1> QED
  BY <1>1, <1>2 DEF SlInv

\* Updates.
LEMMA SlUpdateKeeps ==
    ASSUME SlInv, NEW a \in SlActors, SlSwap(a) \/ SlKill(a) \/ SlSave(a)
    PROVE  SlInv'
<1>1. SlTypeOK /\ SlFree /\ SlOldTold /\ SlTriesAll /\ slUp[a] \in SlUpdateType
  BY DEF SlInv, SlTypeOK
<1>2. ASSUME NEW c \in SlCalls PROVE slCall[c] \in SlCallType /\ c \in SlActors
  BY <1>1 DEF SlTypeOK, SlActors
<1>3. \A t \in SlTesters : t \in SlActors
  BY DEF SlActors
<1>4. CASE SlSwap(a)
  <2>1. slUp[a].pc = "swap" /\ slSel' = slUp[a].idx /\ UNCHANGED <<slType, slTested, slCache, slRound, slNet, slForced, slLeft>>
    BY <1>4 DEF SlSwap
  <2>2. slSel' \in SlNodes
    BY <1>1, <2>1 DEF SlUpdateType
  <2>3. CASE slSel = slUp[a].idx
    <3>1. slUp' = [slUp EXCEPT ![a] = SlNoUpdate] /\ UNCHANGED slCall
      BY <1>4, <2>3 DEF SlSwap
    <3>2. SlNoUpdate \in SlUpdateType /\ SlNoUpdate.pc = "none"
      BY SlNodeTypes DEF SlNoUpdate, SlUpdateType
    <3>3. /\ slUp' \in [SlActors -> SlUpdateType] /\ slUp'[a].pc = "none"
          /\ \A b \in SlActors : b # a => slUp'[b] = slUp[b]
      BY <1>1, <3>1, <3>2 DEF SlTypeOK
    <3>4. SlTypeOK' /\ SlFree' /\ SlTriesAll'
      BY <1>1, <1>2, <1>3, <2>1, <2>2, <3>1, <3>3 DEF SlTypeOK, SlFree, SlTriesAll
    <3>5. SlOldTold'
      BY <1>1, <2>1, <3>1, <3>3 DEF SlOldTold
    <3> QED
      BY <3>4, <3>5 DEF SlInv
  <2>4. CASE slSel # slUp[a].idx
    <3>1. /\ slUp' = [slUp EXCEPT ![a].pc = "kill", ![a].old = slSel]
          /\ slCall' = [c \in SlCalls |-> [slCall[c] EXCEPT !.old = @ \/ slCall[c].pc = "open"]]
      BY <1>4, <2>4 DEF SlSwap
    <3>2. /\ slUp' \in [SlActors -> SlUpdateType] /\ slUp'[a].pc = "kill"
          /\ \A b \in SlActors : b # a => slUp'[b] = slUp[b]
      BY <1>1, <3>1 DEF SlTypeOK, SlUpdateType
    <3>3. ASSUME NEW c \in SlCalls
          PROVE  /\ slCall'[c] \in SlCallType /\ slCall'[c].pc = slCall[c].pc
                 /\ slCall'[c].tried = slCall[c].tried
                 /\ slCall'[c].old => slCall[c].old \/ slCall[c].pc = "open"
      <4>1. slCall'[c] = [slCall[c] EXCEPT !.old = slCall[c].old \/ slCall[c].pc = "open"]
        BY <3>1
      <4> QED
        BY <4>1, <1>2 DEF SlCallType
    <3>4. slCall' \in [SlCalls -> SlCallType]
      BY <3>1, <3>3
    <3>5. SlTypeOK'
      BY <1>1, <2>1, <2>2, <3>2, <3>4 DEF SlTypeOK
    <3>6. SlFree' /\ SlTriesAll'
      BY <1>1, <1>2, <1>3, <2>1, <3>2, <3>3 DEF SlFree, SlTriesAll
    <3>7. SlOldTold'
      BY <3>2 DEF SlOldTold
    <3> QED
      BY <3>5, <3>6, <3>7 DEF SlInv
  <2> QED
    BY <2>3, <2>4
<1>5. CASE SlKill(a)
  <2>1. /\ slUp[a].pc = "kill" /\ slUp' = [slUp EXCEPT ![a].pc = "save"]
        /\ slCall' = [c \in SlCalls |-> [slCall[c] EXCEPT !.told = @ \/ slCall[c].pc = "open"]]
        /\ UNCHANGED <<slType, slSel, slRound>>
    BY <1>5 DEF SlKill
  <2>2. /\ slUp' \in [SlActors -> SlUpdateType] /\ slUp'[a].pc = "save"
        /\ \A b \in SlActors : b # a => slUp'[b] = slUp[b]
    BY <1>1, <2>1 DEF SlTypeOK, SlUpdateType
  <2>3. ASSUME NEW c \in SlCalls
        PROVE  /\ slCall'[c] \in SlCallType /\ slCall'[c].pc = slCall[c].pc
               /\ slCall'[c].tried = slCall[c].tried /\ slCall'[c].old = slCall[c].old
               /\ slCall[c].pc = "open" => slCall'[c].told
    <3>1. slCall'[c] = [slCall[c] EXCEPT !.told = slCall[c].told \/ slCall[c].pc = "open"]
      BY <2>1
    <3> QED
      BY <3>1, <1>2 DEF SlCallType
  <2>4. slCall' \in [SlCalls -> SlCallType]
    BY <2>1, <2>3
  <2>5. SlTypeOK'
    BY <1>1, <2>1, <2>2, <2>4 DEF SlTypeOK
  <2>6. SlFree'
    <3>1. \A b \in SlActors : slUp[b].pc = "none" => slUp'[b].pc = "none"
      BY <2>1, <2>2
    <3>2. \A c \in SlCalls : slCall'[c].pc \in {"new", "try"} => slUp'[c].pc = "none"
      BY <1>1, <1>2, <2>3, <3>1 DEF SlFree
    <3>3. \A t \in SlTesters : slRound'[t] = "test" => slUp'[t].pc = "none"
      BY <1>1, <1>3, <2>1, <3>1 DEF SlFree
    <3>4. \A c \in SlCalls : slCall'[c].old => slCall'[c].pc = "open"
      BY <1>1, <2>3 DEF SlFree
    <3> QED
      BY <3>2, <3>3, <3>4 DEF SlFree
  <2>7. SlTriesAll'
    BY <1>1, <2>1, <2>3 DEF SlTriesAll
  <2>8. SlOldTold'
    BY <2>3 DEF SlOldTold
  <2> QED
    BY <2>5, <2>6, <2>7, <2>8 DEF SlInv
<1>6. CASE SlSave(a)
  <2>1. /\ slUp[a].pc = "save" /\ slUp' = [slUp EXCEPT ![a] = SlNoUpdate]
        /\ UNCHANGED <<slType, slSel, slCall, slRound>>
    BY <1>6 DEF SlSave
  <2>2. SlNoUpdate \in SlUpdateType /\ SlNoUpdate.pc = "none"
    BY SlNodeTypes DEF SlNoUpdate, SlUpdateType
  <2>3. /\ slUp' \in [SlActors -> SlUpdateType] /\ slUp'[a].pc = "none"
        /\ \A b \in SlActors : b # a => slUp'[b] = slUp[b]
    BY <1>1, <2>1, <2>2 DEF SlTypeOK
  <2>4. SlTypeOK' /\ SlFree' /\ SlTriesAll'
    BY <1>1, <1>2, <1>3, <2>1, <2>3 DEF SlTypeOK, SlFree, SlTriesAll
  <2>5. SlOldTold'
    BY <1>1, <2>1, <2>3 DEF SlOldTold
  <2> QED
    BY <2>4, <2>5 DEF SlInv
<1> QED
  BY <1>4, <1>5, <1>6

\* A call that has been refused by as many nodes as there are has been refused by all.
LEMMA SlAllTried ==
    ASSUME NEW tried \in SUBSET SlNodes, Cardinality(tried) = SlN
    PROVE  tried = SlNodes
<1>1. IsFiniteSet(SlNodes) /\ Cardinality(SlNodes) = SlN
  <2>1. 0 \in Int /\ SlN - 1 \in Int /\ ~(0 > SlN - 1) /\ (SlN - 1) - 0 + 1 = SlN
    BY SlAssumption
  <2> QED
    BY <2>1, FS_Interval DEF SlNodes
<1> QED
  BY <1>1, FS_Subset

\* Steps of a connection.
LEMMA SlCallKeeps ==
    ASSUME SlInv, NEW c \in SlCalls,
           SlBegin(c) \/ SlConnected(c) \/ SlRefused(c) \/ SlCapture(c) \/ SlRegister(c) \/ SlClose(c)
    PROVE  SlInv'
<1>1. SlTypeOK /\ SlFree /\ SlOldTold /\ SlTriesAll /\ slCall[c] \in SlCallType /\ c \in SlActors
  BY DEF SlInv, SlTypeOK, SlActors
<1>2. UNCHANGED <<slType, slSel, slRound>>
  BY DEF SlBegin, SlConnected, SlRefused, SlCapture, SlRegister, SlClose
<1>3. c \notin SlTesters
  BY SlAssumption DEF SlTesters
\* It is enough to look at the one record and the one update.
<1>4. SUFFICES \E r \in SlCallType, u \in SlUpdateType :
                 /\ slCall' = [slCall EXCEPT ![c] = r] /\ slUp' = [slUp EXCEPT ![c] = u]
                 /\ u = slUp[c] \/ (slCall[c].pc = "try" /\ r.pc = "capture")
                 /\ r.pc \in {"new", "try"} => slCall[c].pc \in {"new", "try"} /\ u = slUp[c]
                 /\ ~r.old
                 /\ slType = "urltest" /\ r.pc = "failed" => r.tried = SlNodes
  <2>1. PICK r \in SlCallType, u \in SlUpdateType :
                 /\ slCall' = [slCall EXCEPT ![c] = r] /\ slUp' = [slUp EXCEPT ![c] = u]
                 /\ u = slUp[c] \/ (slCall[c].pc = "try" /\ r.pc = "capture")
                 /\ r.pc \in {"new", "try"} => slCall[c].pc \in {"new", "try"} /\ u = slUp[c]
                 /\ ~r.old
                 /\ slType = "urltest" /\ r.pc = "failed" => r.tried = SlNodes
    BY <1>4
  <2>2. /\ slCall' \in [SlCalls -> SlCallType] /\ slCall'[c] = r
        /\ \A d \in SlCalls : d # c => slCall'[d] = slCall[d]
    BY <1>1, <2>1 DEF SlTypeOK
  <2>3. /\ slUp' \in [SlActors -> SlUpdateType] /\ slUp'[c] = u
        /\ \A b \in SlActors : b # c => slUp'[b] = slUp[b]
    BY <1>1, <2>1 DEF SlTypeOK
  <2>4. SlCalls \subseteq SlActors /\ SlTesters \subseteq SlActors
    BY DEF SlActors
  <2>5. SlTypeOK'
    BY <1>1, <1>2, <2>2, <2>3 DEF SlTypeOK
  <2>6. SlFree'
    BY <1>1, <1>2, <1>3, <2>1, <2>2, <2>3, <2>4 DEF SlFree
  <2>7. SlTriesAll'
    BY <1>1, <1>2, <2>1, <2>2 DEF SlTriesAll
  <2>8. SlOldTold'
    <3>1. \A a \in SlActors : slUp[a].pc = "kill" => slUp'[a].pc = "kill"
      BY <1>1, <2>1, <2>3 DEF SlFree
    <3> QED
      BY <3>1, <1>1, <2>1, <2>2 DEF SlOldTold
  <2> QED
    BY <2>5, <2>6, <2>7, <2>8 DEF SlInv
<1>5. slUp[c] \in SlUpdateType /\ slUp = [slUp EXCEPT ![c] = slUp[c]]
  BY <1>1 DEF SlTypeOK
<1>6. slCall[c].pc # "open" => ~slCall[c].old
  BY <1>1 DEF SlFree
<1>7. CASE SlBegin(c)
  <2> DEFINE r == [slCall[c] EXCEPT !.pc = "try", !.from = slSel, !.node = slSel]
  <2>1. slCall[c].pc = "new" /\ UNCHANGED slUp
    BY <1>7 DEF SlBegin
  <2>2. slCall' = [slCall EXCEPT ![c] = r]
    BY <1>7, <1>1 DEF SlBegin, SlTypeOK
  <2>3. r \in SlCallType /\ r.pc = "try" /\ r.old = slCall[c].old
    BY <1>1 DEF SlCallType, SlTypeOK
  <2> HIDE DEF r
  <2> QED
    BY <2>1, <2>2, <2>3, <1>5, <1>6
<1>8. CASE SlConnected(c)
  <2> DEFINE r == [slCall[c] EXCEPT !.pc = "capture"]
             v == [pc |-> "swap", idx |-> slCall[c].node, old |-> 0]
  <2>1. slCall[c].pc = "try" /\ slCall' = [slCall EXCEPT ![c] = r]
    BY <1>8 DEF SlConnected
  <2>2. slUp' = [slUp EXCEPT ![c] = v] \/ slUp' = slUp
    BY <1>8 DEF SlConnected, SlWill
  <2>3. r \in SlCallType /\ r.pc = "capture" /\ r.old = slCall[c].old
    BY <1>1 DEF SlCallType
  <2>4. v \in SlUpdateType
    BY <1>1, SlNodeTypes DEF SlCallType, SlUpdateType
  <2> HIDE DEF r, v
  <2>5. CASE slUp' = slUp
    BY <2>1, <2>3, <2>5, <1>5, <1>6
  <2>6. CASE slUp' = [slUp EXCEPT ![c] = v]
    BY <2>1, <2>3, <2>4, <2>6, <1>6
  <2> QED
    BY <2>2, <2>5, <2>6
<1>9. CASE SlRefused(c)
  <2> DEFINE all == slCall[c].tried \cup {slCall[c].node}
             over == slType = "selector" \/ Cardinality(all) = SlN
             r == [slCall[c] EXCEPT !.tried = all, !.pc = IF over THEN "failed" ELSE @,
                                    !.node = IF over THEN @ ELSE (@ + 1) % SlN]
  <2>1. slCall[c].pc = "try" /\ UNCHANGED slUp
    BY <1>9 DEF SlRefused
  <2>2. slCall' = [slCall EXCEPT ![c] = r]
    BY <1>9, <1>1 DEF SlRefused, SlTypeOK
  <2>3. all \in SUBSET SlNodes /\ (slCall[c].node + 1) % SlN \in SlNodes /\ slCall[c].node \in SlNodes
    BY <1>1, SlNodeTypes DEF SlCallType
  <2>4. /\ r \in SlCallType /\ r.old = slCall[c].old /\ r.tried = all
        /\ r.pc = (IF over THEN "failed" ELSE "try")
    <3> HIDE DEF all, over
    <3> QED
      BY <1>1, <2>1, <2>3 DEF SlCallType
  <2>5. slType = "urltest" /\ r.pc = "failed" => r.tried = SlNodes
    <3>1. slType = "urltest" /\ r.pc = "failed" => Cardinality(all) = SlN
      BY <2>4
    <3> QED
      BY <3>1, <2>3, <2>4, SlAllTried
  <2> HIDE DEF r, all, over
  <2> QED
    BY <2>1, <2>2, <2>4, <2>5, <1>5, <1>6
<1>10. CASE SlCapture(c)
  <2> DEFINE r == [slCall[c] EXCEPT !.pc = "register", !.leaf = slSel]
  <2>1. slCall[c].pc = "capture" /\ UNCHANGED slUp
    BY <1>10 DEF SlCapture
  <2>2. slCall' = [slCall EXCEPT ![c] = r]
    BY <1>10, <1>1 DEF SlCapture, SlTypeOK
  <2>3. r \in SlCallType /\ r.pc = "register" /\ r.old = slCall[c].old
    BY <1>1 DEF SlCallType, SlTypeOK
  <2> HIDE DEF r
  <2> QED
    BY <2>1, <2>2, <2>3, <1>5, <1>6
<1>11. CASE SlRegister(c)
  <2> DEFINE r == [slCall[c] EXCEPT !.pc = "open"]
  <2>1. slCall[c].pc = "register" /\ UNCHANGED slUp /\ slCall' = [slCall EXCEPT ![c] = r]
    BY <1>11 DEF SlRegister
  <2>2. r \in SlCallType /\ r.pc = "open" /\ r.old = slCall[c].old
    BY <1>1 DEF SlCallType
  <2> HIDE DEF r
  <2> QED
    BY <2>1, <2>2, <1>5, <1>6
<1>12. CASE SlClose(c)
  <2>1. UNCHANGED slUp /\ slCall' = [slCall EXCEPT ![c] = SlIdle("closed")]
    BY <1>12 DEF SlClose
  <2>2. SlIdle("closed") \in SlCallType /\ SlIdle("closed").pc = "closed" /\ ~SlIdle("closed").old
    BY SlNodeTypes DEF SlIdle, SlCallType
  <2> QED
    BY <2>1, <2>2, <1>5
<1> QED
  BY <1>7, <1>8, <1>9, <1>10, <1>11, <1>12

\* Test rounds, the API and the network monitor.
LEMMA SlRestKeeps ==
    ASSUME SlInv,
           \/ \E t \in SlTesters : SlTestDone(t)
           \/ SlHears \/ SlSettled \/ SlPeriodic \/ SlDebounced \/ SlChange
           \/ SlReport
           \/ \E i \in SlNodes : SlPick(i)
           \/ UNCHANGED slVars
    PROVE  SlInv'
<1>1. SlTypeOK /\ SlFree /\ SlOldTold /\ SlTriesAll
  BY DEF SlInv
<1>2. SlCalls \subseteq SlActors /\ SlTesters \subseteq SlActors /\ "api" \in SlActors
  BY DEF SlActors
<1>3. SlCalls \cap SlTesters = {} /\ "api" \notin SlCalls /\ "api" \notin SlTesters
  BY SlAssumption DEF SlTesters
<1>4. CASE \E t \in SlTesters : SlTestDone(t)
  <2>1. PICK t \in SlTesters : SlTestDone(t)
    BY <1>4
  <2>2. /\ slRound[t] = "test" /\ slRound' = [slRound EXCEPT ![t] = "idle"]
        /\ UNCHANGED <<slType, slSel, slCall>>
    BY <2>1 DEF SlTestDone
  <2>3. PICK u \in SlUpdateType : slUp' = [slUp EXCEPT ![t] = u]
    <3>1. CASE UNCHANGED slUp
      BY <3>1, <1>1, <1>2 DEF SlTypeOK
    <3>2. ASSUME NEW up \in SUBSET SlNodes, up # {}, NEW lat \in [up -> SlLatencies], SlWill(t, SlBest(lat))
          PROVE  \E u \in SlUpdateType : slUp' = [slUp EXCEPT ![t] = u]
      <4>1. SlBest(lat) \in SlNodes /\ 0 \in SlNodes
        BY <3>2, <1>1, SlBestNode, SlNodeTypes DEF SlTypeOK
      <4>2. [pc |-> "swap", idx |-> SlBest(lat), old |-> 0] \in SlUpdateType
        BY <4>1 DEF SlUpdateType
      <4> QED
        BY <4>2, <3>2 DEF SlWill
    <3> QED
      BY <2>1, <3>1, <3>2 DEF SlTestDone
  <2>4. /\ slUp' \in [SlActors -> SlUpdateType] /\ \A b \in SlActors : b # t => slUp'[b] = slUp[b]
        /\ slUp[t].pc = "none" /\ slRound' \in [SlTesters -> {"idle", "test"}] /\ slRound'[t] = "idle"
        /\ \A s \in SlTesters : s # t => slRound'[s] = slRound[s]
    BY <1>1, <1>2, <2>2, <2>3 DEF SlTypeOK, SlFree
  <2>5. SlTypeOK' /\ SlTriesAll'
    BY <1>1, <2>2, <2>4 DEF SlTypeOK, SlTriesAll
  <2>6. SlFree'
    BY <1>1, <1>2, <1>3, <2>2, <2>4 DEF SlFree
  <2>7. SlOldTold'
    BY <1>1, <1>2, <2>2, <2>4 DEF SlOldTold
  <2> QED
    BY <2>5, <2>6, <2>7 DEF SlInv
<1>5. CASE \E i \in SlNodes : SlPick(i)
  <2>1. PICK i \in SlNodes : SlPick(i)
    BY <1>5
  <2>2. /\ slUp["api"].pc = "none" /\ slUp' = [slUp EXCEPT !["api"] = [pc |-> "swap", idx |-> i, old |-> 0]]
        /\ UNCHANGED <<slType, slSel, slCall, slRound>>
    BY <2>1 DEF SlPick, SlWill
  <2>3. [pc |-> "swap", idx |-> i, old |-> 0] \in SlUpdateType
    BY SlNodeTypes DEF SlUpdateType
  <2>4. slUp' \in [SlActors -> SlUpdateType] /\ \A b \in SlActors : b # "api" => slUp'[b] = slUp[b]
    BY <1>1, <1>2, <2>2, <2>3 DEF SlTypeOK
  <2>5. SlTypeOK' /\ SlTriesAll'
    BY <1>1, <2>2, <2>4 DEF SlTypeOK, SlTriesAll
  <2>6. SlFree'
    BY <1>1, <1>2, <1>3, <2>2, <2>4 DEF SlFree
  <2>7. SlOldTold'
    BY <1>1, <1>2, <2>2, <2>4 DEF SlOldTold
  <2> QED
    BY <2>5, <2>6, <2>7 DEF SlInv
<1>6. CASE SlPeriodic \/ SlSettled \/ SlReport
  <2>1. UNCHANGED <<slType, slSel, slCall, slUp>>
    BY <1>6 DEF SlPeriodic, SlSettled, SlReport
  <2>2. PICK t \in SlTesters : slUp[t].pc = "none" /\ slRound' = [slRound EXCEPT ![t] = "test"]
    BY <1>6 DEF SlPeriodic, SlSettled, SlReport, SlRoundOf, SlTesters
  <2>3. SlTypeOK' /\ SlTriesAll' /\ SlOldTold'
    BY <1>1, <2>1, <2>2 DEF SlTypeOK, SlTriesAll, SlOldTold
  <2>4. SlFree'
    BY <1>1, <2>1, <2>2 DEF SlFree, SlTypeOK
  <2> QED
    BY <2>3, <2>4 DEF SlInv
<1>7. CASE SlHears \/ SlDebounced \/ SlChange \/ UNCHANGED slVars
  <2>1. UNCHANGED <<slType, slSel, slCall, slUp, slRound>>
    BY <1>7 DEF SlHears, SlDebounced, SlChange, slVars
  <2> QED
    BY <2>1, <1>1 DEF SlInv, SlTypeOK, SlFree, SlOldTold, SlTriesAll
<1> QED
  BY <1>4, <1>5, <1>6, <1>7

\* The safety half of SlSelects.
THEOREM SlSafe == SlInit /\ [][SlNext]_slVars => [](SlOldTold /\ SlTriesAll)
<1>1. SlInv /\ [SlNext]_slVars => SlInv'
  BY SlUpdateKeeps, SlCallKeeps, SlRestKeeps DEF SlNext, SlBackground
<1>2. SlInv => SlOldTold /\ SlTriesAll
  BY DEF SlInv
<1> QED
  BY <1>1, <1>2, SlInitInv, PTL
=============================================================================
