------------------------------ MODULE DohPool ------------------------------
(***************************************************************************)
(* The DNS-over-HTTPS client's connections through one outbound: a slot    *)
(* for the shared HTTP/2 connection, a stack of idle HTTP/1.1 ones, and    *)
(* queries that use them, fail on them, time out and retry once.           *)
(***************************************************************************)
EXTENDS Naturals, FiniteSets

CONSTANTS
    DhQueries,  \* queries, each made once
    DhMaxConns, \* bound: connections dialled
    DhMaxIdle   \* MAX_IDLE_H1, 8 in the code

ASSUME DhAssumption == DhMaxConns \in Nat /\ DhMaxIdle \in Nat

VARIABLES
    dhQ,      \* per query: where it is, its connection, whether it was a pooled one
    dhConn,   \* the connections dialled: the protocol, closed or not, and the
              \* requests that wait for a response
    dhSlot,   \* ConnPool::h2: a connection or 0
    dhLock,   \* who holds the slot's lock
    dhIdle,   \* ConnPool::h1_idle
    dhH1      \* ConnPool::h1_only

dhVars == <<dhQ, dhConn, dhSlot, dhLock, dhIdle, dhH1>>

DhConns == DOMAIN dhConn
DhOpen(c) == dhConn[c].open
DhAt(pc) == [pc |-> pc, conn |-> 0, pooled |-> FALSE]

DhInit ==
    /\ dhQ = [q \in DhQueries |-> DhAt("start")]
    /\ dhConn = [c \in {} |-> [h2 |-> TRUE, open |-> FALSE, wait |-> {}]]
    /\ dhSlot = 0 /\ dhLock = "free" /\ dhIdle = {} /\ dhH1 = FALSE

\* acquire: towards a server that only speaks HTTP/1.1, an idle connection that is
\* not closed, or a new one; otherwise the slot's lock, kept while dialling.
DhAcquireH1(q) ==
    /\ dhQ[q].pc = "start" /\ dhH1
    /\ LET open == {c \in dhIdle : DhOpen(c)} IN
       IF open = {} THEN dhIdle' = {} /\ dhQ' = [dhQ EXCEPT ![q].pc = "fresh"]
       ELSE \E c \in open : dhIdle' = dhIdle \ {c} /\ dhQ' = [dhQ EXCEPT ![q] = [pc |-> "send", conn |-> c, pooled |-> TRUE]]
    /\ UNCHANGED <<dhConn, dhSlot, dhLock, dhH1>>

DhAcquire(q) ==
    /\ dhQ[q].pc = "start" /\ ~dhH1
    /\ dhQ' = [dhQ EXCEPT ![q].pc = "lock"]
    /\ UNCHANGED <<dhConn, dhSlot, dhLock, dhIdle, dhH1>>

DhAcquireH2(q) ==
    /\ dhQ[q].pc = "lock" /\ dhLock = "free"
    /\ IF dhSlot # 0 /\ DhOpen(dhSlot)
       THEN /\ dhQ' = [dhQ EXCEPT ![q] = [pc |-> "send", conn |-> dhSlot, pooled |-> TRUE]]
            /\ UNCHANGED <<dhSlot, dhLock>>
       ELSE /\ dhQ' = [dhQ EXCEPT ![q].pc = "dial"]
            /\ dhSlot' = 0 /\ dhLock' = q
    /\ UNCHANGED <<dhConn, dhIdle, dhH1>>

\* connect: the outbound, TLS, and the protocol ALPN chose.
DhDialled(h2) ==
    /\ Cardinality(DhConns) < DhMaxConns
    /\ dhConn' = [c \in DhConns \cup {Cardinality(DhConns) + 1} |->
                    IF c \in DhConns THEN dhConn[c] ELSE [h2 |-> h2, open |-> TRUE, wait |-> {}]]

DhDial(q, h2) ==
    /\ dhQ[q].pc = "dial"
    /\ DhDialled(h2)
    /\ dhQ' = [dhQ EXCEPT ![q] = [pc |-> "send", conn |-> Cardinality(DhConns) + 1, pooled |-> FALSE]]
    /\ dhSlot' = IF h2 THEN Cardinality(DhConns) + 1 ELSE dhSlot
    /\ dhH1' = (dhH1 \/ ~h2)
    /\ dhLock' = "free"
    /\ UNCHANGED dhIdle

\* acquire_fresh dials without the lock, then takes the slot over.
DhFresh(q, h2) ==
    /\ dhQ[q].pc = "fresh"
    /\ DhDialled(h2)
    /\ dhQ' = [dhQ EXCEPT ![q] = [pc |-> IF h2 THEN "put" ELSE "send",
                                  conn |-> Cardinality(DhConns) + 1, pooled |-> FALSE]]
    /\ dhH1' = (dhH1 \/ ~h2)
    /\ UNCHANGED <<dhSlot, dhLock, dhIdle>>

DhPut(q) ==
    /\ dhQ[q].pc = "put" /\ dhLock = "free"
    /\ dhSlot' = dhQ[q].conn /\ dhH1' = FALSE
    /\ dhQ' = [dhQ EXCEPT ![q].pc = "send"]
    /\ UNCHANGED <<dhConn, dhLock, dhIdle>>

\* send waits until the connection is ready and sends the request.
DhSend(q) ==
    /\ dhQ[q].pc = "send" /\ DhOpen(dhQ[q].conn)
    /\ dhConn' = [dhConn EXCEPT ![dhQ[q].conn].wait = @ \cup {q}]
    /\ dhQ' = [dhQ EXCEPT ![q].pc = "read"]
    /\ UNCHANGED <<dhSlot, dhLock, dhIdle, dhH1>>

\* put_idle_h1 keeps a connection that is not closed while there is room.
DhKept(c) == IF ~dhConn[c].h2 /\ DhOpen(c) /\ Cardinality(dhIdle) < DhMaxIdle THEN dhIdle \cup {c} ELSE dhIdle

\* The response is read to its end.
DhRead(q) ==
    /\ dhQ[q].pc = "read" /\ DhOpen(dhQ[q].conn)
    /\ dhConn' = [dhConn EXCEPT ![dhQ[q].conn].wait = @ \ {q}]
    /\ dhIdle' = DhKept(dhQ[q].conn)
    /\ dhQ' = [dhQ EXCEPT ![q] = DhAt("done")]
    /\ UNCHANGED <<dhSlot, dhLock, dhH1>>

\* Where a query goes that failed: a pooled connection is replaced once.
DhAfter(q) == IF ~dhQ[q].pooled THEN DhAt("done")
              ELSE [dhQ[q] EXCEPT !.pc = IF dhConn[dhQ[q].conn].h2 THEN "evict" ELSE "fresh"]

\* The connection fails, the server answers with an error, or half of the budget is
\* over: an HTTP/1.1 connection is dropped with its sender.
DhFail(q) ==
    /\ dhQ[q].pc \in {"send", "read"}
    /\ dhQ' = [dhQ EXCEPT ![q] = DhAfter(q)]
    /\ LET c == dhQ[q].conn IN
       dhConn' = IF dhConn[c].h2 THEN [dhConn EXCEPT ![c].wait = @ \ {q}] ELSE [dhConn EXCEPT ![c].open = FALSE]
    /\ UNCHANGED <<dhSlot, dhLock, dhIdle, dhH1>>

\* Mutant: the slot is cleared whatever it holds by now.
DhEvictAny(q) ==
    /\ dhQ[q].pc = "evict" /\ dhLock = "free"
    /\ dhSlot' = 0
    /\ dhQ' = [dhQ EXCEPT ![q] = DhAt("fresh")]
    /\ UNCHANGED <<dhConn, dhLock, dhIdle, dhH1>>

\* invalidate_h2.
DhEvict(q) ==
    /\ dhQ[q].pc = "evict" /\ dhLock = "free"
    /\ dhSlot' = IF dhSlot = dhQ[q].conn THEN 0 ELSE dhSlot
    /\ dhQ' = [dhQ EXCEPT ![q] = DhAt("fresh")]
    /\ UNCHANGED <<dhConn, dhLock, dhIdle, dhH1>>

\* A dial that fails, or the deadline, ends the query and frees the lock.
DhEnd(q) ==
    /\ dhQ[q].pc \in {"start", "lock", "dial", "fresh", "put", "evict"}
    /\ dhQ' = [dhQ EXCEPT ![q] = DhAt("done")]
    /\ dhLock' = IF dhLock = q THEN "free" ELSE dhLock
    /\ UNCHANGED <<dhConn, dhSlot, dhIdle, dhH1>>

\* The server or the network closes a connection.
DhClose(c) ==
    /\ c \in DhConns /\ DhOpen(c)
    /\ dhConn' = [dhConn EXCEPT ![c].open = FALSE]
    /\ UNCHANGED <<dhQ, dhSlot, dhLock, dhIdle, dhH1>>

DhNext ==
    \/ \E q \in DhQueries :
         \/ DhAcquireH1(q) \/ DhAcquire(q) \/ DhAcquireH2(q) \/ DhPut(q) \/ DhSend(q) \/ DhRead(q) \/ DhFail(q)
         \/ DhEvict(q) \/ DhEnd(q)
         \/ \E h2 \in BOOLEAN : DhDial(q, h2) \/ DhFresh(q, h2)
    \/ \E c \in 1..DhMaxConns : DhClose(c)

DhSpec == DhInit /\ [][DhNext]_dhVars

-----------------------------------------------------------------------------
(* Properties *)

\* A pooled HTTP/1.1 connection is nobody's, carries no answer of an earlier query,
\* and there are never too many: a query reads its own response (send, put_idle_h1).
DhCleanIdle ==
    /\ Cardinality(dhIdle) <= DhMaxIdle
    /\ \A c \in dhIdle : DhOpen(c) => dhConn[c].wait = {} /\ \A q \in DhQueries : dhQ[q].conn # c

\* Late failures of the old connection do not take a newer one out of the slot: the
\* slot is cleared of a connection that is open only by a query that failed on it
\* (invalidate_h2).
DhKeepsGood ==
    [][dhSlot # 0 /\ dhSlot' = 0 =>
         \/ ~DhOpen(dhSlot)
         \/ \E q \in DhQueries : dhQ[q].pc = "evict" /\ dhQ[q].conn = dhSlot]_dhVars

\* Pooled connections are clean and good ones are kept.
DhPoolSound == []DhCleanIdle /\ DhKeepsGood
=============================================================================
