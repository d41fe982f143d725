----------------------------- MODULE Hysteria2 ------------------------------
(***************************************************************************)
(* The connection cache of a Hysteria2 outbound and the UDP sessions on    *)
(* its connections: callers share one QUIC connection behind an async      *)
(* mutex, a network change resets it, and the worker of a UDP session      *)
(* learns of the end from a Notify, which reaches only the tasks that wait *)
(* on it, or from its closer.                                              *)
(***************************************************************************)
EXTENDS Naturals, Sequences

CONSTANTS
    HyTcp,        \* connect_stream calls
    HyUdp,        \* connect_packet calls, each with its session
    HyMaxConns,   \* bound: connections established
    HyMaxChanges  \* bound: changes of the network

ASSUME HyAssumption == HyMaxConns \in Nat /\ HyMaxChanges \in Nat /\ "free" \notin HyTcp \cup HyUdp

VARIABLES
    hyCall,    \* per call: where it is, its connection, whether it has retried
    hyLock,    \* who holds the mutex of `cached`
    hyCached,  \* the cached connection, 0 for None
    hyConn,    \* connections established: up, and whether the listener runs
    hySess,    \* per session: its connection, its worker, its closer, the router's task
    hyChanges  \* changes that happened, and those the reset task has still to see

hyVars == <<hyCall, hyLock, hyCached, hyConn, hySess, hyChanges>>

HyCalls == HyTcp \cup HyUdp
HyFree == "free"

HyInit ==
    /\ hyCall = [t \in HyCalls |-> [pc |-> "ensure", conn |-> 0, again |-> FALSE]]
    /\ hyLock = HyFree /\ hyCached = 0 /\ hyConn = <<>>
    /\ hySess = [t \in HyUdp |-> [conn |-> 0, worker |-> "none", closed |-> FALSE, router |-> "none"]]
    /\ hyChanges = [seen |-> 0, due |-> 0]

\* Hy2ConnState::close of the connections cs: notify_waiters reaches the workers that
\* wait at this moment; `aborted` listeners end with it.
HyTell(cs) ==
    hySess' = [t \in HyUdp |-> IF hySess[t].conn \in cs /\ hySess[t].worker = "wait"
                               THEN [hySess[t] EXCEPT !.worker = "told"] ELSE hySess[t]]

HyClosed(cs, aborted) ==
    /\ HyTell(cs)
    /\ hyConn' = [c \in DOMAIN hyConn |->
                    IF c \in cs THEN [up |-> FALSE, listens |-> hyConn[c].listens /\ ~aborted] ELSE hyConn[c]]

HyGiven(t, c) == [hyCall[t] EXCEPT !.conn = c, !.pc = IF t \in HyUdp THEN "session" ELSE "open"]

\* ensure_connection: the lock, and the cached connection if it is not closed; one
\* that is closed is cleared away and the lock kept for the new one.
HyEnsure(t) ==
    /\ hyCall[t].pc = "ensure" /\ hyLock = HyFree
    /\ IF hyCached # 0 /\ hyConn[hyCached].up
       THEN /\ hyCall' = [hyCall EXCEPT ![t] = HyGiven(t, hyCached)]
            /\ UNCHANGED <<hyLock, hyConn, hySess>>
       ELSE /\ hyLock' = t /\ hyCall' = [hyCall EXCEPT ![t].pc = "dial"]
            /\ HyClosed({hyCached}, TRUE)
    /\ UNCHANGED <<hyCached, hyChanges>>

\* establish_connection: connected and authenticated within its timeouts, stored ...
HyEstablished(t) ==
    /\ hyCall[t].pc = "dial" /\ Len(hyConn) < HyMaxConns
    /\ hyConn' = Append(hyConn, [up |-> TRUE, listens |-> TRUE])
    /\ hyCached' = Len(hyConn) + 1
    /\ hyCall' = [hyCall EXCEPT ![t] = HyGiven(t, Len(hyConn) + 1)]
    /\ hyLock' = HyFree
    /\ UNCHANGED <<hySess, hyChanges>>

\* ... or not.
HyDialFails(t) ==
    /\ hyCall[t].pc = "dial"
    /\ hyCached' = 0 /\ hyLock' = HyFree
    /\ hyCall' = [hyCall EXCEPT ![t].pc = "failed"]
    /\ UNCHANGED <<hyConn, hySess, hyChanges>>

\* open_bi: a connection that is lost is closed and, the first time, evicted.
HyOpen(t) ==
    /\ hyCall[t].pc = "open"
    /\ LET c == hyCall[t].conn IN
       IF hyConn[c].up \/ hyCall[t].again
       THEN /\ hyCall' = [hyCall EXCEPT ![t].pc = IF hyConn[c].up THEN "done" ELSE "failed"]
            /\ UNCHANGED <<hyConn, hySess>>
       ELSE /\ hyCall' = [hyCall EXCEPT ![t].pc = "evict"] /\ HyClosed({c}, FALSE)
    /\ UNCHANGED <<hyLock, hyCached, hyChanges>>

\* open_bistream_with_retry locks the cache, clears it of this connection only, and
\* calls ensure_connection with the guard still in scope.
HyEvict(t) ==
    /\ hyCall[t].pc = "evict" /\ hyLock = HyFree
    /\ hyLock' = t
    /\ hyCached' = IF hyCached = hyCall[t].conn THEN 0 ELSE hyCached
    /\ hyCall' = [hyCall EXCEPT ![t].pc = "ensure", ![t].again = TRUE]
    /\ HyClosed({hyCall[t].conn}, hyCached = hyCall[t].conn)
    /\ UNCHANGED hyChanges

\* The caller drops the call at an await, with the guard it holds.
HyCancel(t) ==
    /\ hyCall[t].pc \in {"ensure", "dial", "open", "evict"}
    /\ hyCall' = [hyCall EXCEPT ![t].pc = "failed"]
    /\ hyLock' = IF hyLock = t THEN HyFree ELSE hyLock
    /\ UNCHANGED <<hyCached, hyConn, hySess, hyChanges>>

\* connect_packet: the next session id and its route, and the worker is spawned, unless
\* the server has disabled UDP or the ids have run out.
HySession(t) ==
    /\ hyCall[t].pc = "session"
    /\ \/ /\ hySess' = [hySess EXCEPT ![t] = [conn |-> hyCall[t].conn, worker |-> "busy", closed |-> FALSE,
                                              router |-> "first"]]
          /\ hyCall' = [hyCall EXCEPT ![t].pc = "done"]
       \/ hyCall' = [hyCall EXCEPT ![t].pc = "failed"] /\ UNCHANGED hySess
    /\ UNCHANGED <<hyLock, hyCached, hyConn, hyChanges>>

\* dispatch_packet sends the first packet; when that fails it returns at once, and as
\* the worker holds the session too, nothing closes the closer.
HyFirst(t) ==
    /\ hySess[t].router = "first"
    /\ \E next \in {"loop", "failed"} : hySess' = [hySess EXCEPT ![t].router = next]
    /\ UNCHANGED <<hyCall, hyLock, hyCached, hyConn, hyChanges>>

\* The worker enters select!, which registers it with the Notify ...
HyWorkerWaits(t) ==
    /\ hySess[t].worker = "busy" /\ ~hySess[t].closed
    /\ hySess' = [hySess EXCEPT ![t].worker = "wait"]
    /\ UNCHANGED <<hyCall, hyLock, hyCached, hyConn, hyChanges>>

\* ... leaves it for a datagram ...
HyWorkerData(t) ==
    /\ hySess[t].worker = "wait" /\ hyConn[hySess[t].conn].up /\ hyConn[hySess[t].conn].listens
    /\ hySess' = [hySess EXCEPT ![t].worker = "busy"]
    /\ UNCHANGED <<hyCall, hyLock, hyCached, hyConn, hyChanges>>

\* Mutant: the worker waits for the connection only.
HyWorkerEndsTold(t) ==
    /\ hySess[t].worker = "told"
    /\ hySess' = [hySess EXCEPT ![t].worker = "gone"]
    /\ UNCHANGED <<hyCall, hyLock, hyCached, hyConn, hyChanges>>

\* ... or ends, notified or closed, and removes its route.
HyWorkerEnds(t) ==
    /\ hySess[t].worker = "told" \/ (hySess[t].worker \in {"wait", "busy"} /\ hySess[t].closed)
    /\ hySess' = [hySess EXCEPT ![t].worker = "gone"]
    /\ UNCHANGED <<hyCall, hyLock, hyCached, hyConn, hyChanges>>

\* The router's loop ends: its receive fails, a send fails, or it is idle.
HyRouterEnds(t) ==
    /\ hySess[t].router = "loop"
    /\ hySess' = [hySess EXCEPT ![t].closed = TRUE, ![t].router = "ended"]
    /\ UNCHANGED <<hyCall, hyLock, hyCached, hyConn, hyChanges>>

\* The connection is lost; run_datagram_listener sees it and notifies.
HyConnDies(c) ==
    /\ c \in DOMAIN hyConn /\ hyConn[c].up
    /\ hyConn' = [hyConn EXCEPT ![c].up = FALSE]
    /\ UNCHANGED <<hyCall, hyLock, hyCached, hySess, hyChanges>>

HyListenerEnds(c) ==
    /\ c \in DOMAIN hyConn /\ ~hyConn[c].up /\ hyConn[c].listens
    /\ HyTell({c})
    /\ hyConn' = [hyConn EXCEPT ![c].listens = FALSE]
    /\ UNCHANGED <<hyCall, hyLock, hyCached, hyChanges>>

HyChange ==
    /\ hyChanges.seen < HyMaxChanges
    /\ hyChanges' = [seen |-> hyChanges.seen + 1, due |-> hyChanges.due + 1]
    /\ UNCHANGED <<hyCall, hyLock, hyCached, hyConn, hySess>>

\* iface_reset_task: the lock, and the cached connection is taken and closed.
HyReset ==
    /\ hyChanges.due > 0 /\ hyLock = HyFree
    /\ hyChanges' = [hyChanges EXCEPT !.due = @ - 1]
    /\ hyCached' = 0 /\ HyClosed({hyCached}, TRUE)
    /\ UNCHANGED <<hyCall, hyLock>>

HyStep(t) == HyEnsure(t) \/ HyEstablished(t) \/ HyDialFails(t) \/ HyOpen(t) \/ HyEvict(t)
HyWorker(t) == HySession(t) \/ HyFirst(t) \/ HyWorkerWaits(t) \/ HyWorkerEnds(t) \/ HyRouterEnds(t)

HyNext ==
    \/ \E t \in HyCalls : HyStep(t) \/ HyCancel(t)
    \/ \E t \in HyUdp : HyWorker(t) \/ HyWorkerData(t)
    \/ \E c \in 1..HyMaxConns : HyConnDies(c) \/ HyListenerEnds(c)
    \/ HyChange \/ HyReset

\* Every task runs, the network and the callers' patience are not fair; the mutex is
\* a queue, so that a call that waits for it is served when it keeps becoming free.
HySpec ==
    /\ HyInit /\ [][HyNext]_hyVars
    /\ \A t \in HyCalls : SF_hyVars(HyStep(t))
    /\ \A t \in HyUdp : WF_hyVars(HyWorker(t))
    /\ WF_hyVars(\E c \in 1..HyMaxConns : HyListenerEnds(c)) /\ SF_hyVars(HyReset)

-----------------------------------------------------------------------------
(* Properties *)

\* No connection stays open that no later call can find: late failures on an old
\* connection do not take its successor out of the cache, and what a reset takes out
\* is closed (open_bistream_with_retry, iface_reset_task).
HyNoOrphan == \A c \in DOMAIN hyConn : hyConn[c].up => c = hyCached

\* The worker of a session whose connection is gone ends and gives back its route,
\* also when the notification passed while it was busy or not yet waiting: the router
\* closes its closer in the end. Only if the first packet could not be sent is there
\* nothing but the notification, which a worker that was busy then never gets.
HyWorkersEnd ==
    \A t \in HyUdp :
        (hySess[t].conn # 0 /\ ~hyConn[hySess[t].conn].up)
            ~> (hySess[t].worker = "gone" \/ hySess[t].router = "failed")

\* A stream that cannot be opened on a dead connection is tried "once on a fresh
\* connection": the call gets past its second ensure_connection.
HyRetried == \A t \in HyTcp : hyCall[t].pc = "evict" ~> hyCall[t].pc \in {"open", "done", "failed"}

\* Connections and the sessions on them go together: no connection is out of reach,
\* and no session outlives its connection once its first packet was sent.
HySound == []HyNoOrphan /\ HyWorkersEnd
=============================================================================
