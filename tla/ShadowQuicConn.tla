--------------------------- MODULE ShadowQuicConn ---------------------------
(***************************************************************************)
(* The connection cache of a ShadowQUIC outbound: callers that share one   *)
(* QUIC connection behind an async mutex, the verdicts on its early data,  *)
(* the retries on a fresh connection and the migration to a new network.   *)
(* What a task does between two awaits is one step, except where another   *)
(* task can tell the difference.                                           *)
(***************************************************************************)
EXTENDS Naturals, Sequences

CONSTANTS
    SqTcp,        \* connect_stream_base calls
    SqUdp,        \* connect_packet calls
    SqStat,       \* get_uplink_stats and get_downlink_stats calls
    SqMixes,      \* bound: the calls and changes that happen together
    SqAuth,       \* TRUE without JLS: credentials go out on a first stream
    SqMaxConns,   \* bound: connections established
    SqMaxChanges, \* bound: changes of the network
    SqChan        \* capacity of the broadcast channel of changes, 8 in the code

ASSUME SqAssumption ==
    /\ SqAuth \in BOOLEAN
    /\ SqMaxConns \in Nat /\ SqMaxChanges \in Nat /\ SqChan \in Nat \ {0}
    /\ SqStat \cap (SqTcp \cup SqUdp) = {}
    /\ {"free", "watcher"} \cap (SqTcp \cup SqUdp \cup SqStat) = {}
    /\ \A m \in SqMixes : m.changes \in 0 .. SqMaxChanges

VARIABLES
    sqCall,    \* the calls under way
    sqLock,    \* who holds the mutex of cached_client
    sqCached,  \* the cached connection, 0 for None
    sqConn,    \* the connections established so far, by their stable_id
    sqNet,     \* the number of the current network
    sqChan,    \* the channel of change events: n waiting, some overwritten
    sqMon,     \* the monitor: "idle", or about to broadcast a change
    sqMig,     \* the interface watcher of this outbound
    sqIface    \* the network it is moving the cached connection to

sqVars == <<sqCall, sqLock, sqCached, sqConn, sqNet, sqChan, sqMon, sqMig, sqIface>>

SqCallers == SqTcp \cup SqUdp \cup SqStat
SqFree == "free"
SqWatcher == "watcher"
SqIds == 1 .. Len(sqConn)

\* got is the connection a call was given, net the network its socket is bound
\* to; try, cap and settle count the retries of the three nested loops.
SqIdle == [pc |-> "ensure", got |-> 0, net |-> 0, try |-> 0, cap |-> 0, settle |-> 0]

\* The calls that are made, and the changes that happen, are one of the mixes.
SqInit ==
    /\ \E m \in SqMixes :
         /\ sqCall = [t \in SqCallers |->
                        [SqIdle EXCEPT !.pc = IF t \in m.calls THEN "ensure" ELSE "failed"]]
         /\ sqNet = SqMaxChanges - m.changes
    /\ sqLock = SqFree
    /\ sqCached = 0
    /\ sqConn = <<>>
    /\ sqChan = [n |-> 0, lag |-> FALSE] /\ sqMon = "idle"
    /\ sqMig = "idle" /\ sqIface = 0

SqAt(t, pc) == sqCall[t].pc = pc
SqGoto(t, pc) == sqCall' = [sqCall EXCEPT ![t].pc = pc]
SqFail(t) == sqCall' = [sqCall EXCEPT ![t] = [SqIdle EXCEPT !.pc = "failed"]]
SqGot(t) == sqCall[t].got
SqNetVars == <<sqNet, sqChan, sqMon, sqIface>>

\* PerConnectionState::zero_rtt_rejected: the flag, or the auth stream's fate.
SqRejected(c) == sqConn[c].marked \/ (SqAuth /\ sqConn[c].hs = "rejected")

\* zero_rtt_verdict is known once the handshake is over or the connection gone;
\* only accepted early data makes it true.
SqDecided(c) == sqConn[c].hs # "early" \/ ~sqConn[c].up

\* The call has its connection: a query of statistics is done with it.
SqGive(t, c) ==
    sqCall' = [sqCall EXCEPT ![t].got = c, ![t].net = 0,
                             ![t].pc = IF t \in SqStat THEN "done" ELSE "open"]

-----------------------------------------------------------------------------
(* ensure_connection, under the lock from its first to its last step *)

\* A connection whose early data was rejected is closed and forgotten, a live
\* one is given out, now or after a probe, and without one a new one is made.
SqEnsure(t) ==
    /\ SqAt(t, "ensure") /\ sqLock = SqFree
    /\ LET c == sqCached
           rejected == c # 0 /\ SqRejected(c)
       IN IF c # 0 /\ ~rejected /\ sqConn[c].up
          THEN \/ SqGive(t, c) /\ UNCHANGED <<sqLock, sqCached, sqConn>>
               \/ SqGoto(t, "probe") /\ sqLock' = t /\ UNCHANGED <<sqCached, sqConn>>
          ELSE /\ SqGoto(t, "socket") /\ sqLock' = t
               /\ sqCached' = IF rejected THEN 0 ELSE c
               /\ sqConn' = IF rejected THEN [sqConn EXCEPT ![c].up = FALSE] ELSE sqConn
    /\ UNCHANGED <<SqNetVars, sqMig>>

\* is_healthy and probe_connection: an answer proves the path.
SqProbeAnswered(t) ==
    /\ SqAt(t, "probe") /\ sqConn[sqCached].up
    /\ SqGive(t, sqCached)
    /\ sqLock' = SqFree
    /\ UNCHANGED <<sqCached, sqConn, SqNetVars, sqMig>>

\* Silence closes the connection and fails the call (report_unhealthy).
SqProbeSilent(t) ==
    /\ SqAt(t, "probe")
    /\ SqFail(t)
    /\ sqConn' = [sqConn EXCEPT ![sqCached].up = FALSE]
    /\ sqCached' = 0
    /\ sqLock' = SqFree
    /\ UNCHANGED <<SqNetVars, sqMig>>

\* establish_connection: the socket is bound to the interface of the moment ...
SqSocket(t) ==
    /\ SqAt(t, "socket")
    /\ sqCall' = [sqCall EXCEPT ![t].pc = "connect", ![t].net = sqNet]
    /\ UNCHANGED <<sqLock, sqCached, sqConn, SqNetVars, sqMig>>

\* ... and the connection made, with early data or after a whole handshake; the
\* auth stream is sent, and watched if it is early.
SqConnect(t) ==
    /\ SqAt(t, "connect") /\ Len(sqConn) < SqMaxConns
    /\ \E hs \in {"early", "full"} :
         sqConn' = Append(sqConn,
           [up |-> TRUE, hs |-> hs, marked |-> FALSE, full |-> FALSE, net |-> sqCall[t].net,
            watch |-> IF SqAuth /\ hs = "early" THEN "wait" ELSE "none"])
    /\ SqGoto(t, "store")
    /\ UNCHANGED <<sqLock, sqCached, SqNetVars, sqMig>>

SqStore(t) ==
    /\ SqAt(t, "store")
    /\ SqGive(t, Len(sqConn))
    /\ sqCached' = Len(sqConn)
    /\ sqLock' = SqFree
    /\ UNCHANGED <<sqConn, SqNetVars, sqMig>>

SqConnectFails(t) ==
    /\ \/ SqAt(t, "socket") \/ SqAt(t, "connect")
    /\ SqFail(t)
    /\ sqCached' = 0
    /\ sqLock' = SqFree
    /\ UNCHANGED <<sqConn, SqNetVars, sqMig>>

-----------------------------------------------------------------------------
(* Opening a stream, and the retries *)

\* open_stream_with_retry: opening fails once the connection is closed.  A UDP
\* call goes on to ask for capacity, a TCP call for the verdict.
SqOpen(t) ==
    /\ SqAt(t, "open")
    /\ SqGoto(t, IF ~sqConn[SqGot(t)].up THEN "clear"
                 ELSE IF t \in SqUdp THEN "capacity" ELSE "verdict")
    /\ UNCHANGED <<sqLock, sqCached, sqConn, SqNetVars, sqMig>>

\* Mutant: whatever is cached is forgotten.
SqForgetAny(c) == TRUE

\* Only the connection that failed is taken out of the cache.
SqForget(c) == sqCached = c

\* clear_cached_conn(failed, true), and one more attempt.
SqClear(t) ==
    /\ SqAt(t, "clear") /\ sqLock = SqFree
    /\ IF SqForget(SqGot(t))
       THEN sqConn' = [sqConn EXCEPT ![SqGot(t)].up = FALSE] /\ sqCached' = 0
       ELSE UNCHANGED <<sqConn, sqCached>>
    /\ IF sqCall[t].try = 1 THEN SqFail(t)
       ELSE sqCall' = [sqCall EXCEPT ![t].try = 1, ![t].got = 0, ![t].pc = "ensure"]
    /\ UNCHANGED <<sqLock, SqNetVars, sqMig>>

\* open_udp_bistream_with_capacity looks at the ids the connection has left ...
SqCapacity(t) ==
    /\ SqAt(t, "capacity")
    /\ SqGoto(t, IF sqConn[SqGot(t)].full THEN "evict" ELSE "verdict")
    /\ UNCHANGED <<sqLock, sqCached, sqConn, SqNetVars, sqMig>>

\* ... and takes a connection that has too few out of the cache, still open.
SqEvict(t) ==
    /\ SqAt(t, "evict") /\ sqLock = SqFree
    /\ sqCached' = IF SqForget(SqGot(t)) THEN 0 ELSE sqCached
    /\ IF sqCall[t].cap = 1 THEN SqFail(t)
       ELSE sqCall' = [sqCall EXCEPT ![t].cap = 1, ![t].try = 0, ![t].got = 0, ![t].pc = "ensure"]
    /\ UNCHANGED <<sqLock, sqConn, SqNetVars, sqMig>>

-----------------------------------------------------------------------------
(* Verdicts on early data *)

\* stream_zero_rtt_verdict: a 1-RTT stream of a connection that was not
\* rejected is plain, any other is watched.
SqNoVerdict(t) ==
    /\ SqAt(t, "verdict")
    /\ LET c == SqGot(t) IN
       SqGoto(t, IF sqConn[c].hs = "early" \/ SqRejected(c) THEN "watch" ELSE "done")
    /\ UNCHANGED <<sqLock, sqCached, sqConn, SqNetVars, sqMig>>

\* A rejected TCP stream is replayed on a new one (ZeroRttStream), a rejected
\* UDP stream is opened once more (open_udp_bistream_settled).
SqAgain(t) ==
    IF t \in SqUdp /\ sqCall[t].settle = 1 THEN SqFail(t)
    ELSE sqCall' = [sqCall EXCEPT ![t] = [SqIdle EXCEPT !.settle = IF t \in SqUdp THEN 1 ELSE 0]]

\* watch_zero_rtt: the first stream to see the rejection marks the connection
\* and closes it, then waits for the lock.
SqVerdict(t) ==
    /\ SqAt(t, "watch") /\ SqDecided(SqGot(t))
    /\ LET c == SqGot(t) IN
       IF sqConn[c].hs = "accepted" THEN SqGoto(t, "done") /\ UNCHANGED sqConn
       ELSE IF sqConn[c].marked THEN SqAgain(t) /\ UNCHANGED sqConn
       ELSE /\ SqGoto(t, "unmap")
            /\ sqConn' = [sqConn EXCEPT ![c].marked = TRUE, ![c].up = FALSE]
    /\ UNCHANGED <<sqLock, sqCached, SqNetVars, sqMig>>

SqUnmap(t) ==
    /\ SqAt(t, "unmap") /\ sqLock = SqFree
    /\ sqCached' = IF SqForget(SqGot(t)) THEN 0 ELSE sqCached
    /\ SqAgain(t)
    /\ UNCHANGED <<sqLock, sqConn, SqNetVars, sqMig>>

\* The same for the task that watches the auth stream.
SqAuthVerdict(c) ==
    /\ sqConn[c].watch = "wait" /\ SqDecided(c)
    /\ sqConn' = IF sqConn[c].hs = "accepted" \/ sqConn[c].marked
                 THEN [sqConn EXCEPT ![c].watch = "none"]
                 ELSE [sqConn EXCEPT ![c].watch = "unmap", ![c].marked = TRUE, ![c].up = FALSE]
    /\ UNCHANGED <<sqCall, sqLock, sqCached, SqNetVars, sqMig>>

SqAuthUnmap(c) ==
    /\ sqConn[c].watch = "unmap" /\ sqLock = SqFree
    /\ sqConn' = [sqConn EXCEPT ![c].watch = "none"]
    /\ sqCached' = IF SqForget(c) THEN 0 ELSE sqCached
    /\ UNCHANGED <<sqCall, sqLock, SqNetVars, sqMig>>

-----------------------------------------------------------------------------
(* Changes of the network *)

\* refresh_iface selects another interface, then notify_change broadcasts it;
\* a full channel overwrites its oldest event.
SqNetChange ==
    /\ sqMon = "idle" /\ sqNet < SqMaxChanges
    /\ sqNet' = sqNet + 1
    /\ sqMon' = "notify"
    /\ UNCHANGED <<sqCall, sqLock, sqCached, sqConn, sqChan, sqMig, sqIface>>

SqNotify ==
    /\ sqMon = "notify"
    /\ sqMon' = "idle"
    /\ sqChan' = IF sqChan.n < SqChan THEN [sqChan EXCEPT !.n = @ + 1]
                 ELSE [sqChan EXCEPT !.lag = TRUE]
    /\ UNCHANGED <<sqCall, sqLock, sqCached, sqConn, sqNet, sqMig, sqIface>>

\* The watcher learns that it lagged, or takes an event and asks for the lock.
SqRecv ==
    /\ sqMig = "idle"
    /\ IF sqChan.lag THEN sqChan' = [sqChan EXCEPT !.lag = FALSE] /\ UNCHANGED sqMig
       ELSE /\ sqChan.n > 0
            /\ sqChan' = [sqChan EXCEPT !.n = @ - 1]
            /\ sqMig' = "lock"
    /\ UNCHANGED <<sqCall, sqLock, sqCached, sqConn, sqNet, sqMon, sqIface>>

\* migrate_cached_conn with nothing to migrate, or up to the choice of the interface ...
SqMigrate ==
    /\ sqMig = "lock" /\ sqLock = SqFree
    /\ IF sqCached = 0 THEN sqMig' = "idle" /\ UNCHANGED <<sqLock, sqIface>>
       ELSE sqMig' = "socket" /\ sqLock' = SqWatcher /\ sqIface' = sqNet
    /\ UNCHANGED <<sqCall, sqCached, sqConn, sqNet, sqChan, sqMon>>

\* ... of the new socket, which the endpoint is bound to, whatever the network is by
\* now; or the connection is closed.
SqRebind ==
    /\ sqMig = "socket"
    /\ sqMig' = "idle" /\ sqIface' = 0
    /\ sqLock' = SqFree
    /\ \/ sqConn' = [sqConn EXCEPT ![sqCached].net = sqIface] /\ UNCHANGED sqCached
       \/ sqConn' = [sqConn EXCEPT ![sqCached].up = FALSE] /\ sqCached' = 0
    /\ UNCHANGED <<sqCall, sqNet, sqChan, sqMon>>

-----------------------------------------------------------------------------
(* The environment *)

SqHandshake(c) ==
    /\ sqConn[c].up /\ sqConn[c].hs = "early"
    /\ \E hs \in {"accepted", "rejected"} : sqConn' = [sqConn EXCEPT ![c].hs = hs]
    /\ UNCHANGED <<sqCall, sqLock, sqCached, SqNetVars, sqMig>>

\* The peer or the idle timeout closes a connection ...
SqConnDies(c) ==
    /\ sqConn[c].up
    /\ sqConn' = [sqConn EXCEPT ![c].up = FALSE]
    /\ UNCHANGED <<sqCall, sqLock, sqCached, SqNetVars, sqMig>>

\* ... its sessions use up the context ids ...
SqFill(c) ==
    /\ sqConn[c].up /\ ~sqConn[c].full /\ \E t \in SqUdp : sqCall[t].pc # "failed"
    /\ sqConn' = [sqConn EXCEPT ![c].full = TRUE]
    /\ UNCHANGED <<sqCall, sqLock, sqCached, SqNetVars, sqMig>>

\* ... and a caller's timeout drops its call at an await.
SqGiveUp(t) ==
    /\ sqCall[t].pc \in {"ensure", "probe", "socket", "connect", "open", "clear", "evict",
                         "watch", "unmap"}
    /\ SqFail(t)
    /\ sqLock' = IF sqLock = t THEN SqFree ELSE sqLock
    /\ UNCHANGED <<sqCached, sqConn, SqNetVars, sqMig>>

\* Dropping the outbound, which no call outlives, aborts the watcher.
SqDrop ==
    /\ \A t \in SqCallers : sqCall[t].pc \in {"done", "failed"}
    /\ sqMig # "aborted"
    /\ sqMig' = "aborted"
    /\ sqLock' = IF sqLock = SqWatcher THEN SqFree ELSE sqLock
    /\ UNCHANGED <<sqCall, sqCached, sqConn, SqNetVars>>

SqStep(t) ==
    \/ SqEnsure(t) \/ SqProbeAnswered(t) \/ SqProbeSilent(t) \/ SqSocket(t) \/ SqConnect(t)
    \/ SqStore(t) \/ SqConnectFails(t) \/ SqOpen(t) \/ SqClear(t) \/ SqCapacity(t)
    \/ SqEvict(t) \/ SqNoVerdict(t) \/ SqVerdict(t) \/ SqUnmap(t)

SqSettle(c) == SqHandshake(c) \/ SqConnDies(c)

SqNext ==
    \/ \E t \in SqCallers : SqStep(t) \/ SqGiveUp(t)
    \/ \E c \in SqIds : SqAuthVerdict(c) \/ SqAuthUnmap(c) \/ SqSettle(c) \/ SqFill(c)
    \/ SqNetChange \/ SqNotify \/ SqRecv \/ SqMigrate \/ SqRebind \/ SqDrop

SqSpec == SqInit /\ [][SqNext]_sqVars

-----------------------------------------------------------------------------
(* Properties *)

\* The lock is held by exactly the task that is inside ensure_connection or
\* migrate_cached_conn, and what is cached has been established.
SqTypeOK ==
    /\ sqLock \in SqCallers \cup {SqFree, SqWatcher}
    /\ \A t \in SqCallers : sqLock = t <=> sqCall[t].pc \in {"probe", "socket", "connect", "store"}
    /\ sqLock = SqWatcher <=> sqMig = "socket"
    /\ sqCached \in 0 .. Len(sqConn)
    /\ sqMig \in {"idle", "lock", "socket", "aborted"}
    /\ sqNet \in 0 .. SqMaxChanges /\ sqIface \in 0 .. SqMaxChanges /\ sqChan.n \in 0 .. SqChan

\* No open connection falls out of the cache: one that is not cached is being
\* stored, or was given up because its context ids ran out.  In particular a
\* caller that failed on an old connection never evicts its successor
\* (clear_cached_conn, watch_zero_rtt).
SqNoOrphan ==
    \A c \in SqIds : sqConn[c].up =>
        \/ c = sqCached \/ sqConn[c].full
        \/ \E t \in SqCallers : sqCall[t].pc = "store" /\ c = Len(sqConn)

\* A stream handed out without a verdict is one that the server serves: its
\* connection did not lose the credentials with rejected early data, although
\* no watcher may have noticed the rejection yet (stream_zero_rtt_verdict).
SqNoDeafStream ==
    \A t \in SqTcp \cup SqUdp :
        sqCall[t].pc = "done" => ~(SqAuth /\ sqConn[SqGot(t)].hs = "rejected")

\* Once every change has been broadcast and handled, the cached connection is
\* bound to the current network, also if it was being established meanwhile or
\* the watcher missed events.
SqFollowsNetwork ==
    sqMon = "idle" /\ sqChan.n = 0 /\ ~sqChan.lag /\ sqMig = "idle" /\ sqCached # 0
        => sqConn[sqCached].net = sqNet

\* The cache of the outbound is sound: the lock is not leaked, no connection is
\* orphaned, no stream is handed out that the server will not serve, and the cached
\* connection follows the network.
SqCacheSound == SqTypeOK /\ SqNoOrphan /\ SqNoDeafStream /\ SqFollowsNetwork
=============================================================================
