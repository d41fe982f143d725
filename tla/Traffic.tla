------------------------------- MODULE Traffic -------------------------------
(***************************************************************************)
(* Traffic per destination: a connection that closes adds what it carried  *)
(* to a concurrent map; a map that has grown is merged into a table of the *)
(* cache, and the management API drains both.  Threads close, flush and    *)
(* drain at the same time.                                                 *)
(***************************************************************************)
EXTENDS Naturals, FiniteSets

CONSTANTS
    TrConns,      \* connections
    TrDst,        \* connection |-> destination
    TrApi,        \* drain_dst_traffic calls, each made once
    TrThreshold   \* DST_TRAFFIC_FLUSH_THRESHOLD, 256 in the code

ASSUME TrAssumption == TrThreshold \in Nat \ {0} /\ DOMAIN TrDst = TrConns

\* A connection is no call, and neither is called like a place or the free lock.
ASSUME TrNamesAssumption ==
    TrConns \cap TrApi = {} /\ {"free", "map", "table", "out", "lost"} \cap (TrConns \cup TrApi) = {}

VARIABLES
    trJob,    \* the drop of each connection and each call: where it is, the keys
              \* it has still to take, what it has taken, what it has to return
    trMap,    \* dst_traffic: destination |-> bytes
    trTable,  \* the table observe:dst_traffic
    trLock,   \* who holds dst_traffic_flush
    trOut,    \* what the API has returned
    trLost    \* what failed merges have lost

trVars == <<trJob, trMap, trTable, trLock, trOut, trLost>>

\* A byte count is the set of the connections whose bytes it holds.
TrDsts == {TrDst[c] : c \in TrConns}
TrEmpty == [d \in TrDsts |-> {}]
TrAll(f) == UNION {f[d] : d \in TrDsts}
TrClosed == {c \in TrConns : trJob[c].pc # "open"}

\* DstTrafficEntry::absorb adds up.
TrAbsorb(f, g) == [d \in TrDsts |-> f[d] \cup g[d]]

TrInit ==
    /\ trJob = [t \in TrConns \cup TrApi |->
                  [pc |-> IF t \in TrConns THEN "open" ELSE "start", keys |-> {},
                   taken |-> TrEmpty, seen |-> {}]]
    /\ trMap = TrEmpty /\ trTable = TrEmpty
    /\ trLock = "free"
    /\ trOut = {} /\ trLost = {}

TrKeys == {d \in TrDsts : trMap[d] # {}}

\* remove_connection, from the drop of the last ConnectionHandle: what it carried
\* is added to the entry of its destination.
TrClose(c) ==
    /\ trJob[c].pc = "open"
    /\ trMap' = [trMap EXCEPT ![TrDst[c]] = @ \cup {c}]
    /\ trJob' = [trJob EXCEPT ![c].pc = "closed"]
    /\ UNCHANGED <<trTable, trLock, trOut, trLost>>

\* Mutant: a flush does not ask for the lock.
TrFlushUnlocked(c) ==
    /\ trJob[c].pc = "closed"
    /\ trJob' = IF Cardinality(TrKeys) >= TrThreshold
                THEN [trJob EXCEPT ![c].pc = "take", ![c].keys = TrKeys]
                ELSE [trJob EXCEPT ![c].pc = "done"]
    /\ UNCHANGED <<trMap, trTable, trLock, trOut, trLost>>

\* flush_dst_traffic, if the map has grown and no other thread flushes or drains.
TrFlush(c) ==
    /\ trJob[c].pc = "closed"
    /\ IF Cardinality(TrKeys) >= TrThreshold /\ trLock = "free"
       THEN /\ trLock' = c
            /\ trJob' = [trJob EXCEPT ![c].pc = "take", ![c].keys = TrKeys]
       ELSE /\ trJob' = [trJob EXCEPT ![c].pc = "done"]
            /\ UNCHANGED trLock
    /\ UNCHANGED <<trMap, trTable, trOut, trLost>>

\* drain_dst_traffic waits for the lock, empties the table in one transaction (or
\* fails to, and goes on) and looks at the keys of the map.
TrDrain(t) ==
    /\ trJob[t].pc = "start" /\ trLock = "free"
    /\ trLock' = t
    /\ \/ /\ trTable' = TrEmpty
          /\ trJob' = [trJob EXCEPT ![t] = [pc |-> "take", keys |-> TrKeys, taken |-> trTable,
                                            seen |-> TrClosed]]
       \/ /\ trJob' = [trJob EXCEPT ![t] = [pc |-> "take", keys |-> TrKeys, taken |-> TrEmpty,
                                            seen |-> TrClosed \ TrAll(trTable)]]
          /\ UNCHANGED trTable
    /\ UNCHANGED <<trMap, trOut, trLost>>

\* take_dst_traffic removes the keys it saw, one by one.
TrTake(t) ==
    /\ trJob[t].pc = "take"
    /\ \E d \in trJob[t].keys :
         /\ trJob' = [trJob EXCEPT ![t].keys = @ \ {d}, ![t].taken = [trJob[t].taken EXCEPT ![d] = @ \cup trMap[d]]]
         /\ trMap' = [trMap EXCEPT ![d] = {}]
    /\ UNCHANGED <<trTable, trLock, trOut, trLost>>

TrReleased(t) == IF trLock = t THEN "free" ELSE trLock

\* merge_many adds the batch to the table in one transaction; if that fails the
\* batch is gone.
TrMerge(c) ==
    /\ c \in TrConns /\ trJob[c].pc = "take" /\ trJob[c].keys = {}
    /\ \/ trTable' = TrAbsorb(trTable, trJob[c].taken) /\ UNCHANGED trLost
       \/ trLost' = trLost \cup TrAll(trJob[c].taken) /\ UNCHANGED trTable
    /\ trJob' = [trJob EXCEPT ![c].pc = "done", ![c].taken = TrEmpty]
    /\ trLock' = TrReleased(c)
    /\ UNCHANGED <<trMap, trOut>>

TrReturn(t) ==
    /\ t \in TrApi /\ trJob[t].pc = "take" /\ trJob[t].keys = {}
    /\ trOut' = trOut \cup TrAll(trJob[t].taken)
    /\ trJob' = [trJob EXCEPT ![t].pc = "done", ![t].taken = TrEmpty]
    /\ trLock' = TrReleased(t)
    /\ UNCHANGED <<trMap, trTable, trLost>>

TrNext ==
    \/ \E c \in TrConns : TrClose(c) \/ TrFlush(c) \/ TrMerge(c)
    \/ \E t \in TrApi : TrDrain(t) \/ TrReturn(t)
    \/ \E t \in TrConns \cup TrApi : TrTake(t)

TrSpec == TrInit /\ [][TrNext]_trVars

-----------------------------------------------------------------------------
(* Properties *)

\* The places traffic can be in, each with what it holds: the map, the table, what the
\* API returned, what a failed merge lost, and a batch on its way.
TrPlaces ==
    {<<"map", TrAll(trMap)>>, <<"table", TrAll(trTable)>>, <<"out", trOut>>, <<"lost", trLost>>}
        \cup {<<t, TrAll(trJob[t].taken)>> : t \in TrConns \cup TrApi}

\* No traffic of a closed connection is dropped or counted twice, however closing,
\* flushing and draining interleave: it is in exactly one place, and only a failed
\* merge loses it.
TrConserved ==
    LET places == TrPlaces IN
    /\ \A c \in TrConns : c \in TrClosed <=> \E p \in places : c \in p[2]
    /\ \A p \in places : p[2] # {} => \A q \in places : p[1] # q[1] => p[2] \cap q[2] = {}

\* The API misses nothing that was closed when it began to read, but for a table it
\* could not read: no entry is on its way from the map to the table meanwhile
\* (dst_traffic_flush).
TrDrainComplete ==
    \A t \in TrApi : trJob[t].pc = "done" => trJob[t].seen \subseteq trOut \cup trLost

\* Per-destination traffic is counted exactly once and a drain is complete.
TrSound == TrConserved /\ TrDrainComplete
=============================================================================
