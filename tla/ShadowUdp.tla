----------------------------- MODULE ShadowUdp -----------------------------
(***************************************************************************)
(* UDP sessions of ShadowQUIC, one direction of one QUIC connection.       *)
(*                                                                         *)
(* The sending end (ShadowQuicUdpPacket) gives each target of a session a  *)
(* context id, announces it on the session's control stream and then sends *)
(* packets under that id, on a unidirectional stream of its own (OverStream)*)
(* or as datagrams.  Streams and datagrams may overtake the control stream.*)
(* The receiving end (ShadowUdpReceiver) binds announced ids in a map that *)
(* all sessions of the connection share; streams and datagrams that come   *)
(* before their binding wait for it.                                       *)
(***************************************************************************)
EXTENDS Integers, Sequences, FiniteSets

CONSTANTS
    Sessions,
    Targets,
    OverStream,                      \* is_over_unistream of all sessions
    MAX_ID,                          \* u16::MAX
    UDP_CONTEXT_ID_RECONNECT_MARGIN,
    UDP_RECEIVE_QUEUE_CAPACITY,
    WAITING_DATAGRAM_QUEUE_CAPACITY,
    MAX_WAITING_DATAGRAM_CONTEXTS,
    MaxSent,                         \* bound: packets sent to each target
    None

ASSUME UdpAssumption ==
    /\ OverStream \in BOOLEAN
    /\ MAX_ID \in Nat \ {0}
    /\ UDP_CONTEXT_ID_RECONNECT_MARGIN \in 0 .. MAX_ID
    /\ UDP_RECEIVE_QUEUE_CAPACITY \in Nat \ {0}
    /\ WAITING_DATAGRAM_QUEUE_CAPACITY \in Nat \ {0}
    /\ MAX_WAITING_DATAGRAM_CONTEXTS \in Nat
    /\ MaxSent \in Nat
    /\ None \notin Sessions \cup Targets

Ids == 1 .. MAX_ID

\* The n-th packet a session sends to a target.
Packet == [s : Sessions, t : Targets, n : Nat]

VARIABLES
    \* the sending end
    nextId,     \* next_context_id
    session,    \* "new", "open", "refused" or "dropped"
    cell,       \* sender_map: the initialised id of each target, 0 without one
    call,       \* the send_to under way: where it is, its target and new id
    sent,       \* packets accepted for each target
    \* the connection
    control,    \* announcements on each session's control stream
    stream,     \* each id's unidirectional stream: its state and unread packets
    dgrams,     \* datagrams on their way
    \* the receiving end
    recvMap,    \* udp_recv_map: the receiver bound to each id
    bound,      \* binded_context_id of each receiver: the target of each id
    closed,     \* each receiver's closer
    lpc,        \* where its control listener is, and the id it is removing
    worker,     \* what became of each id's stream, and whose it is
    loop,       \* the datagram loop: where it is, its packet and its finding
    handler,    \* each waiting buffer's handler and receiver; "none" without a buffer
    waiting,    \* packets in each waiting buffer
    queue,      \* each receiver's queue of (target, packet)
    delivered   \* what has been received from it (history)

sendVars == <<nextId, session, cell, call, sent>>
linkVars == <<control, stream, dgrams>>
bindVars == <<recvMap, bound, closed, lpc>>
dgVars == <<loop, handler, waiting>>
vars == <<nextId, session, cell, call, sent, control, stream, dgrams,
          recvMap, bound, closed, lpc, worker, loop, handler, waiting, queue,
          delivered>>

Call == [pc : {"idle", "cell", "announce", "open", "write"},
         t : Targets \cup {None}, id : 0 .. MAX_ID, attempt : 0 .. 2]
Stream == [st : {"none", "open", "finished", "stopped"}, data : Seq(Packet)]
WorkerState == [pc : {"none", "wait", "found", "run", "unbind", "unmap", "last", "done", "expired"},
                s : Sessions \cup {None}, t : Targets \cup {None}]
HandlerState == [pc : {"none", "wait", "run", "end"}, s : Sessions \cup {None}]
LoopState == [pc : {"read", "feed", "buffer"}, id : 0 .. MAX_ID, p : Packet \cup {None},
              s : Sessions \cup {None}]

Idle == [pc |-> "idle", t |-> None, id |-> 0, attempt |-> 0]
LoopIdle == [pc |-> "read", id |-> 0, p |-> None, s |-> None]

\* The state keeps its types; no session's receive queue and no buffer of
\* waiting datagrams outgrows its capacity.
TypeOK ==
    /\ nextId \in 1 .. MAX_ID + 2
    /\ session \in [Sessions -> {"new", "open", "refused", "dropped"}]
    /\ cell \in [Sessions -> [Targets -> 0 .. MAX_ID]]
    /\ call \in [Sessions -> Call]
    /\ sent \in [Sessions -> [Targets -> 0 .. MaxSent]]
    /\ control \in [Sessions -> Seq(Ids \X Targets)]
    /\ stream \in [Ids -> Stream]
    /\ dgrams \subseteq Ids \X Packet
    /\ recvMap \in [Ids -> Sessions \cup {None}]
    /\ bound \in [Sessions -> [Ids -> Targets \cup {None}]]
    /\ closed \in [Sessions -> BOOLEAN]
    /\ lpc \in [Sessions -> {<<"read", 0>>, <<"clean", 0>>, <<"done", 0>>}
                              \cup {"unmap"} \X Ids]
    /\ worker \in [Ids -> WorkerState]
    /\ handler \in [Ids -> HandlerState]
    /\ loop \in LoopState
    /\ loop.pc # "read" => loop.id \in Ids /\ loop.p \in Packet
    /\ loop.pc = "feed" => loop.s \in Sessions
    /\ waiting \in [Ids -> Seq(Packet)]
    /\ \A id \in Ids : Len(waiting[id]) <= WAITING_DATAGRAM_QUEUE_CAPACITY
    /\ queue \in [Sessions -> Seq(Targets \X Packet)]
    /\ \A s \in Sessions : Len(queue[s]) <= UDP_RECEIVE_QUEUE_CAPACITY
    /\ delivered \in [Sessions -> Seq(Targets \X Packet)]

Init ==
    /\ nextId = 1
    /\ session = [s \in Sessions |-> "new"]
    /\ cell = [s \in Sessions |-> [t \in Targets |-> 0]]
    /\ call = [s \in Sessions |-> Idle]
    /\ sent = [s \in Sessions |-> [t \in Targets |-> 0]]
    /\ control = [s \in Sessions |-> <<>>]
    /\ stream = [id \in Ids |-> [st |-> "none", data |-> <<>>]]
    /\ dgrams = {}
    /\ recvMap = [id \in Ids |-> None]
    /\ bound = [s \in Sessions |-> [id \in Ids |-> None]]
    /\ closed = [s \in Sessions |-> FALSE]
    /\ lpc = [s \in Sessions |-> <<"read", 0>>]
    /\ worker = [id \in Ids |-> [pc |-> "none", s |-> None, t |-> None]]
    /\ loop = LoopIdle
    /\ handler = [id \in Ids |-> [pc |-> "none", s |-> None]]
    /\ waiting = [id \in Ids |-> <<>>]
    /\ queue = [s \in Sessions |-> <<>>]
    /\ delivered = [s \in Sessions |-> <<>>]

-----------------------------------------------------------------------------
(* The sending end *)

\* A session is opened only while enough ids are left; otherwise the client
\* takes a fresh connection and the server refuses the session.
OpenSession(s) ==
    /\ session[s] = "new"
    /\ session' = [session EXCEPT ![s] =
                     IF nextId < MAX_ID - UDP_CONTEXT_ID_RECONNECT_MARGIN
                     THEN "open" ELSE "refused"]
    /\ UNCHANGED <<nextId, cell, call, sent, linkVars, bindVars, worker, dgVars,
                   queue, delivered>>

\* send_to for the packet sent[s][t] + 1.
SendTo(s, t) ==
    /\ session[s] = "open" /\ call[s].pc = "idle"
    /\ sent[s][t] < MaxSent
    /\ call' = [call EXCEPT ![s] = [pc |-> "cell", t |-> t, id |-> 0, attempt |-> 1]]
    /\ UNCHANGED <<nextId, session, cell, sent, linkVars, bindVars, worker,
                   dgVars, queue, delivered>>

CallAt(s, pc) == session[s] = "open" /\ call[s].pc = pc

\* Mutant: an id that no sender uses any more is given out again.
AllocateRecycled(s) ==
    /\ CallAt(s, "cell")
    /\ LET c == call[s]
           used == {cell[u][t] : u \in Sessions, t \in Targets}
                     \cup {call[u].id : u \in Sessions}
           free == {id \in Ids : id \notin used}
       IN IF cell[s][c.t] # 0
          THEN /\ call' = [call EXCEPT ![s].pc = "write", ![s].id = cell[s][c.t]]
               /\ UNCHANGED nextId
          ELSE /\ free # {}
               /\ nextId' = IF nextId > MAX_ID THEN nextId ELSE nextId + 1
               /\ call' = [call EXCEPT ![s].pc = "announce",
                                       ![s].id = CHOOSE id \in free : \A j \in free : id <= j]
    /\ UNCHANGED <<session, cell, sent, linkVars, bindVars, worker, dgVars, queue,
                   delivered>>

\* get_send_context_id: the target's cell, or the next id of the connection;
\* when the ids have run out the call fails and the counter still moves on.
\* The bound stands in for the counter's 2^32 values.
GetSendContextId(s) ==
    /\ CallAt(s, "cell")
    /\ LET c == call[s] IN
       \/ /\ cell[s][c.t] # 0
          /\ call' = [call EXCEPT ![s].pc = "write", ![s].id = cell[s][c.t]]
          /\ UNCHANGED nextId
       \/ /\ cell[s][c.t] = 0 /\ nextId <= MAX_ID
          /\ nextId' = nextId + 1
          /\ call' = [call EXCEPT ![s].pc = "announce", ![s].id = nextId]
       \/ /\ cell[s][c.t] = 0 /\ nextId > MAX_ID
          /\ nextId' = MAX_ID + 2
          /\ call' = [call EXCEPT ![s] = Idle]
    /\ UNCHANGED <<session, cell, sent, linkVars, bindVars, worker, dgVars, queue,
                   delivered>>

\* create_sender: the announcement; over datagrams the cell is then complete.
Announce(s) ==
    /\ CallAt(s, "announce")
    /\ control' = [control EXCEPT ![s] = Append(@, <<call[s].id, call[s].t>>)]
    /\ IF OverStream
       THEN call' = [call EXCEPT ![s].pc = "open"] /\ UNCHANGED cell
       ELSE /\ call' = [call EXCEPT ![s].pc = "write"]
            /\ cell' = [cell EXCEPT ![s][call[s].t] = call[s].id]
    /\ UNCHANGED <<nextId, session, sent, stream, dgrams, bindVars, worker,
                   dgVars, queue, delivered>>

\* create_sender: the stream, headed by its id.
OpenUni(s) ==
    /\ CallAt(s, "open")
    /\ stream' = [stream EXCEPT ![call[s].id].st = "open"]
    /\ cell' = [cell EXCEPT ![s][call[s].t] = call[s].id]
    /\ call' = [call EXCEPT ![s].pc = "write"]
    /\ UNCHANGED <<nextId, session, sent, control, dgrams, bindVars, worker,
                   dgVars, queue, delivered>>

\* The packet is written.  A stream the peer has stopped may still accept it,
\* until the news arrives.
Write(s) ==
    /\ CallAt(s, "write")
    /\ LET c == call[s]
           p == [s |-> s, t |-> c.t, n |-> sent[s][c.t] + 1]
       IN /\ sent' = [sent EXCEPT ![s][c.t] = @ + 1]
          /\ IF OverStream
             THEN /\ stream' = IF stream[c.id].st = "stopped" THEN stream
                               ELSE [stream EXCEPT ![c.id].data = Append(@, p)]
                  /\ UNCHANGED dgrams
             ELSE dgrams' = dgrams \cup {<<c.id, p>>} /\ UNCHANGED stream
    /\ call' = [call EXCEPT ![s] = Idle]
    /\ UNCHANGED <<nextId, session, cell, control, bindVars, worker, dgVars,
                   queue, delivered>>

\* WriteError::Stopped: the sender is rebuilt once, then send_to fails.
WriteStopped(s) ==
    /\ CallAt(s, "write") /\ OverStream
    /\ stream[call[s].id].st = "stopped"
    /\ cell' = [cell EXCEPT ![s][call[s].t] = 0]
    /\ call' = [call EXCEPT ![s] =
                  IF @.attempt = 1 THEN [pc |-> "cell", t |-> @.t, id |-> 0, attempt |-> 2]
                  ELSE Idle]
    /\ UNCHANGED <<nextId, session, sent, linkVars, bindVars, worker, dgVars,
                   queue, delivered>>

\* The relay drops the packet socket, and a send_to under way with it: its
\* streams and the control stream are finished.
DropSession(s) ==
    /\ session[s] = "open"
    /\ session' = [session EXCEPT ![s] = "dropped"]
    /\ call' = [call EXCEPT ![s] = Idle]
    /\ cell' = [cell EXCEPT ![s] = [t \in Targets |-> 0]]
    /\ stream' = [id \in Ids |->
                    IF id \in {cell[s][t] : t \in Targets} /\ stream[id].st = "open"
                    THEN [stream[id] EXCEPT !.st = "finished"] ELSE stream[id]]
    /\ UNCHANGED <<nextId, sent, control, dgrams, bindVars, worker, dgVars,
                   queue, delivered>>

-----------------------------------------------------------------------------
(* run_bistream_recv_listener *)

\* An announcement arrives: bind_context_id.
Bind(s) ==
    /\ lpc[s] = <<"read", 0>>
    /\ control[s] # <<>>
    /\ control' = [control EXCEPT ![s] = Tail(@)]
    /\ LET id == Head(control[s])[1]
           t == Head(control[s])[2]
       IN IF recvMap[id] = None
          THEN /\ bound' = [bound EXCEPT ![s][id] = t]
               /\ recvMap' = [recvMap EXCEPT ![id] = s]
               /\ UNCHANGED lpc
          ELSE /\ lpc' = [lpc EXCEPT ![s] = <<"clean", 0>>]
               /\ UNCHANGED <<bound, recvMap>>
    /\ UNCHANGED <<sendVars, stream, dgrams, closed, worker, dgVars, queue, delivered>>

\* The closer fired or the control stream has ended.
ListenerEnds(s) ==
    /\ lpc[s] = <<"read", 0>>
    /\ closed[s] \/ (session[s] = "dropped" /\ control[s] = <<>>)
    /\ lpc' = [lpc EXCEPT ![s] = <<"clean", 0>>]
    /\ UNCHANGED <<sendVars, linkVars, recvMap, bound, closed, worker, dgVars, queue,
                   delivered>>

\* clean(): each id leaves the receiver, then the shared map if it is still ours.
CleanUnbind(s) ==
    /\ lpc[s] = <<"clean", 0>>
    /\ \E id \in Ids :
         /\ bound[s][id] # None
         /\ bound' = [bound EXCEPT ![s][id] = None]
         /\ lpc' = [lpc EXCEPT ![s] = <<"unmap", id>>]
    /\ UNCHANGED <<sendVars, linkVars, recvMap, closed, worker, dgVars, queue, delivered>>

\* Mutant: the shared map keeps the id.
CleanKeepsMap(s) ==
    /\ lpc[s][1] = "unmap"
    /\ lpc' = [lpc EXCEPT ![s] = <<"clean", 0>>]
    /\ UNCHANGED <<sendVars, linkVars, recvMap, bound, closed, worker, dgVars, queue,
                   delivered>>

CleanUnmap(s) ==
    /\ lpc[s][1] = "unmap"
    /\ recvMap' = [recvMap EXCEPT ![lpc[s][2]] = IF @ = s THEN None ELSE @]
    /\ lpc' = [lpc EXCEPT ![s] = <<"clean", 0>>]
    /\ UNCHANGED <<sendVars, linkVars, bound, closed, worker, dgVars, queue, delivered>>

CleanDone(s) ==
    /\ lpc[s] = <<"clean", 0>>
    /\ \A id \in Ids : bound[s][id] = None
    /\ lpc' = [lpc EXCEPT ![s] = <<"done", 0>>]
    /\ closed' = [closed EXCEPT ![s] = TRUE]
    /\ UNCHANGED <<sendVars, linkVars, recvMap, bound, worker, dgVars, queue, delivered>>

\* The relay that uses the session ends and closes it.
RelayCloses(s) ==
    /\ session[s] \in {"open", "dropped"} /\ ~closed[s]
    /\ closed' = [closed EXCEPT ![s] = TRUE]
    /\ UNCHANGED <<sendVars, linkVars, recvMap, bound, lpc, worker, dgVars, queue,
                   delivered>>

\* recv_from and recv_many.
Receive(s) ==
    /\ queue[s] # <<>>
    /\ queue' = [queue EXCEPT ![s] = Tail(@)]
    /\ delivered' = [delivered EXCEPT ![s] = Append(@, Head(queue[s]))]
    /\ UNCHANGED <<sendVars, linkVars, bindVars, worker, dgVars>>

-----------------------------------------------------------------------------
(* start_unistream_listener and run_unistream_worker *)

SetWorker(id, pc) == worker' = [worker EXCEPT ![id].pc = pc]
StopStream(id) == stream' = [stream EXCEPT ![id] = [st |-> "stopped", data |-> <<>>]]

\* Mutant: a stream that comes before its binding is not waited for.
AcceptUniBoundOnly(id) ==
    /\ stream[id].st \in {"open", "finished"} /\ worker[id].pc = "none"
    /\ IF recvMap[id] = None
       THEN SetWorker(id, "done") /\ StopStream(id)
       ELSE SetWorker(id, "wait") /\ UNCHANGED stream
    /\ UNCHANGED <<sendVars, control, dgrams, bindVars, dgVars, queue, delivered>>

\* A stream arrives and its id is read.
AcceptUni(id) ==
    /\ stream[id].st \in {"open", "finished"} /\ worker[id].pc = "none"
    /\ SetWorker(id, "wait")
    /\ UNCHANGED <<sendVars, linkVars, bindVars, dgVars, queue, delivered>>

\* get_receiver: wait_until returns once the id is bound ...
UniReceiver(id) ==
    /\ worker[id].pc = "wait" /\ recvMap[id] # None
    /\ worker' = [worker EXCEPT ![id].pc = "found", ![id].s = recvMap[id]]
    /\ UNCHANGED <<sendVars, linkVars, bindVars, dgVars, queue, delivered>>

\* ... or its timeout ends it.
UniTimeout(id) ==
    /\ worker[id].pc = "wait"
    /\ SetWorker(id, "expired") /\ StopStream(id)
    /\ UNCHANGED <<sendVars, control, dgrams, bindVars, dgVars, queue, delivered>>

\* The worker starts with the target of its id, unless the binding is gone
\* again; then the stream is dropped, which stops it.
RunWorker(id) ==
    /\ worker[id].pc = "found"
    /\ LET t == bound[worker[id].s][id] IN
       \/ /\ t # None
          /\ worker' = [worker EXCEPT ![id].pc = "run", ![id].t = t]
          /\ UNCHANGED stream
       \/ t = None /\ SetWorker(id, "done") /\ StopStream(id)
    /\ UNCHANGED <<sendVars, control, dgrams, bindVars, dgVars, queue, delivered>>

WorkerDeliver(id) ==
    /\ worker[id].pc = "run" /\ stream[id].data # <<>>
    /\ Len(queue[worker[id].s]) < UDP_RECEIVE_QUEUE_CAPACITY
    /\ queue' = [queue EXCEPT ![worker[id].s] =
                   Append(@, <<worker[id].t, Head(stream[id].data)>>)]
    /\ stream' = [stream EXCEPT ![id].data = Tail(@)]
    /\ UNCHANGED <<sendVars, control, dgrams, bindVars, worker, dgVars, delivered>>

\* The closer fired or the stream has ended: the stream is stopped, and the id
\* leaves the receiver, then the map; the last one closes the session.
WorkerEnds(id) ==
    /\ worker[id].pc = "run"
    /\ closed[worker[id].s] \/ (stream[id].st = "finished" /\ stream[id].data = <<>>)
    /\ SetWorker(id, "unbind") /\ StopStream(id)
    /\ UNCHANGED <<sendVars, control, dgrams, bindVars, dgVars, queue, delivered>>

WorkerUnbind(id) ==
    /\ worker[id].pc = "unbind"
    /\ bound' = [bound EXCEPT ![worker[id].s][id] = None]
    /\ SetWorker(id, "unmap")
    /\ UNCHANGED <<sendVars, linkVars, recvMap, closed, lpc, dgVars, queue, delivered>>

WorkerUnmap(id) ==
    /\ worker[id].pc = "unmap"
    /\ recvMap' = [recvMap EXCEPT ![id] = IF @ = worker[id].s THEN None ELSE @]
    /\ SetWorker(id, "last")
    /\ UNCHANGED <<sendVars, linkVars, bound, closed, lpc, dgVars, queue, delivered>>

WorkerLast(id) ==
    /\ worker[id].pc = "last"
    /\ LET s == worker[id].s IN
       closed' = [closed EXCEPT ![s] = @ \/ \A j \in Ids : bound[s][j] = None]
    /\ SetWorker(id, "done")
    /\ UNCHANGED <<sendVars, linkVars, recvMap, bound, lpc, dgVars, queue, delivered>>

-----------------------------------------------------------------------------
(* start_datagram_loop, handle_datagram and the handlers it spawns *)

\* feed_datagram: a full queue drops the packet.
Feed(s, id, p) ==
    queue' = IF bound[s][id] # None /\ Len(queue[s]) < UDP_RECEIVE_QUEUE_CAPACITY
             THEN [queue EXCEPT ![s] = Append(@, <<bound[s][id], p>>)] ELSE queue

LoseDatagram ==
    /\ \E d \in dgrams : dgrams' = dgrams \ {d}
    /\ UNCHANGED <<sendVars, control, stream, bindVars, worker, dgVars, queue, delivered>>

\* A datagram arrives, in any order; its id is looked up.
ReadDatagram ==
    /\ loop.pc = "read"
    /\ \E d \in dgrams :
         /\ dgrams' = dgrams \ {d}
         /\ loop' = [pc |-> IF recvMap[d[1]] = None THEN "buffer" ELSE "feed",
                     id |-> d[1], p |-> d[2], s |-> recvMap[d[1]]]
    /\ UNCHANGED <<sendVars, control, stream, bindVars, worker, handler, waiting, queue,
                   delivered>>

FeedDatagram ==
    /\ loop.pc = "feed"
    /\ Feed(loop.s, loop.id, loop.p)
    /\ loop' = LoopIdle
    /\ UNCHANGED <<sendVars, linkVars, bindVars, worker, handler, waiting, delivered>>

Buffers == {id \in Ids : handler[id].pc # "none"}

\* The packet enters the buffer of its id, if there is room.
IntoBuffer ==
    /\ waiting' = IF Len(waiting[loop.id]) < WAITING_DATAGRAM_QUEUE_CAPACITY
                  THEN [waiting EXCEPT ![loop.id] = Append(@, loop.p)] ELSE waiting
    /\ handler' = IF loop.id \in Buffers THEN handler
                  ELSE [handler EXCEPT ![loop.id] = [pc |-> "wait", s |-> None]]

\* Mutant: any number of contexts may wait.
BufferAnyContext ==
    /\ loop.pc = "buffer"
    /\ IntoBuffer
    /\ loop' = LoopIdle
    /\ UNCHANGED <<sendVars, linkVars, bindVars, worker, queue, delivered>>

\* A packet of an id without a receiver waits in the id's buffer; the first
\* one makes the buffer and its handler.
BufferDatagram ==
    /\ loop.pc = "buffer"
    /\ \/ /\ loop.id \in Buffers \/ Cardinality(Buffers) < MAX_WAITING_DATAGRAM_CONTEXTS
          /\ IntoBuffer
       \/ /\ loop.id \notin Buffers
          /\ Cardinality(Buffers) >= MAX_WAITING_DATAGRAM_CONTEXTS
          /\ UNCHANGED <<waiting, handler>>
    /\ loop' = LoopIdle
    /\ UNCHANGED <<sendVars, linkVars, bindVars, worker, queue, delivered>>

HandlerReceiver(id) ==
    /\ handler[id].pc = "wait" /\ recvMap[id] # None
    /\ handler' = [handler EXCEPT ![id] = [pc |-> "run", s |-> recvMap[id]]]
    /\ UNCHANGED <<sendVars, linkVars, bindVars, worker, loop, waiting, queue, delivered>>

HandlerTimeout(id) ==
    /\ handler[id].pc = "wait"
    /\ handler' = [handler EXCEPT ![id].pc = "end"]
    /\ UNCHANGED <<sendVars, linkVars, bindVars, worker, loop, waiting, queue, delivered>>

\* A buffered packet is fed; that fails, and ends the handler, once the
\* binding is gone.
HandlerFeed(id) ==
    /\ handler[id].pc = "run" /\ waiting[id] # <<>>
    /\ waiting' = [waiting EXCEPT ![id] = Tail(@)]
    /\ Feed(handler[id].s, id, Head(waiting[id]))
    /\ handler' = IF bound[handler[id].s][id] = None
                  THEN [handler EXCEPT ![id].pc = "end"] ELSE handler
    /\ UNCHANGED <<sendVars, linkVars, bindVars, worker, loop, delivered>>

HandlerCloses(id) ==
    /\ handler[id].pc = "run" /\ closed[handler[id].s]
    /\ handler' = [handler EXCEPT ![id].pc = "end"]
    /\ UNCHANGED <<sendVars, linkVars, bindVars, worker, loop, waiting, queue, delivered>>

\* The buffer goes, with what it still holds.
HandlerEnds(id) ==
    /\ handler[id].pc = "end"
    /\ handler' = [handler EXCEPT ![id] = [pc |-> "none", s |-> None]]
    /\ waiting' = [waiting EXCEPT ![id] = <<>>]
    /\ UNCHANGED <<sendVars, linkVars, bindVars, worker, loop, queue, delivered>>

-----------------------------------------------------------------------------
SendSide(s) ==
    \/ GetSendContextId(s) \/ Announce(s) \/ OpenUni(s) \/ Write(s) \/ WriteStopped(s)

Listener(s) ==
    Bind(s) \/ ListenerEnds(s) \/ CleanUnbind(s) \/ CleanUnmap(s) \/ CleanDone(s)

Worker(id) ==
    \/ AcceptUni(id) \/ UniReceiver(id) \/ RunWorker(id)
    \/ WorkerDeliver(id) \/ WorkerEnds(id) \/ WorkerUnbind(id) \/ WorkerUnmap(id)
    \/ WorkerLast(id)

DatagramLoop == ReadDatagram \/ FeedDatagram \/ BufferDatagram

Handler(id) ==
    \/ HandlerReceiver(id) \/ HandlerFeed(id) \/ HandlerCloses(id) \/ HandlerEnds(id)

Timeout(id) == UniTimeout(id) \/ HandlerTimeout(id)

\* Every session is over and nothing is under way.
Ended ==
    /\ \A s \in Sessions :
         /\ session[s] \in {"dropped", "refused"}
         /\ session[s] = "dropped" => closed[s] /\ lpc[s] = <<"done", 0>>
         /\ queue[s] = <<>>
    /\ \A id \in Ids :
         /\ \/ worker[id].pc \in {"done", "expired"}
            \/ worker[id].pc = "none" /\ stream[id].st = "none"
         /\ handler[id].pc = "none"
    /\ dgrams = {} /\ loop = LoopIdle
    /\ UNCHANGED vars

Next ==
    \/ \E s \in Sessions :
         \/ OpenSession(s) \/ (\E t \in Targets : SendTo(s, t)) \/ SendSide(s)
         \/ DropSession(s) \/ Listener(s) \/ RelayCloses(s) \/ Receive(s)
    \/ \E id \in Ids : Worker(id) \/ Handler(id) \/ Timeout(id)
    \/ LoseDatagram
    \/ DatagramLoop
    \/ Ended

Spec == Init /\ [][Next]_vars

\* The runtime polls every ready task, a relay receives what has arrived, and
\* QUIC delivers what its streams carry.  No timeout is relied on.
FairSpec ==
    /\ Spec
    /\ \A s \in Sessions : WF_vars(Listener(s)) /\ WF_vars(Receive(s))
    /\ \A id \in Ids : WF_vars(Worker(id)) /\ WF_vars(Handler(id))
    /\ WF_vars(DatagramLoop)

-----------------------------------------------------------------------------
(* Properties *)

Arrived(s) == delivered[s] \o queue[s]

\* A packet reaches the session it was sent in, under the target it was sent
\* to, and once, although streams and datagrams overtake the announcement of
\* their id, buffers outlive bindings and senders are rebuilt.
RightReceiver ==
    \A s \in Sessions : \A i \in DOMAIN Arrived(s) :
        LET a == Arrived(s)[i] IN
        /\ a[2].s = s /\ a[2].t = a[1] /\ a[2].n <= sent[s][a[1]]
        /\ \A j \in DOMAIN Arrived(s) : Arrived(s)[j] = a => i = j

\* Over streams the packets of a target arrive in the order they were sent,
\* across a rebuilt sender too, and none is missing as long as the receiving
\* end has stopped no stream.
StreamOrder ==
    OverStream => \A s \in Sessions : \A i \in DOMAIN Arrived(s) :
        LET a == Arrived(s)[i] IN
        /\ \A j \in 1 .. i - 1 : Arrived(s)[j][1] = a[1] => Arrived(s)[j][2].n < a[2].n
        /\ (\A id \in Ids : stream[id].st # "stopped") =>
             \A m \in 1 .. a[2].n - 1 :
                 \E j \in 1 .. i - 1 : Arrived(s)[j] = <<a[1], [a[2] EXCEPT !.n = m]>>

\* No more than MAX_WAITING_DATAGRAM_CONTEXTS ids have a buffer, and a packet
\* waits only in one: a buffer that is gone has left nothing behind.
BoundedWaiting ==
    /\ Cardinality(Buffers) <= MAX_WAITING_DATAGRAM_CONTEXTS
    /\ \A id \in Ids : waiting[id] # <<>> => id \in Buffers

\* A session that was closed lets go of everything: its ids leave the shared
\* map, and its listener, stream workers and buffer handlers end.
ClosedIsReleased ==
    \A s \in Sessions :
        closed[s] ~> /\ lpc[s] = <<"done", 0>>
                     /\ \A id \in Ids :
                          /\ recvMap[id] # s
                          /\ worker[id].s = s => worker[id].pc = "done"
                          /\ handler[id].s # s

\* A packet that a stream session accepted arrives, although its stream may
\* overtake the announcement of its id, unless the session is closed or dropped
\* first or the wait for a binding runs into its timeout.
StreamPacketArrives ==
    \A s \in Sessions, t \in Targets, n \in 1 .. MaxSent :
        OverStream /\ sent[s][t] >= n
            ~> \/ closed[s] \/ session[s] = "dropped"
               \/ \E id \in Ids : worker[id].pc = "expired"
               \/ \E i \in DOMAIN delivered[s] :
                     delivered[s][i] = <<t, [s |-> s, t |-> t, n |-> n]>>

\* The queues keep their bounds and the packets of a stream session their order.
StreamSound == TypeOK /\ StreamOrder

\* A stream session delivers every packet it accepted, in order.
StreamDelivers == []StreamSound /\ StreamPacketArrives
=============================================================================
