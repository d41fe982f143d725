--------------------------- MODULE AnytlsSession ---------------------------
(***************************************************************************)
(* One client-side AnyTLS session: a TLS connection that multiplexes       *)
(* streams.  Four kinds of task share it, and they interleave here:        *)
(*   - connect_stream / connect_packet calls, which allocate an id,        *)
(*     register the stream and queue SYN, target and (UDP) UoT request;    *)
(*   - the relays that read, write, shut down and drop stream handles;     *)
(*   - the write loop, which drains the session queue to the wire;         *)
(*   - the read loop, which routes frames to bounded per-stream queues.    *)
(* The interface watcher (or the drop of the client) may finish the        *)
(* session at any moment.                                                  *)
(*                                                                         *)
(* A payload is its position in its stream: 1, 2, 3 ... in each direction. *)
(***************************************************************************)
EXTENDS AnytlsProto

CONSTANTS
    UdpStreams,              \* those opened by connect_packet
    SESSION_QUEUE_CAPACITY,  \* frames the write queue holds
    STREAM_QUEUE_CAPACITY,   \* events each stream's queue holds
    CloseWhenIdle,           \* close_when_idle: the outbound disables multiplexing
    MaxUp,                   \* bound: payloads a relay writes per stream
    OutsideFinishes          \* bound: whether finish() is called from outside

ASSUME SessionAssumption ==
    /\ UdpStreams \subseteq Streams
    /\ SESSION_QUEUE_CAPACITY \in Nat \ {0}
    /\ STREAM_QUEUE_CAPACITY \in Nat \ {0}
    /\ CloseWhenIdle \in BOOLEAN
    /\ MaxUp \in Nat
    /\ OutsideFinishes \in BOOLEAN

VARIABLES
    closed,     \* is_dead and the closer: finish() sets both, nothing resets them
    streams,    \* ids with a sender in the streams map
    events,     \* each stream's bounded event queue
    handle,     \* how far the call that owns the stream has come
    reader,     \* what poll_read has reported: data so far, EOF or an error
    got,        \* payloads handed to the relay (history)
    wrote,      \* payloads accepted from the relay (history)
    finSent,    \* fin_sent of the handle
    writeQ,     \* the session's write channel
    rxOpen,     \* write_rx is alive
    buffering,  \* write loop: no PSH seen yet
    buffer,     \* write loop: frames not yet written
    wpc,        \* where the write task is
    rpc,        \* where the read task is
    rcur,       \* the PSH the read task is delivering
    xpc,        \* where the task that finishes the session from outside is
    wireOut,    \* frames written to the TLS connection
    wireIn,     \* frames that have arrived on it
    broken      \* the TLS connection has failed

callVars  == <<handle, reader, got, wrote, finSent>>
mapVars   == <<closed, streams, events>>
writeVars == <<buffering, buffer, wpc, rxOpen, writeQ>>
readVars  == <<rpc, rcur>>
wireVars  == <<wireOut, wireIn, broken>>
clientVars == <<closed, streams, events, handle, reader, got, wrote, finSent,
                writeQ, rxOpen, buffering, buffer, wpc, rpc, rcur, xpc>>
vars == <<closed, streams, events, handle, reader, got, wrote, finSent,
          writeQ, rxOpen, buffering, buffer, wpc, rpc, rcur, xpc,
          wireOut, wireIn, broken>>

-----------------------------------------------------------------------------
(* Events *)

StreamEvent == [ev : {"Data", "Fin", "SynAckError"}, n : Nat]

Data(n)     == [ev |-> "Data", n |-> n]
Fin         == [ev |-> "Fin", n |-> 0]
SynAckError == [ev |-> "SynAckError", n |-> 0]

\* tx.try_send(e) on a stream queue: dropped when the queue is full.
TryPush(q, e) == IF Len(q) < STREAM_QUEUE_CAPACITY THEN Append(q, e) ELSE q

\* try_send on the session queue: dropped when it is full or its receiver gone.
TrySend(q, f) ==
    IF rxOpen /\ Len(q) < SESSION_QUEUE_CAPACITY THEN Append(q, f) ELSE q

\* send().await and poll_reserve proceed only when this holds.
Room == rxOpen /\ Len(writeQ) < SESSION_QUEUE_CAPACITY

\* Session::new: authentication is done and the settings frame is queued
\* before the two loops start.
Init ==
    /\ closed = FALSE
    /\ streams = {}
    /\ events = [s \in Streams |-> <<>>]
    /\ handle = [s \in Streams |-> "none"]
    /\ reader = [s \in Streams |-> "reading"]
    /\ got = [s \in Streams |-> <<>>]
    /\ wrote = [s \in Streams |-> 0]
    /\ finSent = [s \in Streams |-> FALSE]
    /\ writeQ = << MkFrame("Settings", 0, 0) >>
    /\ rxOpen = TRUE
    /\ buffering = TRUE
    /\ buffer = <<>>
    /\ wpc = "recv"
    /\ rpc = "read"
    /\ rcur = NoFrame
    /\ xpc = "idle"
    /\ wireOut = <<>>
    /\ wireIn = <<>>
    /\ broken = FALSE

-----------------------------------------------------------------------------
(* connect_stream and connect_packet *)

\* next_stream_id and register_stream.  get_session found the session alive
\* at some earlier moment: it may be closed by now.  A session that disables
\* multiplexing is made for one call.  Ids come from a counter: the smallest
\* one that is left is registered next.
Register(s) ==
    /\ handle[s] = "none"
    /\ \A t \in Streams : t < s => handle[t] # "none"
    /\ CloseWhenIdle => \A t \in Streams : handle[t] = "none"
    /\ handle' = [handle EXCEPT ![s] = "registered"]
    /\ streams' = streams \cup {s}
    /\ UNCHANGED <<closed, events, reader, got, wrote, finSent, writeVars,
                   readVars, xpc, wireVars>>

\* write_tx.send((id, Syn, ..)).await
SendSyn(s) ==
    /\ handle[s] = "registered"
    /\ Room
    /\ writeQ' = Append(writeQ, MkFrame("Syn", s, 0))
    /\ handle' = [handle EXCEPT ![s] = "synned"]
    /\ UNCHANGED <<mapVars, reader, got, wrote, finSent, rxOpen, buffering,
                   buffer, wpc, readVars, xpc, wireVars>>

\* write_tx.send((id, Psh, target)).await; connect_packet still owes the UoT
\* request, connect_stream returns the handle.
SendTarget(s) ==
    /\ handle[s] = "synned"
    /\ Room
    /\ writeQ' = Append(writeQ, MkFrame("Psh", s, Header))
    /\ handle' = [handle EXCEPT ![s] = IF s \in UdpStreams THEN "uot" ELSE "open"]
    /\ UNCHANGED <<mapVars, reader, got, wrote, finSent, rxOpen, buffering,
                   buffer, wpc, readVars, xpc, wireVars>>

\* connect_packet: the UoT request, then the socket is returned.
SendUotRequest(s) ==
    /\ handle[s] = "uot"
    /\ Room
    /\ writeQ' = Append(writeQ, MkFrame("Psh", s, Header))
    /\ handle' = [handle EXCEPT ![s] = "open"]
    /\ UNCHANGED <<mapVars, reader, got, wrote, finSent, rxOpen, buffering,
                   buffer, wpc, readVars, xpc, wireVars>>

\* A send fails because the write loop has dropped its receiver, or the
\* caller's timeout drops the future at one of its awaits.  The event receiver
\* goes with it; the map entry stays and no FIN is queued.
ConnectFails(s) ==
    /\ handle[s] \in {"registered", "synned", "uot"}
    /\ handle' = [handle EXCEPT ![s] = "failed"]
    /\ events' = [events EXCEPT ![s] = <<>>]
    /\ UNCHANGED <<closed, streams, reader, got, wrote, finSent, writeVars,
                   readVars, xpc, wireVars>>

-----------------------------------------------------------------------------
(* The stream handle: AnytlsProxyStream and AnytlsUdpSocket *)

ReceiverAlive(s) == handle[s] \notin {"dropped", "failed"}

\* A sender exists in the map, or the read task holds a clone of it.
SenderAlive(s) == s \in streams \/ (rpc = "push" /\ rcur.sid = s)

\* poll_read / read_next_msg takes the next event of the queue.
Read(s) ==
    /\ handle[s] = "open" /\ reader[s] = "reading"
    /\ events[s] # <<>>
    /\ events' = [events EXCEPT ![s] = Tail(@)]
    /\ LET e == Head(events[s]) IN
       /\ got' = [got EXCEPT ![s] = IF e.ev = "Data" THEN Append(@, e.n) ELSE @]
       /\ reader' = [reader EXCEPT ![s] =
                        CASE e.ev = "Data" -> "reading"
                          [] e.ev = "Fin" -> "eof"
                          [] e.ev = "SynAckError" -> "error"]
    /\ UNCHANGED <<closed, streams, handle, wrote, finSent, writeVars,
                   readVars, xpc, wireVars>>

\* recv() returns None: the queue is empty and no sender is left.
ReadEnd(s) ==
    /\ handle[s] = "open" /\ reader[s] = "reading"
    /\ events[s] = <<>>
    /\ ~SenderAlive(s)
    /\ reader' = [reader EXCEPT ![s] = "eof"]
    /\ UNCHANGED <<mapVars, handle, got, wrote, finSent, writeVars,
                   readVars, xpc, wireVars>>

\* poll_write / send_to.
Write(s) ==
    /\ handle[s] = "open" /\ ~finSent[s]
    /\ wrote[s] < MaxUp
    /\ Room
    /\ wrote' = [wrote EXCEPT ![s] = @ + 1]
    /\ writeQ' = Append(writeQ, MkFrame("Psh", s, wrote[s] + 1))
    /\ UNCHANGED <<mapVars, handle, reader, got, finSent, rxOpen, buffering,
                   buffer, wpc, readVars, xpc, wireVars>>

\* poll_shutdown of a TCP stream; a UDP socket has none.
Shutdown(s) ==
    /\ handle[s] = "open" /\ s \notin UdpStreams
    /\ ~finSent[s]
    /\ Room
    /\ finSent' = [finSent EXCEPT ![s] = TRUE]
    /\ writeQ' = Append(writeQ, MkFrame("Fin", s, 0))
    /\ UNCHANGED <<mapVars, handle, reader, got, wrote, rxOpen, buffering,
                   buffer, wpc, readVars, xpc, wireVars>>

\* Mutant: the FIN of a stream that poll_shutdown has ended is sent again.
DropFinTwice(s) ==
    /\ handle[s] = "open"
    /\ handle' = [handle EXCEPT ![s] = "dropped"]
    /\ writeQ' = TrySend(writeQ, MkFrame("Fin", s, 0))
    /\ streams' = streams \ {s}
    /\ closed' = (closed \/ (CloseWhenIdle /\ streams \ {s} = {}))
    /\ events' = [events EXCEPT ![s] = <<>>]
    /\ UNCHANGED <<reader, got, wrote, finSent, rxOpen, buffering, buffer, wpc,
                   readVars, xpc, wireVars>>

\* Drop: a best-effort FIN, then unregister_stream, which finishes a session
\* that does not multiplex once its stream is gone.  The handle's own fields
\* and its receiver go with it.
Drop(s) ==
    /\ handle[s] = "open"
    /\ handle' = [handle EXCEPT ![s] = "dropped"]
    /\ writeQ' = IF finSent[s] THEN writeQ
                 ELSE TrySend(writeQ, MkFrame("Fin", s, 0))
    /\ streams' = streams \ {s}
    /\ closed' = (closed \/ (CloseWhenIdle /\ streams \ {s} = {}))
    /\ events' = [events EXCEPT ![s] = <<>>]
    /\ reader' = [reader EXCEPT ![s] = "reading"]
    /\ got' = [got EXCEPT ![s] = <<>>]
    /\ wrote' = [wrote EXCEPT ![s] = 0]
    /\ finSent' = [finSent EXCEPT ![s] = FALSE]
    /\ UNCHANGED <<rxOpen, buffering, buffer, wpc, readVars, xpc, wireVars>>

-----------------------------------------------------------------------------
(* write_loop and the task around it *)

\* recv() yields the next frame; once a PSH has been seen the loop also takes
\* what else is queued, up to SESSION_WRITE_BATCH_BYTES.
TakeFrames ==
    /\ wpc = "recv"
    /\ writeQ # <<>>
    /\ IF buffering /\ Head(writeQ).cmd # "Psh"
       THEN /\ buffer' = Append(buffer, Head(writeQ))
            /\ writeQ' = Tail(writeQ)
            /\ UNCHANGED <<buffering, wpc>>
       ELSE \E k \in 1 .. Len(writeQ) :
            /\ buffer' = buffer \o SubSeq(writeQ, 1, k)
            /\ writeQ' = SubSeq(writeQ, k + 1, Len(writeQ))
            /\ buffering' = FALSE
            /\ wpc' = "flush"
    /\ UNCHANGED <<mapVars, callVars, rxOpen, readVars, xpc, wireVars>>

\* write_with_padding succeeds.  On a failed connection the kernel may still
\* accept the bytes; they never arrive.
Flush ==
    /\ wpc = "flush"
    /\ wireOut' = IF broken THEN wireOut ELSE wireOut \o buffer
    /\ buffer' = <<>>
    /\ wpc' = "recv"
    /\ UNCHANGED <<mapVars, callVars, writeQ, rxOpen, buffering, readVars,
                   xpc, wireIn, broken>>

\* Mutant: the receiver outlives the loop.
WriteBreakKeepsRx ==
    /\ \/ wpc = "recv" /\ closed
       \/ wpc = "flush" /\ broken
    /\ wpc' = "finish"
    /\ UNCHANGED <<mapVars, callVars, buffering, buffer, rxOpen, writeQ,
                   readVars, xpc, wireVars>>

\* The loop breaks: the closer fired while it waited for a frame, or the
\* connection failed under a write.  write_rx and the buffer go with it.  (A payload
\* too long for a frame, which only a UoT packet can be, is left out.)
WriteBreak ==
    /\ \/ wpc = "recv" /\ closed
       \/ wpc = "flush" /\ broken
    /\ wpc' = "finish"
    /\ rxOpen' = FALSE
    /\ writeQ' = <<>>
    /\ buffer' = <<>>
    /\ UNCHANGED <<mapVars, callVars, buffering, readVars, xpc, wireVars>>

\* finish() after the loop: mark and signal, then clear the map.
WriteFinish ==
    /\ wpc = "finish"
    /\ closed' = TRUE
    /\ wpc' = "clear"
    /\ UNCHANGED <<streams, events, callVars, writeQ, rxOpen, buffering, buffer,
                   readVars, xpc, wireVars>>

WriteClear ==
    /\ wpc = "clear"
    /\ streams' = {}
    /\ wpc' = "done"
    /\ UNCHANGED <<closed, events, callVars, writeQ, rxOpen, buffering, buffer,
                   readVars, xpc, wireVars>>

-----------------------------------------------------------------------------
(* read_loop and the task around it *)

\* Removing a stream's sender after a best-effort last event.
EndStreams(S, e) ==
    /\ streams' = streams \ S
    /\ events' = [s \in Streams |->
                    IF s \in S \cap streams /\ ReceiverAlive(s)
                    THEN TryPush(events[s], e) ELSE events[s]]

\* A frame arrives.  Only a PSH for a known stream makes the loop wait.
ReadFrame ==
    /\ rpc = "read"
    /\ wireIn # <<>>
    /\ LET f == Head(wireIn) IN
       /\ CASE f.cmd = "Psh" -> UNCHANGED <<streams, events, writeQ>>
            [] f.cmd = "Fin" -> EndStreams({f.sid}, Fin) /\ UNCHANGED writeQ
            [] f.cmd = "SynAck" /\ f.n # 0 -> EndStreams({f.sid}, SynAckError) /\ UNCHANGED writeQ
            [] f.cmd = "Alert" -> EndStreams(streams, SynAckError) /\ UNCHANGED writeQ
            [] f.cmd = "HeartRequest" ->
                 /\ writeQ' = TrySend(writeQ, MkFrame("HeartResponse", 0, 0))
                 /\ UNCHANGED <<streams, events>>
            [] OTHER -> UNCHANGED <<streams, events, writeQ>>
       /\ wireIn' = IF f.cmd = "Alert" THEN <<>> ELSE Tail(wireIn)
       /\ rcur' = IF f.cmd = "Psh" /\ f.sid \in streams THEN f ELSE NoFrame
       /\ rpc' = CASE f.cmd = "Psh" /\ f.sid \in streams -> "push"
                   [] f.cmd = "Alert" -> "finish"
                   [] OTHER -> "read"
    /\ UNCHANGED <<closed, callVars, rxOpen, buffering, buffer, wpc, xpc,
                   wireOut, broken>>

\* Mutant: the data is sent with try_send and lost when the queue is full.
PushDataLossy ==
    /\ rpc = "push"
    /\ IF ReceiverAlive(rcur.sid)
       THEN /\ events' = [events EXCEPT ![rcur.sid] = TryPush(@, Data(rcur.n))]
            /\ UNCHANGED streams
       ELSE /\ streams' = streams \ {rcur.sid}
            /\ UNCHANGED events
    /\ rpc' = "read"
    /\ rcur' = NoFrame
    /\ UNCHANGED <<closed, callVars, writeVars, xpc, wireVars>>

\* Mutant: the queue of a stream has no bound.
PushDataUnbounded ==
    /\ rpc = "push"
    /\ IF ReceiverAlive(rcur.sid)
       THEN /\ events' = [events EXCEPT ![rcur.sid] = Append(@, Data(rcur.n))]
            /\ UNCHANGED streams
       ELSE /\ streams' = streams \ {rcur.sid}
            /\ UNCHANGED events
    /\ rpc' = "read"
    /\ rcur' = NoFrame
    /\ UNCHANGED <<closed, callVars, writeVars, xpc, wireVars>>

\* tx.send(Data).await: waits for room, not for the closer; a dropped
\* receiver makes it fail, and the entry is removed.
PushData ==
    /\ rpc = "push"
    /\ IF ReceiverAlive(rcur.sid)
       THEN /\ Len(events[rcur.sid]) < STREAM_QUEUE_CAPACITY
            /\ events' = [events EXCEPT ![rcur.sid] = Append(@, Data(rcur.n))]
            /\ UNCHANGED streams
       ELSE /\ streams' = streams \ {rcur.sid}
            /\ UNCHANGED events
    /\ rpc' = "read"
    /\ rcur' = NoFrame
    /\ UNCHANGED <<closed, callVars, writeVars, xpc, wireVars>>

\* Mutant: the loop does not watch the closer.
ReadBreakOnErrorOnly ==
    /\ rpc = "read"
    /\ broken
    /\ rpc' = "finish"
    /\ wireIn' = <<>>
    /\ UNCHANGED <<mapVars, callVars, writeVars, rcur, xpc, wireOut, broken>>

\* The loop returns: the closer fired, or reading failed.  What has arrived
\* and was not read is lost with the loop's half of the connection.
ReadBreak ==
    /\ rpc = "read"
    /\ closed \/ broken
    /\ rpc' = "finish"
    /\ wireIn' = <<>>
    /\ UNCHANGED <<mapVars, callVars, writeVars, rcur, xpc, wireOut, broken>>

ReadFinish ==
    /\ rpc = "finish"
    /\ closed' = TRUE
    /\ rpc' = "clear"
    /\ UNCHANGED <<streams, events, callVars, writeVars, rcur, xpc, wireVars>>

ReadClear ==
    /\ rpc = "clear"
    /\ streams' = {}
    /\ rpc' = "done"
    /\ UNCHANGED <<closed, events, callVars, writeVars, rcur, xpc, wireVars>>

-----------------------------------------------------------------------------
(* finish() from outside: the interface watcher, or Drop for AnytlsClient *)

OutsideFinish ==
    /\ OutsideFinishes /\ xpc = "idle"
    /\ closed' = TRUE
    /\ xpc' = "clear"
    /\ UNCHANGED <<streams, events, callVars, writeVars, readVars, wireVars>>

OutsideClear ==
    /\ xpc = "clear"
    /\ streams' = {}
    /\ xpc' = "done"
    /\ UNCHANGED <<closed, events, callVars, writeVars, readVars, wireVars>>

-----------------------------------------------------------------------------
Connect(s) == \/ Register(s) \/ SendSyn(s) \/ SendTarget(s)
              \/ SendUotRequest(s) \/ ConnectFails(s)

Relay(s) == Read(s) \/ ReadEnd(s) \/ Write(s) \/ Shutdown(s) \/ Drop(s)

WriteTask == TakeFrames \/ Flush \/ WriteBreak \/ WriteFinish \/ WriteClear

ReadTask == ReadFrame \/ PushData \/ ReadBreak \/ ReadFinish \/ ReadClear

ClientNext ==
    \/ \E s \in Streams : Connect(s) \/ Relay(s)
    \/ WriteTask
    \/ ReadTask
    \/ OutsideFinish
    \/ OutsideClear

TypeOK ==
    /\ closed \in BOOLEAN
    /\ streams \subseteq Streams
    /\ events \in [Streams -> Seq(StreamEvent)]
    /\ \A s \in Streams : Len(events[s]) <= STREAM_QUEUE_CAPACITY
    /\ handle \in [Streams -> {"none", "registered", "synned", "uot", "open",
                               "failed", "dropped"}]
    /\ reader \in [Streams -> {"reading", "eof", "error"}]
    /\ got \in [Streams -> Seq(Nat)]
    /\ wrote \in [Streams -> Nat]
    /\ finSent \in [Streams -> BOOLEAN]
    /\ writeQ \in Seq(Frame)
    /\ Len(writeQ) <= SESSION_QUEUE_CAPACITY
    /\ rxOpen \in BOOLEAN
    /\ buffering \in BOOLEAN
    /\ buffer \in Seq(Frame)
    /\ wpc \in {"recv", "flush", "finish", "clear", "done"}
    /\ rpc \in {"read", "push", "finish", "clear", "done"}
    /\ rcur \in Frame
    /\ rpc = "push" => rcur.sid \in Streams
    /\ xpc \in {"idle", "clear", "done"}
    /\ wireOut \in Seq(Frame)
    /\ wireIn \in Seq(Frame)
    /\ broken \in BOOLEAN
=============================================================================
