--------------------------- MODULE AnytlsInbound ---------------------------
(***************************************************************************)
(* One server-side AnyTLS session (InboundSession): the read loop that     *)
(* creates streams and routes their payloads, the write loop, and the      *)
(* dispatch task of each stream, which reads, writes and at last drops it. *)
(* The session sees the client through upWire (all it ever wrote, of which *)
(* upPos frames have been read) and answers on downWire.                   *)
(***************************************************************************)
EXTENDS AnytlsProto

CONSTANTS
    UdpStreams,              \* streams whose target is the UoT domain
    SESSION_QUEUE_CAPACITY,
    STREAM_QUEUE_CAPACITY,
    MaxSend                  \* bound: payloads a dispatch task writes per stream

ASSUME InboundAssumption ==
    /\ UdpStreams \subseteq Streams
    /\ SESSION_QUEUE_CAPACITY \in Nat \ {0}
    /\ STREAM_QUEUE_CAPACITY \in Nat \ {0}
    /\ MaxSend \in Nat

VARIABLES
    inClosed,   \* the session's closer
    inState,    \* StreamState of each entry of the map, "none" without one
    inQ,        \* data channel of each active stream
    task,       \* the stream's dispatch task
    inReader,   \* what its reads have reported
    inGot,      \* payloads it has read (history)
    inSent,     \* payloads it has written (history)
    inFin,      \* fin_sent of the stream
    inWriteQ,   \* the session's write channel
    inRxOpen,   \* its receiver is alive
    inWpc,      \* where the write task is
    inRpc,      \* where InboundSession::new and its read loop are
    inCur,      \* the PSH the read loop is delivering
    upPos,      \* frames of upWire it has read
    upWire,     \* all frames the client has written
    downWire,   \* frames on their way to the client
    broken,     \* the TLS connection has failed
    arrives     \* what is written now still reaches the client

inTaskVars == <<task, inReader, inGot, inSent, inFin>>
inSessVars == <<inClosed, inState, inQ, inWriteQ, inRxOpen>>
inVars == <<inClosed, inState, inQ, task, inReader, inGot, inSent, inFin,
            inWriteQ, inRxOpen, inWpc, inRpc, inCur, upPos>>
linkVars == <<upWire, downWire, broken>>

InTypeOK ==
    /\ inClosed \in BOOLEAN
    /\ inState \in [Streams -> {"none", "Pending", "WaitingUotRequest", "Active"}]
    /\ inQ \in [Streams -> Seq(Nat)]
    /\ \A s \in Streams : Len(inQ[s]) <= STREAM_QUEUE_CAPACITY
    /\ task \in [Streams -> {"none", "first", "open", "dropped"}]
    /\ inReader \in [Streams -> {"reading", "eof"}]
    /\ inGot \in [Streams -> Seq(Nat)]
    /\ inSent \in [Streams -> Nat]
    /\ inFin \in [Streams -> BOOLEAN]
    /\ inWriteQ \in Seq(Frame)
    /\ Len(inWriteQ) <= SESSION_QUEUE_CAPACITY
    /\ inRxOpen \in BOOLEAN
    /\ inWpc \in {"idle", "run", "close", "done"}
    /\ inRpc \in {"auth", "settings", "read", "push", "close", "clear", "done"}
    /\ inCur \in Frame
    /\ upPos \in Nat

InInit ==
    /\ inClosed = FALSE
    /\ inState = [s \in Streams |-> "none"]
    /\ inQ = [s \in Streams |-> <<>>]
    /\ task = [s \in Streams |-> "none"]
    /\ inReader = [s \in Streams |-> "reading"]
    /\ inGot = [s \in Streams |-> <<>>]
    /\ inSent = [s \in Streams |-> 0]
    /\ inFin = [s \in Streams |-> FALSE]
    /\ inWriteQ = <<>>
    /\ inRxOpen = TRUE
    /\ inWpc = "idle"
    /\ inRpc = "auth"
    /\ inCur = NoFrame
    /\ upPos = 0

InTrySend(f) ==
    IF inRxOpen /\ Len(inWriteQ) < SESSION_QUEUE_CAPACITY
    THEN Append(inWriteQ, f) ELSE inWriteQ

InRoom == inRxOpen /\ Len(inWriteQ) < SESSION_QUEUE_CAPACITY

-----------------------------------------------------------------------------
(* InboundSession::new, before its loops *)

\* The credentials match, or the connection is dropped.
Authenticate ==
    /\ inRpc = "auth"
    /\ \/ inRpc' = "settings" /\ inWpc' = inWpc
       \/ inRpc' = "done" /\ inWpc' = "done"
    /\ UNCHANGED <<inSessVars, inTaskVars, inCur, upPos, linkVars>>

\* The first frame must be the client's settings, which are answered with the
\* server's (a version-1 client, which the model leaves out, gets none); then
\* the write task starts.  Anything else is answered with an alert.
ReadSettings ==
    /\ inRpc = "settings"
    /\ upPos < Len(upWire)
    /\ upPos' = upPos + 1
    /\ LET ok == upWire[upPos + 1].cmd = "Settings" IN
       /\ inRpc' = IF ok THEN "read" ELSE "done"
       /\ inWpc' = IF ok THEN "run" ELSE "done"
       /\ downWire' = IF ~arrives THEN downWire
                      ELSE Append(downWire, IF ok THEN NoFrame ELSE MkFrame("Alert", 0, 0))
    /\ UNCHANGED <<inSessVars, inTaskVars, inCur, upWire, broken>>

\* The connection fails before the settings have arrived.
SettingsFail ==
    /\ inRpc = "settings" /\ broken
    /\ inRpc' = "done" /\ inWpc' = "done"
    /\ UNCHANGED <<inSessVars, inTaskVars, inCur, upPos, linkVars>>

-----------------------------------------------------------------------------
(* read_loop *)

NextFrame(cmd) ==
    /\ inRpc = "read"
    /\ upPos < Len(upWire)
    /\ upWire[upPos + 1].cmd = cmd
    /\ upPos' = upPos + 1

\* The stream of the frame being read.
Sid == upWire[upPos + 1].sid

ReadSyn ==
    /\ NextFrame("Syn")
    /\ inState' = [inState EXCEPT ![Sid] = "Pending"]
    /\ inWriteQ' = InTrySend(MkFrame("SynAck", Sid, 0))
    /\ UNCHANGED <<inClosed, inQ, inRxOpen, inTaskVars, inWpc, inRpc, inCur, linkVars>>

\* Mutant: a stream that was refused keeps its entry.
BadHeaderKeepsEntry ==
    /\ NextFrame("Psh")
    /\ inState[Sid] \in {"Pending", "WaitingUotRequest"}
    /\ inWriteQ' = InTrySend(MkFrame("Fin", Sid, 0))
    /\ UNCHANGED <<inClosed, inState, inQ, inRxOpen, inTaskVars, inWpc, inRpc, inCur,
                   linkVars>>

\* A PSH of a pending stream names its target, one of a stream that waits for
\* its UoT request names the destination.  What does not parse ends the stream.
BadHeader ==
    /\ NextFrame("Psh")
    /\ inState[Sid] \in {"Pending", "WaitingUotRequest"}
    /\ inWriteQ' = InTrySend(MkFrame("Fin", Sid, 0))
    /\ inState' = [inState EXCEPT ![Sid] = "none"]
    /\ UNCHANGED <<inClosed, inQ, inRxOpen, inTaskVars, inWpc, inRpc, inCur, linkVars>>

ReadTarget ==
    /\ NextFrame("Psh")
    /\ inState[Sid] = "Pending"
    /\ IF Sid \in UdpStreams
       THEN /\ inState' = [inState EXCEPT ![Sid] = "WaitingUotRequest"]
            /\ UNCHANGED task
       ELSE /\ inState' = [inState EXCEPT ![Sid] = "Active"]
            /\ task' = [task EXCEPT ![Sid] = "open"]
    /\ UNCHANGED <<inClosed, inQ, inWriteQ, inRxOpen, inReader, inGot, inSent, inFin,
                   inWpc, inRpc, inCur, linkVars>>

\* A request in connect mode is dispatched at once, any other waits for the
\* packet that names its destination.  (A client that puts the request and data in
\* one frame is left out: ours sends the request in a frame of its own.)
ReadUotRequest ==
    /\ NextFrame("Psh")
    /\ inState[Sid] = "WaitingUotRequest"
    /\ inState' = [inState EXCEPT ![Sid] = "Active"]
    /\ \E t \in {"first", "open"} : task' = [task EXCEPT ![Sid] = t]
    /\ UNCHANGED <<inClosed, inQ, inWriteQ, inRxOpen, inReader, inGot, inSent, inFin,
                   inWpc, inRpc, inCur, linkVars>>

\* Data of an active stream waits for room in its channel; data of a stream
\* without an entry is discarded.
ReadData ==
    /\ NextFrame("Psh")
    /\ inState[Sid] \in {"Active", "none"}
    /\ inRpc' = IF inState[Sid] = "Active" THEN "push" ELSE "read"
    /\ inCur' = IF inState[Sid] = "Active" THEN upWire[upPos + 1] ELSE NoFrame
    /\ UNCHANGED <<inSessVars, inTaskVars, inWpc, linkVars>>

\* Mutant: a full channel loses the payload.
DeliverLossy ==
    /\ inRpc = "push"
    /\ inQ' = IF Len(inQ[inCur.sid]) < STREAM_QUEUE_CAPACITY
              THEN [inQ EXCEPT ![inCur.sid] = Append(@, inCur.n)] ELSE inQ
    /\ inRpc' = "read"
    /\ inCur' = NoFrame
    /\ UNCHANGED <<inClosed, inState, inWriteQ, inRxOpen, inTaskVars, inWpc, upPos,
                   linkVars>>

\* tx.send(data).await; it fails once the stream has been dropped.
Deliver ==
    /\ inRpc = "push"
    /\ LET s == inCur.sid IN
       IF task[s] = "dropped"
       THEN inState' = [inState EXCEPT ![s] = "none"] /\ UNCHANGED inQ
       ELSE /\ Len(inQ[s]) < STREAM_QUEUE_CAPACITY
            /\ inQ' = [inQ EXCEPT ![s] = Append(@, inCur.n)]
            /\ UNCHANGED inState
    /\ inRpc' = "read"
    /\ inCur' = NoFrame
    /\ UNCHANGED <<inClosed, inWriteQ, inRxOpen, inTaskVars, inWpc, upPos, linkVars>>

\* Mutant: the client's FIN ends only what has not become active.
ReadFinPendingOnly ==
    /\ NextFrame("Fin")
    /\ inState' = [inState EXCEPT ![Sid] = IF @ = "Active" THEN @ ELSE "none"]
    /\ UNCHANGED <<inClosed, inQ, inWriteQ, inRxOpen, inTaskVars, inWpc, inRpc, inCur,
                   linkVars>>

\* Dropping the entry's sender ends the stream after what is queued.
ReadFin ==
    /\ NextFrame("Fin")
    /\ inState' = [inState EXCEPT ![Sid] = "none"]
    /\ UNCHANGED <<inClosed, inQ, inWriteQ, inRxOpen, inTaskVars, inWpc, inRpc, inCur,
                   linkVars>>

\* Heartbeats are answered if there is room; the rest is ignored.
ReadOther ==
    /\ \E cmd \in {"HeartRequest", "HeartResponse", "SynAck", "Settings", "Other"} :
          NextFrame(cmd)
    /\ inWriteQ' = IF upWire[upPos + 1].cmd = "HeartRequest"
                   THEN InTrySend(MkFrame("HeartResponse", 0, 0)) ELSE inWriteQ
    /\ UNCHANGED <<inClosed, inState, inQ, inRxOpen, inTaskVars, inWpc, inRpc, inCur,
                   linkVars>>

ReadAlert ==
    /\ NextFrame("Alert")
    /\ inRpc' = "close"
    /\ UNCHANGED <<inSessVars, inTaskVars, inWpc, inCur, linkVars>>

\* The closer fired, or the connection failed.
ReadLoopEnds ==
    /\ inRpc = "read"
    /\ inClosed \/ broken
    /\ inRpc' = "close"
    /\ UNCHANGED <<inSessVars, inTaskVars, inWpc, inCur, upPos, linkVars>>

CloseSession ==
    /\ inRpc = "close"
    /\ inClosed' = TRUE
    /\ inRpc' = "clear"
    /\ UNCHANGED <<inState, inQ, inWriteQ, inRxOpen, inTaskVars, inWpc, inCur, upPos,
                   linkVars>>

ClearStreams ==
    /\ inRpc = "clear"
    /\ inState' = [s \in Streams |-> "none"]
    /\ inRpc' = "done"
    /\ UNCHANGED <<inClosed, inQ, inWriteQ, inRxOpen, inTaskVars, inWpc, inCur, upPos,
                   linkVars>>

-----------------------------------------------------------------------------
(* write_loop and the task around it *)

WriteFrame ==
    /\ inWpc = "run"
    /\ inWriteQ # <<>>
    /\ inWriteQ' = Tail(inWriteQ)
    /\ downWire' = IF arrives THEN Append(downWire, Head(inWriteQ)) ELSE downWire
    /\ UNCHANGED <<inClosed, inState, inQ, inRxOpen, inTaskVars, inWpc, inRpc, inCur,
                   upPos, upWire, broken>>

\* The closer fired, or the write of a frame failed.
WriteLoopEnds ==
    /\ inWpc = "run"
    /\ inClosed \/ (broken /\ inWriteQ # <<>>)
    /\ inWpc' = "close"
    /\ inRxOpen' = FALSE
    /\ inWriteQ' = <<>>
    /\ UNCHANGED <<inClosed, inState, inQ, inTaskVars, inRpc, inCur, upPos, linkVars>>

WriteTaskCloses ==
    /\ inWpc = "close"
    /\ inClosed' = TRUE
    /\ inWpc' = "done"
    /\ UNCHANGED <<inState, inQ, inWriteQ, inRxOpen, inTaskVars, inRpc, inCur, upPos,
                   linkVars>>

-----------------------------------------------------------------------------
(* The dispatch task of a stream *)

InSenderAlive(s) == inState[s] = "Active" \/ (inRpc = "push" /\ inCur.sid = s)

\* The first packet of a UoT stream names its destination.
InRead(s) ==
    /\ task[s] \in {"first", "open"} /\ inReader[s] = "reading"
    /\ inQ[s] # <<>>
    /\ inQ' = [inQ EXCEPT ![s] = Tail(@)]
    /\ inGot' = [inGot EXCEPT ![s] = Append(@, Head(inQ[s]))]
    /\ task' = [task EXCEPT ![s] = "open"]
    /\ UNCHANGED <<inClosed, inState, inWriteQ, inRxOpen, inReader, inSent, inFin,
                   inWpc, inRpc, inCur, upPos, linkVars>>

InReadEnd(s) ==
    /\ task[s] \in {"first", "open"} /\ inReader[s] = "reading"
    /\ inQ[s] = <<>> /\ ~InSenderAlive(s)
    /\ inReader' = [inReader EXCEPT ![s] = "eof"]
    /\ UNCHANGED <<inSessVars, task, inGot, inSent, inFin, inWpc, inRpc, inCur, upPos,
                   linkVars>>

InWrite(s) ==
    /\ task[s] = "open" /\ ~inFin[s]
    /\ inSent[s] < MaxSend
    /\ InRoom
    /\ inSent' = [inSent EXCEPT ![s] = @ + 1]
    /\ inWriteQ' = Append(inWriteQ, MkFrame("Psh", s, inSent[s] + 1))
    /\ UNCHANGED <<inClosed, inState, inQ, inRxOpen, task, inReader, inGot, inFin, inWpc,
                   inRpc, inCur, upPos, linkVars>>

InShutdown(s) ==
    /\ task[s] = "open" /\ s \notin UdpStreams
    /\ ~inFin[s]
    /\ InRoom
    /\ inFin' = [inFin EXCEPT ![s] = TRUE]
    /\ inWriteQ' = Append(inWriteQ, MkFrame("Fin", s, 0))
    /\ UNCHANGED <<inClosed, inState, inQ, inRxOpen, task, inReader, inGot, inSent, inWpc,
                   inRpc, inCur, upPos, linkVars>>

\* Mutant: a second FIN follows the one poll_shutdown has queued.
InDropFinTwice(s) ==
    /\ task[s] \in {"first", "open"}
    /\ task' = [task EXCEPT ![s] = "dropped"]
    /\ inWriteQ' = InTrySend(MkFrame("Fin", s, 0))
    /\ inState' = [inState EXCEPT ![s] = "none"]
    /\ inQ' = [inQ EXCEPT ![s] = <<>>]
    /\ UNCHANGED <<inClosed, inRxOpen, inReader, inGot, inSent, inFin, inWpc, inRpc,
                   inCur, upPos, linkVars>>

\* The task ends, by itself or because dispatching failed: a best-effort FIN
\* and the entry is removed.
InDrop(s) ==
    /\ task[s] \in {"first", "open"}
    /\ task' = [task EXCEPT ![s] = "dropped"]
    /\ inWriteQ' = IF inFin[s] THEN inWriteQ ELSE InTrySend(MkFrame("Fin", s, 0))
    /\ inState' = [inState EXCEPT ![s] = "none"]
    /\ inQ' = [inQ EXCEPT ![s] = <<>>]
    /\ inReader' = [inReader EXCEPT ![s] = "reading"]
    /\ inGot' = [inGot EXCEPT ![s] = <<>>]
    /\ UNCHANGED <<inClosed, inRxOpen, inSent, inFin, inWpc, inRpc, inCur, upPos, linkVars>>

-----------------------------------------------------------------------------
ReadSide == \/ Authenticate \/ ReadSettings \/ SettingsFail
            \/ ReadSyn \/ BadHeader \/ ReadTarget \/ ReadUotRequest \/ ReadData \/ Deliver
            \/ ReadFin \/ ReadOther \/ ReadAlert
            \/ ReadLoopEnds \/ CloseSession \/ ClearStreams

WriteSide == WriteFrame \/ WriteLoopEnds \/ WriteTaskCloses

Dispatch(s) == InRead(s) \/ InReadEnd(s) \/ InWrite(s) \/ InShutdown(s) \/ InDrop(s)

InNext == ReadSide \/ WriteSide \/ \E s \in Streams : Dispatch(s)
=============================================================================
