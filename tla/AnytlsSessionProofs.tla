------------------------ MODULE AnytlsSessionProofs ------------------------
(***************************************************************************)
(* Proofs about the AnyTLS client session, for every set of streams, every *)
(* queue capacity and every peer that AnytlsSessionPeer allows.            *)
(***************************************************************************)
EXTENDS AnytlsSessionPeer, SequenceTheorems, FiniteSetTheorems, TLAPS

\* try_send keeps the session queue within its capacity.
LEMMA TrySendType ==
    ASSUME NEW q \in Seq(Frame), NEW f \in Frame,
           Len(q) <= SESSION_QUEUE_CAPACITY
    PROVE  /\ TrySend(q, f) \in Seq(Frame)
           /\ Len(TrySend(q, f)) <= SESSION_QUEUE_CAPACITY
  BY SessionAssumption DEF TrySend

\* A push that gives up on a full queue keeps it within its capacity.
LEMMA TryPushType ==
    ASSUME NEW q \in Seq(StreamEvent), NEW e \in StreamEvent,
           Len(q) <= STREAM_QUEUE_CAPACITY
    PROVE  /\ TryPush(q, e) \in Seq(StreamEvent)
           /\ Len(TryPush(q, e)) <= STREAM_QUEUE_CAPACITY
  BY SessionAssumption DEF TryPush

\* A frame put together from a command, a stream and a payload is a frame.
LEMMA FrameType ==
    ASSUME NEW cmd \in Command, NEW sid \in Streams \cup {0}, NEW n \in Nat
    PROVE  MkFrame(cmd, sid, n) \in Frame
  BY DEF MkFrame, Frame

\* A send that waited for room keeps the session queue within its capacity.
LEMMA SendType ==
    ASSUME NEW q \in Seq(Frame), NEW f \in Frame,
           Len(q) < SESSION_QUEUE_CAPACITY
    PROVE  /\ Append(q, f) \in Seq(Frame)
           /\ Len(Append(q, f)) <= SESSION_QUEUE_CAPACITY
  BY SessionAssumption

\* What the types say of a stream's queue.
QueueOK(q) == q \in Seq(StreamEvent) /\ Len(q) <= STREAM_QUEUE_CAPACITY

\* A queue whose receiver has been dropped holds nothing.
LEMMA EmptyQueue == QueueOK(<<>>)
  BY SessionAssumption DEF QueueOK

\* Every step of a connect call keeps the types.
LEMMA ConnectType ==
    ASSUME PeerTypeOK, NEW s \in Streams, Connect(s), UNCHANGED peerVars
    PROVE  PeerTypeOK'
<1> USE DEF PeerTypeOK, TypeOK, peerVars
<1>1. CASE Register(s)
  BY <1>1 DEF Register, writeVars, readVars, wireVars
<1>2. CASE SendSyn(s)
  <2>1. MkFrame("Syn", s, 0) \in Frame
    BY FrameType DEF Command
  <2>2. writeQ' \in Seq(Frame) /\ Len(writeQ') <= SESSION_QUEUE_CAPACITY
    BY <1>2, <2>1, SendType DEF SendSyn, Room
  <2>3. QED
    BY <1>2, <2>2 DEF SendSyn, mapVars, readVars, wireVars
<1>3. CASE SendTarget(s)
  <2>1. MkFrame("Psh", s, Header) \in Frame
    BY FrameType DEF Command, Header
  <2>2. writeQ' \in Seq(Frame) /\ Len(writeQ') <= SESSION_QUEUE_CAPACITY
    BY <1>3, <2>1, SendType DEF SendTarget, Room
  <2>3. QED
    BY <1>3, <2>2 DEF SendTarget, mapVars, readVars, wireVars
<1>4. CASE SendUotRequest(s)
  <2>1. MkFrame("Psh", s, Header) \in Frame
    BY FrameType DEF Command, Header
  <2>2. writeQ' \in Seq(Frame) /\ Len(writeQ') <= SESSION_QUEUE_CAPACITY
    BY <1>4, <2>1, SendType DEF SendUotRequest, Room
  <2>3. QED
    BY <1>4, <2>2 DEF SendUotRequest, mapVars, readVars, wireVars
<1>5. CASE ConnectFails(s)
  <2>1. \A t \in Streams : QueueOK(events'[t])
    BY <1>5, EmptyQueue DEF ConnectFails, QueueOK
  <2>2. events' \in [Streams -> Seq(StreamEvent)]
    BY <1>5 DEF ConnectFails
  <2>3. QED
    BY <1>5, <2>1, <2>2 DEF ConnectFails, writeVars, readVars, wireVars, QueueOK
<1>6. QED
  BY <1>1, <1>2, <1>3, <1>4, <1>5 DEF Connect

\* Every step of a relay keeps the types.
LEMMA RelayType ==
    ASSUME PeerTypeOK, NEW s \in Streams, Relay(s), UNCHANGED peerVars
    PROVE  PeerTypeOK'
<1> USE DEF PeerTypeOK, TypeOK, peerVars
<1>1. CASE Read(s)
  <2>0. QueueOK(Tail(events[s])) /\ \A t \in Streams : QueueOK(events[t])
    BY <1>1, SessionAssumption DEF Read, QueueOK
  <2>1. \A t \in Streams : QueueOK(events'[t])
    BY <1>1, <2>0 DEF Read
  <2>2. events' \in [Streams -> Seq(StreamEvent)]
    BY <1>1 DEF Read
  <2>3. Head(events[s]) \in StreamEvent
    BY <1>1 DEF Read
  <2>4. got' \in [Streams -> Seq(Nat)]
    BY <1>1, <2>3 DEF Read, StreamEvent
  <2>5. reader' \in [Streams -> {"reading", "eof", "error"}]
    BY <1>1, <2>3 DEF Read, StreamEvent
  <2>6. QED
    <3>1. UNCHANGED <<closed, streams, handle, wrote, finSent, writeVars, readVars, xpc, wireVars, peerVars>>
      BY <1>1 DEF Read
    <3>2. \A t \in Streams : Len(events'[t]) <= STREAM_QUEUE_CAPACITY
      BY <2>1 DEF QueueOK
    <3> QED
      BY <2>2, <2>4, <2>5, <3>1, <3>2 DEF writeVars, readVars, wireVars
<1>2. CASE ReadEnd(s)
  BY <1>2 DEF ReadEnd, mapVars, writeVars, readVars, wireVars
<1>3. CASE Write(s)
  <2>1. MkFrame("Psh", s, wrote[s] + 1) \in Frame
    BY FrameType DEF Command
  <2>2. writeQ' \in Seq(Frame) /\ Len(writeQ') <= SESSION_QUEUE_CAPACITY
    BY <1>3, <2>1, SendType DEF Write, Room
  <2>3. QED
    BY <1>3, <2>2 DEF Write, mapVars, readVars, wireVars
<1>4. CASE Shutdown(s)
  <2>1. MkFrame("Fin", s, 0) \in Frame
    BY FrameType DEF Command
  <2>2. writeQ' \in Seq(Frame) /\ Len(writeQ') <= SESSION_QUEUE_CAPACITY
    BY <1>4, <2>1, SendType DEF Shutdown, Room
  <2>3. QED
    BY <1>4, <2>2 DEF Shutdown, mapVars, readVars, wireVars
<1>5. CASE Drop(s)
  <2>1. MkFrame("Fin", s, 0) \in Frame
    BY FrameType DEF Command
  <2>2. writeQ' \in Seq(Frame) /\ Len(writeQ') <= SESSION_QUEUE_CAPACITY
    BY <1>5, <2>1, TrySendType DEF Drop
  <2>3. \A t \in Streams : QueueOK(events'[t])
    BY <1>5, EmptyQueue DEF Drop, QueueOK
  <2>4. events' \in [Streams -> Seq(StreamEvent)]
    BY <1>5 DEF Drop
  <2>5. streams' \subseteq Streams /\ closed' \in BOOLEAN
    BY <1>5, SessionAssumption DEF Drop
  <2>6. QED
    BY <1>5, <2>2, <2>3, <2>4, <2>5 DEF Drop, readVars, wireVars, QueueOK
<1>6. QED
  BY <1>1, <1>2, <1>3, <1>4, <1>5 DEF Relay

\* Batches of frames are appended to the buffer and to the wire.
LEMMA ConcatType ==
    ASSUME NEW q \in Seq(Frame), NEW r \in Seq(Frame)
    PROVE  q \o r \in Seq(Frame)
  OBVIOUS

\* Every step of the write task keeps the types.
LEMMA WriteTaskType ==
    ASSUME PeerTypeOK, WriteTask, UNCHANGED peerVars
    PROVE  PeerTypeOK'
<1> USE DEF PeerTypeOK, TypeOK, peerVars
<1>1. CASE TakeFrames
  <2>1. CASE buffering /\ Head(writeQ).cmd # "Psh"
    <3>1. Head(writeQ) \in Frame /\ Tail(writeQ) \in Seq(Frame)
          /\ Len(Tail(writeQ)) <= SESSION_QUEUE_CAPACITY
      BY <1>1, SessionAssumption DEF TakeFrames
    <3>2. Append(buffer, Head(writeQ)) \in Seq(Frame)
      BY <3>1
    <3>3. buffer' = Append(buffer, Head(writeQ)) /\ writeQ' = Tail(writeQ)
      BY <1>1, <2>1 DEF TakeFrames
    <3>4. QED
      BY <1>1, <2>1, <3>1, <3>2, <3>3 DEF TakeFrames, mapVars, callVars, readVars, wireVars
  <2>2. CASE ~(buffering /\ Head(writeQ).cmd # "Psh")
    <3>1. PICK k \in 1 .. Len(writeQ) :
            /\ buffer' = buffer \o SubSeq(writeQ, 1, k)
            /\ writeQ' = SubSeq(writeQ, k + 1, Len(writeQ))
            /\ buffering' = FALSE
            /\ wpc' = "flush"
      BY <1>1, <2>2 DEF TakeFrames
    <3>2. SubSeq(writeQ, 1, k) \in Seq(Frame) /\ writeQ' \in Seq(Frame)
          /\ Len(writeQ') <= SESSION_QUEUE_CAPACITY
      BY <3>1, SessionAssumption
    <3>3. buffer' \in Seq(Frame)
      BY <3>1, <3>2, ConcatType
    <3>4. QED
      BY <1>1, <3>1, <3>2, <3>3 DEF TakeFrames, mapVars, callVars, readVars, wireVars
  <2>3. QED
    BY <2>1, <2>2
<1>2. CASE Flush
  <2>1. wireOut' \in Seq(Frame) /\ buffer' \in Seq(Frame)
    BY <1>2 DEF Flush
  <2>2. QED
    BY <1>2, <2>1 DEF Flush, mapVars, callVars, readVars
<1>3. CASE WriteBreak
  <2>1. writeQ' \in Seq(Frame) /\ Len(writeQ') <= SESSION_QUEUE_CAPACITY
        /\ buffer' \in Seq(Frame)
    BY <1>3, SessionAssumption DEF WriteBreak
  <2>2. QED
    BY <1>3, <2>1 DEF WriteBreak, mapVars, callVars, readVars, wireVars
<1>4. CASE WriteFinish
  BY <1>4 DEF WriteFinish, callVars, readVars, wireVars
<1>5. CASE WriteClear
  BY <1>5 DEF WriteClear, callVars, readVars, wireVars
<1>6. QED
  BY <1>1, <1>2, <1>3, <1>4, <1>5 DEF WriteTask

\* Ending streams keeps the map and the queues typed.
LEMMA EndStreamsType ==
    ASSUME TypeOK, NEW S, NEW e \in StreamEvent, EndStreams(S, e)
    PROVE  /\ streams' \subseteq Streams
           /\ events' \in [Streams -> Seq(StreamEvent)]
           /\ \A s \in Streams : Len(events'[s]) <= STREAM_QUEUE_CAPACITY
<1>1. streams' \subseteq Streams
  BY DEF EndStreams, TypeOK
<1>2. \A s \in Streams : QueueOK(events[s])
  BY DEF TypeOK, QueueOK
<1>3. \A s \in Streams : QueueOK(TryPush(events[s], e))
  BY <1>2, TryPushType DEF QueueOK
<1>4. \A s \in Streams : QueueOK(events'[s])
  BY <1>2, <1>3 DEF EndStreams
<1>5. events' = [s \in Streams |-> events'[s]]
  BY DEF EndStreams
<1>6. QED
  BY <1>1, <1>4, <1>5 DEF QueueOK

\* Every step of the read task keeps the types.
LEMMA ReadTaskType ==
    ASSUME PeerTypeOK, ReadTask, UNCHANGED peerVars
    PROVE  PeerTypeOK'
<1> USE DEF PeerTypeOK, peerVars
<1>0. NoFrame \in Frame /\ Fin \in StreamEvent /\ SynAckError \in StreamEvent
  BY FrameType DEF NoFrame, Fin, SynAckError, StreamEvent, Command
<1>1. CASE ReadFrame
  <2> DEFINE f == Head(wireIn)
  <2>1. f \in Frame /\ Tail(wireIn) \in Seq(Frame)
    BY <1>1 DEF ReadFrame, TypeOK
  <2>2. wireIn' \in Seq(Frame) /\ rcur' \in Frame
    BY <1>0, <1>1, <2>1 DEF ReadFrame
  <2>3. rpc' \in {"read", "push", "finish"} /\ (rpc' = "push" => rcur'.sid \in Streams)
    BY <1>1, <2>1 DEF ReadFrame, TypeOK
  <2>4. MkFrame("HeartResponse", 0, 0) \in Frame
    BY FrameType DEF Command
  <2>5. writeQ' \in Seq(Frame) /\ Len(writeQ') <= SESSION_QUEUE_CAPACITY
    <3>1. writeQ' = writeQ \/ writeQ' = TrySend(writeQ, MkFrame("HeartResponse", 0, 0))
      BY <1>1 DEF ReadFrame
    <3>2. QED
      BY <3>1, <2>4, TrySendType DEF TypeOK
  <2>6. /\ streams' \subseteq Streams
        /\ events' \in [Streams -> Seq(StreamEvent)]
        /\ \A s \in Streams : Len(events'[s]) <= STREAM_QUEUE_CAPACITY
    <3>1. \/ UNCHANGED <<streams, events>>
          \/ EndStreams({f.sid}, Fin)
          \/ EndStreams({f.sid}, SynAckError)
          \/ EndStreams(streams, SynAckError)
      BY <1>1 DEF ReadFrame
    <3>2. QED
      BY <3>1, <1>0, EndStreamsType DEF TypeOK
  <2>7. QED
    BY <1>1, <2>2, <2>3, <2>5, <2>6 DEF ReadFrame, callVars, TypeOK
<1>2. CASE PushData
  <2>1. rcur.sid \in Streams /\ Data(rcur.n) \in StreamEvent
    BY <1>2 DEF PushData, Data, StreamEvent, Frame, TypeOK
  <2>2. \A t \in Streams : QueueOK(events[t])
    BY DEF QueueOK, TypeOK
  <2>3. events' \in [Streams -> Seq(StreamEvent)] /\ streams' \subseteq Streams
    <3>1. Append(events[rcur.sid], Data(rcur.n)) \in Seq(StreamEvent)
      BY <2>1, <2>2 DEF QueueOK
    <3>2. QED
      BY <1>2, <2>1, <3>1 DEF PushData, TypeOK
  <2>4. \A t \in Streams : QueueOK(events'[t])
    <3>1. CASE ReceiverAlive(rcur.sid)
      <4>1. QueueOK(Append(events[rcur.sid], Data(rcur.n)))
        BY <1>2, <3>1, <2>1, <2>2, SessionAssumption DEF PushData, QueueOK
      <4>2. QED
        BY <1>2, <3>1, <4>1, <2>1, <2>2 DEF PushData, TypeOK
    <3>2. CASE ~ReceiverAlive(rcur.sid)
      BY <1>2, <3>2, <2>2 DEF PushData
    <3>3. QED
      BY <3>1, <3>2
  <2>5. \A t \in Streams : Len(events'[t]) <= STREAM_QUEUE_CAPACITY
    BY <2>4 DEF QueueOK
  <2>6. QED
    BY <1>0, <1>2, <2>3, <2>5 DEF PushData, callVars, writeVars, wireVars, TypeOK
<1>3. CASE ReadBreak
  BY <1>3 DEF ReadBreak, mapVars, callVars, writeVars, TypeOK
<1>4. CASE ReadFinish
  BY <1>4 DEF ReadFinish, callVars, writeVars, wireVars, TypeOK
<1>5. CASE ReadClear
  BY <1>5 DEF ReadClear, callVars, writeVars, wireVars, TypeOK
<1>6. QED
  BY <1>1, <1>2, <1>3, <1>4, <1>5 DEF ReadTask

\* Every step of the session or of its peer keeps the types.
LEMMA NextType == PeerTypeOK /\ [Next]_allVars => PeerTypeOK'
<1> SUFFICES ASSUME PeerTypeOK, [Next]_allVars PROVE PeerTypeOK'
  OBVIOUS
<1>1. CASE UNCHANGED allVars
  BY <1>1 DEF allVars, vars, peerVars, PeerTypeOK, TypeOK
<1>2. CASE Client
  <2>1. CASE OutsideFinish
    BY <1>2, <2>1 DEF Client, OutsideFinish, callVars, writeVars, readVars,
                      wireVars, peerVars, PeerTypeOK, TypeOK
  <2>2. CASE OutsideClear
    BY <1>2, <2>2 DEF Client, OutsideClear, callVars, writeVars, readVars,
                      wireVars, peerVars, PeerTypeOK, TypeOK
  <2>3. QED
    BY <1>2, <2>1, <2>2, ConnectType, RelayType, WriteTaskType, ReadTaskType
       DEF Client, ClientNext
<1>3. ASSUME NEW s \in Streams, PeerPsh(s) PROVE PeerTypeOK'
  <2>1. MkFrame("Psh", s, down[s] + 1) \in Frame
    BY FrameType DEF Command, PeerTypeOK
  <2>2. wireIn' \in Seq(Frame) /\ down' \in [Streams -> Nat]
    BY <1>3, <2>1 DEF PeerPsh, PeerTypeOK, TypeOK
  <2>3. QED
    BY <1>3, <2>2 DEF PeerPsh, clientVars, PeerTypeOK, TypeOK
<1>4. ASSUME NEW s \in Streams, PeerEnd(s) PROVE PeerTypeOK'
  <2>1. MkFrame("Fin", s, 0) \in Frame /\ MkFrame("SynAck", s, 1) \in Frame
    BY FrameType DEF Command
  <2>2. wireIn' \in Seq(Frame)
    BY <1>4, <2>1 DEF PeerEnd, PeerTypeOK, TypeOK
  <2>3. QED
    BY <1>4, <2>2 DEF PeerEnd, clientVars, PeerTypeOK, TypeOK
<1>5. CASE PeerControl
  <2>1. ControlFrames \subseteq Frame
    BY FrameType DEF ControlFrames, Command
  <2>2. wireIn' \in Seq(Frame) /\ control' \in Nat
    BY <1>5, <2>1 DEF PeerControl, PeerTypeOK, TypeOK
  <2>3. QED
    BY <1>5, <2>2 DEF PeerControl, clientVars, PeerTypeOK, TypeOK
<1>6. CASE ConnectionLost
  BY <1>6 DEF ConnectionLost, clientVars, peerVars, PeerTypeOK, TypeOK
<1>7. QED
  BY <1>1, <1>2, <1>3, <1>4, <1>5, <1>6 DEF Next, Ended

\* The types hold at the start.
LEMMA StartsTyped == PeerInit => PeerTypeOK
<1> SUFFICES ASSUME PeerInit PROVE PeerTypeOK
  OBVIOUS
<1>1. MkFrame("Settings", 0, 0) \in Frame /\ NoFrame \in Frame
  BY FrameType DEF Command, NoFrame
<1>2. writeQ \in Seq(Frame) /\ Len(writeQ) <= SESSION_QUEUE_CAPACITY
  BY <1>1, SessionAssumption DEF PeerInit, Init
<1>3. /\ events \in [Streams -> Seq(StreamEvent)]
      /\ \A s \in Streams : Len(events[s]) <= STREAM_QUEUE_CAPACITY
  BY SessionAssumption DEF PeerInit, Init
<1>4. got \in [Streams -> Seq(Nat)]
  BY DEF PeerInit, Init
<1>5. <<>> \in Seq(Frame)
  OBVIOUS
<1>6. TypeOK
  BY <1>1, <1>2, <1>3, <1>4, <1>5 DEF PeerInit, Init, NoFrame, MkFrame, TypeOK
<1>7. QED
  BY <1>6 DEF PeerInit, PeerTypeOK

\* Type correctness: every queue stays within its capacity and the frame the
\* read task is delivering always names a stream, whatever the session's tasks,
\* its callers and its peer do.
THEOREM SessionType == Spec => []PeerTypeOK
<1>1. PeerInit => PeerTypeOK
  BY StartsTyped
<1>2. QED
  BY <1>1, NextType, PTL DEF Spec

-----------------------------------------------------------------------------
(* No stream is stranded on a session whose write task has ended. *)

\* write_rx lives exactly as long as the write loop runs.
ReceiverWithLoop == rxOpen <=> wpc \in {"recv", "flush"}

\* NoStrandedStream alone is not inductive: that a stream registered after the
\* last clear never becomes open is due to the receiver being gone by then.
StrandInv == ReceiverWithLoop /\ NoStrandedStream

\* Every step keeps the strengthened invariant.
LEMMA StrandStep ==
    ASSUME PeerTypeOK, StrandInv, [Next]_allVars
    PROVE  StrandInv'
<1> USE DEF StrandInv, ReceiverWithLoop, NoStrandedStream
<1>1. CASE UNCHANGED allVars
  BY <1>1 DEF allVars, vars
<1>2. ASSUME NEW s \in Streams, Connect(s) PROVE StrandInv'
  <2>1. CASE Register(s)
    BY <2>1 DEF Register, writeVars, PeerTypeOK, TypeOK
  <2>2. CASE SendSyn(s)
    BY <2>2 DEF SendSyn, mapVars, Room, PeerTypeOK, TypeOK
  <2>3. CASE SendTarget(s)
    BY <2>3 DEF SendTarget, mapVars, Room, PeerTypeOK, TypeOK
  <2>4. CASE SendUotRequest(s)
    BY <2>4 DEF SendUotRequest, mapVars, Room, PeerTypeOK, TypeOK
  <2>5. CASE ConnectFails(s)
    BY <2>5 DEF ConnectFails, writeVars, PeerTypeOK, TypeOK
  <2>6. QED
    BY <1>2, <2>1, <2>2, <2>3, <2>4, <2>5 DEF Connect
<1>3. ASSUME NEW s \in Streams, Relay(s) PROVE StrandInv'
  <2>1. CASE Read(s)
    BY <2>1 DEF Read, writeVars
  <2>2. CASE ReadEnd(s)
    BY <2>2 DEF ReadEnd, mapVars, writeVars
  <2>3. CASE Write(s)
    BY <2>3 DEF Write, mapVars
  <2>4. CASE Shutdown(s)
    BY <2>4 DEF Shutdown, mapVars
  <2>5. CASE Drop(s)
    BY <2>5 DEF Drop, PeerTypeOK, TypeOK
  <2>6. QED
    BY <1>3, <2>1, <2>2, <2>3, <2>4, <2>5 DEF Relay
<1>4. CASE WriteTask
  <2>1. CASE TakeFrames
    BY <2>1 DEF TakeFrames, mapVars, callVars
  <2>2. CASE Flush
    BY <2>2 DEF Flush, mapVars, callVars
  <2>3. CASE WriteBreak
    BY <2>3 DEF WriteBreak, mapVars, callVars
  <2>4. CASE WriteFinish
    BY <2>4 DEF WriteFinish, callVars
  <2>5. CASE WriteClear
    BY <2>5 DEF WriteClear, callVars
  <2>6. QED
    BY <1>4, <2>1, <2>2, <2>3, <2>4, <2>5 DEF WriteTask
<1>5. CASE ReadTask
  <2>1. /\ streams' \subseteq streams
        /\ UNCHANGED <<handle, wpc, rxOpen>>
    <3>1. CASE ReadFrame
      BY <3>1 DEF ReadFrame, EndStreams, callVars
    <3>2. CASE PushData
      BY <3>2 DEF PushData, callVars, writeVars
    <3>3. CASE ReadBreak
      BY <3>3 DEF ReadBreak, mapVars, callVars, writeVars
    <3>4. CASE ReadFinish
      BY <3>4 DEF ReadFinish, callVars, writeVars
    <3>5. CASE ReadClear
      BY <3>5 DEF ReadClear, callVars, writeVars
    <3>6. QED
      BY <1>5, <3>1, <3>2, <3>3, <3>4, <3>5 DEF ReadTask
  <2>2. QED
    BY <2>1
<1>6. CASE OutsideFinish \/ OutsideClear
  BY <1>6 DEF OutsideFinish, OutsideClear, callVars, writeVars
<1>7. CASE PeerControl \/ ConnectionLost \/ \E s \in Streams : PeerPsh(s) \/ PeerEnd(s)
  BY <1>7 DEF PeerControl, ConnectionLost, PeerPsh, PeerEnd, clientVars
<1>8. QED
  BY <1>1, <1>2, <1>3, <1>4, <1>5, <1>6, <1>7 DEF Next, Client, ClientNext, Ended

\* A relay is never left waiting for events of a session whose write task has
\* ended: no handle returned by connect_stream or connect_packet still has its
\* sender in the streams map.
THEOREM NoStranded == Spec => []NoStrandedStream
<1>1. PeerInit => StrandInv
  BY DEF PeerInit, Init, StrandInv, ReceiverWithLoop, NoStrandedStream
<1>2. StrandInv => NoStrandedStream
  BY DEF StrandInv
<1>3. QED
  BY <1>1, <1>2, StrandStep, SessionType, PTL DEF Spec

-----------------------------------------------------------------------------
(* What a relay reads is what the server sent *)

\* A payload of stream s, and what ends the stream.
IsPsh(f, s) == f.cmd = "Psh" /\ f.sid = s
IsEnd(f, s) == f.sid = s /\ (f.cmd = "Fin" \/ (f.cmd = "SynAck" /\ f.n # 0))

\* The frames w that have arrived bring payloads d + 1 .. n of stream s, each once and
\* in order, and the end of the stream only if the server has ended it, after them all.
Coming(w, s, d, n, en) ==
    /\ \A i \in DOMAIN w : IsPsh(w[i], s) => w[i].n \in d + 1 .. n
    /\ \A i, j \in DOMAIN w : i < j /\ IsPsh(w[i], s) /\ IsPsh(w[j], s) => w[i].n < w[j].n
    /\ \A k \in d + 1 .. n : \E i \in DOMAIN w : IsPsh(w[i], s) /\ w[i].n = k
    /\ \A i \in DOMAIN w : IsEnd(w[i], s) =>
         en /\ \A j \in DOMAIN w : i < j => ~IsPsh(w[j], s)

\* The read task is delivering a payload of s.
Pushing(s) == rpc = "push" /\ rcur.sid = s

\* The payloads in a stream's queue: an end can only be its last event.
NData(e) == IF e # <<>> /\ e[Len(e)].ev # "Data" THEN Len(e) - 1 ELSE Len(e)

\* The payloads of s that have left the wire.
Taken(s) == Len(got[s]) + NData(events[s]) + (IF Pushing(s) THEN 1 ELSE 0)

Alive(s) == handle[s] \notin {"none", "dropped", "failed"}

\* The map is cleared only once the session is closed.
Closing == wpc \in {"clear", "done"} \/ rpc \in {"clear", "done"} \/ xpc # "idle" => closed

\* A stream whose SYN is still to be queued has none on its way.
Unsent(s) ==
    handle[s] \in {"none", "registered"} =>
        /\ \A i \in DOMAIN writeQ : writeQ[i] # MkFrame("Syn", s, 0)
        /\ \A i \in DOMAIN buffer : buffer[i] # MkFrame("Syn", s, 0)
        /\ \A i \in DOMAIN wireOut : wireOut[i] # MkFrame("Syn", s, 0)

\* Nothing arrives for a stream that has not been registered,
Unborn(s) ==
    handle[s] = "none" =>
        /\ events[s] = <<>> /\ down[s] = 0 /\ ~downEnd[s] /\ ~SenderAlive(s)
        /\ \A i \in DOMAIN wireIn : wireIn[i].sid # s

\* and nobody reads one whose handle has not been returned or is gone.
Unread(s) == handle[s] # "open" => got[s] = <<>> /\ reader[s] = "reading"

\* The payloads read, queued and being delivered are 1, 2, 3 ..., and an end that is
\* queued or was read is the last thing the stream will ever have.
Queued(s) ==
    Alive(s) =>
        /\ \A i \in DOMAIN got[s] : got[s][i] = i
        /\ \A i \in DOMAIN events[s] :
             /\ events[s][i].ev = "Data" => events[s][i].n = Len(got[s]) + i
             /\ events[s][i].ev # "Data" => i = Len(events[s]) /\ ~SenderAlive(s)
        /\ Pushing(s) => rcur.n = Taken(s)
        /\ reader[s] # "reading" => events[s] = <<>> /\ ~SenderAlive(s)
        /\ Taken(s) <= down[s]

\* While its sender is in the map the wire brings the rest; a stream that has lost its
\* sender in a session that lives has been ended by the server and has everything.
Flows(s) ==
    Alive(s) /\ rpc \in {"read", "push"} =>
        /\ s \in streams => Coming(wireIn, s, Taken(s), down[s], downEnd[s])
        /\ s \notin streams /\ ~closed => ~Pushing(s) /\ downEnd[s] /\ Taken(s) = down[s]

StreamOK(s) == Unborn(s) /\ Unread(s) /\ Queued(s) /\ Flows(s)

ReadInv == Closing /\ \A s \in Streams : Unsent(s) /\ StreamOK(s)

\* A frame without meaning for s is passed over.
LEMMA ComingTail ==
  ASSUME NEW w \in Seq(Frame), w # <<>>, NEW s, NEW d \in Nat, NEW n \in Nat, NEW en,
         Coming(w, s, d, n, en), ~IsPsh(Head(w), s)
  PROVE  Coming(Tail(w), s, d, n, en)
<1>1. PICK v : v = Tail(w)
  OBVIOUS
<1>2. PICK m \in Nat : m = Len(w)
  OBVIOUS
<1>3. /\ DOMAIN w = 1 .. m /\ m # 0 /\ DOMAIN v = 1 .. m - 1
      /\ \A i \in 1 .. m - 1 : v[i] = w[i + 1] /\ i + 1 \in 1 .. m
      /\ Head(w) = w[1]
  BY <1>1, <1>2
<1>4. \A i \in 1 .. m : i # 1 => i - 1 \in 1 .. m - 1 /\ v[i - 1] = w[i]
  BY <1>3
<1>5. ASSUME NEW k \in d + 1 .. n PROVE \E i \in DOMAIN v : IsPsh(v[i], s) /\ v[i].n = k
  <2>1. PICK i \in DOMAIN w : IsPsh(w[i], s) /\ w[i].n = k
    BY DEF Coming
  <2>2. i # 1
    BY <1>3, <2>1
  <2> QED
    BY <1>3, <1>4, <2>1, <2>2
<1>6. ASSUME NEW i \in DOMAIN v, IsEnd(v[i], s)
      PROVE  en /\ \A j \in DOMAIN v : i < j => ~IsPsh(v[j], s)
  <2>1. i + 1 \in DOMAIN w /\ IsEnd(w[i + 1], s)
    BY <1>3, <1>6
  <2>2. en /\ \A j \in DOMAIN w : i + 1 < j => ~IsPsh(w[j], s)
    BY <2>1 DEF Coming
  <2>3. \A j \in DOMAIN v : i < j => j + 1 \in DOMAIN w /\ i + 1 < j + 1 /\ v[j] = w[j + 1]
    BY <1>3
  <2> QED
    BY <2>2, <2>3
<1>7. \A i \in DOMAIN v : IsPsh(v[i], s) => v[i].n \in d + 1 .. n
  BY <1>3 DEF Coming
<1>8. ASSUME NEW i \in DOMAIN v, NEW j \in DOMAIN v, i < j, IsPsh(v[i], s), IsPsh(v[j], s)
      PROVE  v[i].n < v[j].n
  <2>1. i + 1 \in DOMAIN w /\ j + 1 \in DOMAIN w /\ i + 1 < j + 1 /\ v[i] = w[i + 1] /\ v[j] = w[j + 1]
    BY <1>3, <1>8
  <2> QED
    BY <1>8, <2>1 DEF Coming
<1> QED
  BY <1>1, <1>5, <1>6, <1>7, <1>8 DEF Coming

\* The first payload on the wire is the next one.
LEMMA ComingTake ==
  ASSUME NEW w \in Seq(Frame), w # <<>>, NEW s, NEW d \in Nat, NEW n \in Nat, NEW en,
         Coming(w, s, d, n, en), IsPsh(Head(w), s)
  PROVE  Head(w).n = d + 1 /\ d + 1 <= n /\ Coming(Tail(w), s, d + 1, n, en)
<1>1. PICK v : v = Tail(w)
  OBVIOUS
<1>2. PICK m \in Nat : m = Len(w)
  OBVIOUS
<1>3. /\ DOMAIN w = 1 .. m /\ m # 0 /\ DOMAIN v = 1 .. m - 1
      /\ \A i \in 1 .. m - 1 : v[i] = w[i + 1] /\ i + 1 \in 1 .. m
      /\ Head(w) = w[1] /\ 1 \in 1 .. m
  BY <1>1, <1>2
<1>4. \A i \in 1 .. m : i # 1 => i - 1 \in 1 .. m - 1 /\ v[i - 1] = w[i]
  BY <1>3
<1>5. w[1].n \in d + 1 .. n
  BY <1>3 DEF Coming
<1>6. w[1].n = d + 1
  <2>1. PICK i \in DOMAIN w : IsPsh(w[i], s) /\ w[i].n = d + 1
    BY <1>5 DEF Coming
  <2>2. ASSUME i # 1 PROVE w[1].n < w[i].n
    <3>1. 1 \in DOMAIN w /\ 1 < i /\ IsPsh(w[1], s)
      BY <1>3, <2>2
    <3> QED
      BY <2>1, <3>1 DEF Coming
  <2> QED
    BY <1>5, <2>1, <2>2
<1>7. \A i \in DOMAIN v : IsPsh(v[i], s) => v[i].n \in d + 2 .. n
  <2> SUFFICES ASSUME NEW i \in DOMAIN v, IsPsh(v[i], s) PROVE v[i].n \in d + 2 .. n
    OBVIOUS
  <2>1. v[i] = w[i + 1] /\ i + 1 \in DOMAIN w /\ 1 < i + 1
    BY <1>3
  <2>2. w[i + 1].n \in d + 1 .. n /\ w[1].n < w[i + 1].n
    BY <1>3, <2>1 DEF Coming
  <2> QED
    BY <1>6, <2>1, <2>2
<1>8. ASSUME NEW k \in d + 2 .. n PROVE \E i \in DOMAIN v : IsPsh(v[i], s) /\ v[i].n = k
  <2>1. PICK i \in DOMAIN w : IsPsh(w[i], s) /\ w[i].n = k
    BY DEF Coming
  <2>2. i # 1
    BY <1>6, <2>1
  <2> QED
    BY <1>3, <1>4, <2>1, <2>2
<1>9. ASSUME NEW i \in DOMAIN v, IsEnd(v[i], s)
      PROVE  en /\ \A j \in DOMAIN v : i < j => ~IsPsh(v[j], s)
  <2>1. i + 1 \in DOMAIN w /\ IsEnd(w[i + 1], s)
    BY <1>3, <1>9
  <2>2. en /\ \A j \in DOMAIN w : i + 1 < j => ~IsPsh(w[j], s)
    BY <2>1 DEF Coming
  <2>3. \A j \in DOMAIN v : i < j => j + 1 \in DOMAIN w /\ i + 1 < j + 1 /\ v[j] = w[j + 1]
    BY <1>3
  <2> QED
    BY <2>2, <2>3
<1>10. ASSUME NEW i \in DOMAIN v, NEW j \in DOMAIN v, i < j, IsPsh(v[i], s), IsPsh(v[j], s)
       PROVE  v[i].n < v[j].n
  <2>1. i + 1 \in DOMAIN w /\ j + 1 \in DOMAIN w /\ i + 1 < j + 1 /\ v[i] = w[i + 1] /\ v[j] = w[j + 1]
    BY <1>3, <1>10
  <2> QED
    BY <1>10, <2>1 DEF Coming
<1>11. Coming(v, s, d + 1, n, en)
  BY <1>7, <1>8, <1>9, <1>10 DEF Coming
<1> QED
  BY <1>1, <1>3, <1>5, <1>6, <1>11

\* Before the end all payloads have been taken.
LEMMA ComingEnd ==
  ASSUME NEW w \in Seq(Frame), w # <<>>, NEW s, NEW d \in Nat, NEW n \in Nat, NEW en,
         Coming(w, s, d, n, en), IsEnd(Head(w), s), d <= n
  PROVE  en /\ d = n
<1>1. Head(w) = w[1] /\ 1 \in DOMAIN w /\ \A i \in DOMAIN w : i = 1 \/ 1 < i
  OBVIOUS
<1>2. en /\ \A j \in DOMAIN w : ~IsPsh(w[j], s)
  BY <1>1 DEF Coming, IsEnd, IsPsh
<1>3. d + 1 \notin d + 1 .. n
  BY <1>2 DEF Coming
<1> QED
  BY <1>2, <1>3

\* A frame that the server appends: the next payload, the end, or neither.
LEMMA ComingMore ==
  ASSUME NEW w \in Seq(Frame), NEW f \in Frame, NEW s, NEW d \in Nat, NEW n \in Nat, NEW en,
         Coming(w, s, d, n, en), d <= n
  PROVE  /\ ~en /\ IsPsh(f, s) /\ f.n = n + 1 => Coming(Append(w, f), s, d, n + 1, en)
         /\ IsEnd(f, s) => Coming(Append(w, f), s, d, n, TRUE)
         /\ ~IsPsh(f, s) /\ ~IsEnd(f, s) => Coming(Append(w, f), s, d, n, en)
<1>1. PICK v : v = Append(w, f)
  OBVIOUS
<1>2. PICK m \in Nat : m = Len(w)
  OBVIOUS
<1>3. /\ DOMAIN w = 1 .. m /\ DOMAIN v = 1 .. m + 1 /\ v[m + 1] = f
      /\ \A i \in 1 .. m : v[i] = w[i]
  BY <1>1, <1>2
<1>4. /\ \A i \in 1 .. m : IsPsh(v[i], s) => v[i].n \in d + 1 .. n
      /\ \A i, j \in 1 .. m : i < j /\ IsPsh(v[i], s) /\ IsPsh(v[j], s) => v[i].n < v[j].n
      /\ \A k \in d + 1 .. n : \E i \in 1 .. m : IsPsh(v[i], s) /\ v[i].n = k
      /\ \A i \in 1 .. m : IsEnd(v[i], s) => en /\ \A j \in 1 .. m : i < j => ~IsPsh(v[j], s)
  BY <1>3 DEF Coming
<1>5. \A i \in 1 .. m + 1 : i = m + 1 \/ i \in 1 .. m
  OBVIOUS
<1>6. ~(IsPsh(f, s) /\ IsEnd(f, s))
  BY DEF IsPsh, IsEnd
<1>7. ASSUME ~en, IsPsh(f, s), f.n = n + 1 PROVE Coming(v, s, d, n + 1, en)
  <2>1. \A i \in 1 .. m + 1 : IsPsh(v[i], s) => v[i].n \in d + 1 .. n + 1
    BY <1>3, <1>4, <1>5, <1>7
  <2>2. ASSUME NEW i \in 1 .. m + 1, NEW j \in 1 .. m + 1, i < j, IsPsh(v[i], s), IsPsh(v[j], s)
        PROVE  v[i].n < v[j].n
    <3>1. i \in 1 .. m /\ (j = m + 1 \/ j \in 1 .. m)
      BY <2>2
    <3>2. CASE j \in 1 .. m
      BY <1>4, <2>2, <3>1, <3>2
    <3>3. CASE j = m + 1
      <4>1. v[i].n \in d + 1 .. n
        BY <1>4, <2>2, <3>1
      <4> QED
        BY <1>3, <1>7, <3>3, <4>1
    <3> QED
      BY <3>1, <3>2, <3>3
  <2>3. \A k \in d + 1 .. n + 1 : \E i \in 1 .. m + 1 : IsPsh(v[i], s) /\ v[i].n = k
    BY <1>3, <1>4, <1>7
  <2>4. \A i \in 1 .. m + 1 : ~IsEnd(v[i], s)
    BY <1>3, <1>4, <1>5, <1>6, <1>7
  <2> QED
    BY <1>3, <2>1, <2>2, <2>3, <2>4 DEF Coming
<1>8. ASSUME ~IsPsh(f, s), NEW e2, e2 = TRUE \/ (e2 = en /\ ~IsEnd(f, s)) PROVE Coming(v, s, d, n, e2)
  <2>1. \A i \in 1 .. m + 1 : IsPsh(v[i], s) => v[i].n \in d + 1 .. n
    BY <1>3, <1>4, <1>5, <1>8
  <2>2. \A i, j \in 1 .. m + 1 : i < j /\ IsPsh(v[i], s) /\ IsPsh(v[j], s) => v[i].n < v[j].n
    BY <1>3, <1>4, <1>5, <1>8
  <2>3. \A k \in d + 1 .. n : \E i \in 1 .. m + 1 : IsPsh(v[i], s) /\ v[i].n = k
    BY <1>4
  <2>4. \A i \in 1 .. m + 1 : IsEnd(v[i], s) => e2 /\ \A j \in 1 .. m + 1 : i < j => ~IsPsh(v[j], s)
    BY <1>3, <1>4, <1>5, <1>8
  <2> QED
    BY <1>3, <2>1, <2>2, <2>3, <2>4 DEF Coming
<1> QED
  BY <1>1, <1>6, <1>7, <1>8

\* Counting the payloads of a queue.
LEMMA NDataIs ==
  ASSUME NEW e \in Seq(StreamEvent)
  PROVE  /\ NData(e) \in Nat /\ NData(<<>>) = 0
         /\ (\A i \in DOMAIN e : e[i].ev = "Data") => NData(e) = Len(e)
         /\ \A x \in StreamEvent : NData(Append(e, x)) = IF x.ev = "Data" THEN Len(e) + 1 ELSE Len(e)
         /\ e # <<>> /\ Head(e).ev = "Data" => NData(e) = NData(Tail(e)) + 1
<1>1. NData(e) \in Nat /\ NData(<<>>) = 0
  BY DEF NData
<1>2. ASSUME \A i \in DOMAIN e : e[i].ev = "Data" PROVE NData(e) = Len(e)
  BY <1>2 DEF NData
<1>3. ASSUME NEW x \in StreamEvent PROVE NData(Append(e, x)) = IF x.ev = "Data" THEN Len(e) + 1 ELSE Len(e)
  <2>1. Append(e, x) # <<>> /\ Len(Append(e, x)) = Len(e) + 1 /\ Append(e, x)[Len(e) + 1] = x
    OBVIOUS
  <2> QED
    BY <2>1 DEF NData
<1>4. ASSUME e # <<>>, Head(e).ev = "Data" PROVE NData(e) = NData(Tail(e)) + 1
  <2>b. PICK t : t = Tail(e)
    OBVIOUS
  <2>c. PICK m \in Nat : m = Len(e)
    OBVIOUS
  <2>0. t = Tail(e) /\ m = Len(e)
    BY <2>b, <2>c
  <2>a. /\ m # 0 /\ t \in Seq(StreamEvent) /\ Len(t) = m - 1 /\ Head(e) = e[1]
        /\ \A i \in 1 .. m - 1 : t[i] = e[i + 1]
    BY <1>4, <2>0
  <2>1. CASE m = 1
    <3>1. t = <<>>
      BY <2>1, <2>a
    <3>2. NData(t) = 0
      BY <1>1, <3>1
    <3>3. NData(e) = 1
      BY <1>4, <2>0, <2>1, <2>a DEF NData
    <3> QED
      BY <2>0, <3>2, <3>3
  <2>2. CASE m # 1
    <3>1. t # <<>> /\ t[m - 1] = e[m]
      BY <2>2, <2>a
    <3> QED
      BY <1>4, <2>0, <2>a, <3>1 DEF NData
  <2> QED
    BY <2>1, <2>2
<1> QED
  BY <1>1, <1>2, <1>3, <1>4

\* What the types say of one stream.
LEMMA StreamType ==
  ASSUME PeerTypeOK, NEW s \in Streams
  PROVE  /\ got[s] \in Seq(Nat) /\ Len(got[s]) \in Nat /\ events[s] \in Seq(StreamEvent)
         /\ Len(events[s]) \in Nat /\ NData(events[s]) \in Nat /\ Taken(s) \in Nat
         /\ down[s] \in Nat /\ downEnd[s] \in BOOLEAN /\ closed \in BOOLEAN
         /\ wireIn \in Seq(Frame) /\ streams \subseteq Streams
         /\ (\A i \in DOMAIN events[s] : events[s][i].ev = "Data") => NData(events[s]) = Len(events[s])
<1>1. got[s] \in Seq(Nat) /\ events[s] \in Seq(StreamEvent) /\ down[s] \in Nat /\ downEnd[s] \in BOOLEAN
      /\ closed \in BOOLEAN /\ wireIn \in Seq(Frame) /\ streams \subseteq Streams
  BY DEF PeerTypeOK, TypeOK
<1>2. Len(got[s]) \in Nat /\ Len(events[s]) \in Nat
  BY <1>1
<1>3. NData(events[s]) \in Nat /\ ((\A i \in DOMAIN events[s] : events[s][i].ev = "Data") => NData(events[s]) = Len(events[s]))
  BY <1>1, NDataIs
<1>4. Taken(s) \in Nat
  BY <1>2, <1>3 DEF Taken
<1> QED
  BY <1>1, <1>2, <1>3, <1>4

\* The sender of a stream is no more alive after a step that leaves the stream alone.
Kept(s) ==
    /\ events'[s] = events[s] /\ got'[s] = got[s] /\ reader'[s] = reader[s]
    /\ down'[s] = down[s] /\ downEnd'[s] = downEnd[s]
    /\ Pushing(s)' <=> Pushing(s)
    /\ Pushing(s) => rcur' = rcur
    /\ closed => closed'
    /\ rpc' \in {"read", "push"} => rpc \in {"read", "push"}

\* A step that leaves a stream's queue, its reader and its entry alone keeps what is
\* known of it if the wire still brings what it has to.
LEMMA KeptOK ==
  ASSUME NEW s \in Streams, StreamOK(s), Kept(s), s \in streams' <=> s \in streams,
         handle'[s] = handle[s] \/ (Alive(s) /\ Alive(s)' /\ handle[s] # "open"),
         handle[s] = "none" => \A i \in DOMAIN wireIn' : wireIn'[i].sid # s,
         Alive(s) /\ s \in streams /\ rpc' \in {"read", "push"} /\ Coming(wireIn, s, Taken(s), down[s], downEnd[s])
           => Coming(wireIn', s, Taken(s), down[s], downEnd[s])
  PROVE  StreamOK(s)'
<1>1. Taken(s)' = Taken(s) /\ (SenderAlive(s)' <=> SenderAlive(s)) /\ (Alive(s)' <=> Alive(s))
      /\ (handle'[s] = "none" <=> handle[s] = "none") /\ (handle'[s] # "open" => handle[s] # "open")
  BY DEF Taken, SenderAlive, Kept, Pushing, Alive
<1>2. Unborn(s)'
  BY <1>1 DEF StreamOK, Unborn, Kept
<1>3. Unread(s)'
  BY <1>1 DEF StreamOK, Unread, Kept
<1>4. Queued(s)'
  BY <1>1 DEF StreamOK, Queued, Kept
<1>5. Flows(s)'
  BY <1>1 DEF StreamOK, Flows, Kept
<1> QED
  BY <1>2, <1>3, <1>4, <1>5 DEF StreamOK

\* A step that does not touch the wire either.
LEMMA QuietOK ==
  ASSUME NEW s \in Streams, StreamOK(s), Kept(s), s \in streams' <=> s \in streams, wireIn' = wireIn,
         handle'[s] = handle[s] \/ (Alive(s) /\ Alive(s)' /\ handle[s] # "open")
  PROVE  StreamOK(s)'
<1>1. handle[s] = "none" => \A i \in DOMAIN wireIn' : wireIn'[i].sid # s
  BY DEF StreamOK, Unborn
<1> QED
  BY <1>1, KeptOK

\* The map is cleared after the session was closed.
LEMMA ClearedOK ==
  ASSUME NEW s \in Streams, StreamOK(s), Kept(s), streams' = {}, closed', wireIn' = wireIn, handle'[s] = handle[s]
  PROVE  StreamOK(s)'
<1>1. Taken(s)' = Taken(s) /\ (SenderAlive(s)' => SenderAlive(s)) /\ (Alive(s)' <=> Alive(s))
  BY DEF Taken, SenderAlive, Kept, Pushing, Alive
<1>2. Unborn(s)'
  BY <1>1 DEF StreamOK, Unborn, Kept
<1>3. Unread(s)'
  BY <1>1 DEF StreamOK, Unread, Kept
<1>4. Queued(s)'
  BY <1>1 DEF StreamOK, Queued, Kept
<1>5. Flows(s)'
  BY <1>1 DEF StreamOK, Flows, Kept
<1> QED
  BY <1>2, <1>3, <1>4, <1>5 DEF StreamOK

\* The steps of a connect call.
LEMMA ConnectOK ==
  ASSUME PeerTypeOK, NEW s \in Streams, StreamOK(s), NEW t \in Streams, Connect(t), UNCHANGED peerVars
  PROVE  StreamOK(s)'
<1> USE DEF peerVars
<1>0. handle \in [Streams -> {"none", "registered", "synned", "uot", "open", "failed", "dropped"}]
  BY DEF PeerTypeOK, TypeOK
<1>1. CASE Register(t)
  <2>1. Kept(s) /\ wireIn' = wireIn
    BY <1>1 DEF Register, writeVars, readVars, wireVars, Kept, Pushing
  <2>2. CASE s # t
    <3>1. handle'[s] = handle[s] /\ (s \in streams' <=> s \in streams)
      BY <1>0, <1>1, <2>2 DEF Register
    <3> QED
      BY <2>1, <3>1, QuietOK
  <2>3. CASE s = t
    <3>1. handle[s] = "none" /\ handle'[s] = "registered" /\ s \in streams'
      BY <1>0, <1>1, <2>3 DEF Register
    <3>2. /\ events'[s] = <<>> /\ down'[s] = 0 /\ downEnd'[s] = downEnd[s] /\ ~Pushing(s)' /\ got'[s] = <<>> /\ reader'[s] = "reading"
          /\ \A i \in DOMAIN wireIn' : wireIn'[i].sid # s
      BY <2>1, <3>1 DEF StreamOK, Unborn, Unread, Kept, SenderAlive, Pushing
    <3>3. NData(<<>>) = 0 /\ Len(<<>>) = 0
      BY StreamType, NDataIs
    <3>4. Taken(s)' = 0
      BY <3>2, <3>3 DEF Taken
    <3>5. Coming(wireIn', s, 0, 0, downEnd[s])
      BY <3>2 DEF Coming, IsPsh, IsEnd
    <3>6. Unborn(s)' /\ Unread(s)'
      BY <3>1, <3>2 DEF Unborn, Unread
    <3>7. Queued(s)'
      BY <3>2, <3>4 DEF Queued
    <3>8. Flows(s)'
      BY <3>1, <3>2, <3>4, <3>5 DEF Flows
    <3> QED
      BY <3>6, <3>7, <3>8 DEF StreamOK
  <2> QED
    BY <2>2, <2>3
<1>2. CASE SendSyn(t) \/ SendTarget(t) \/ SendUotRequest(t)
  <2>1. Kept(s) /\ wireIn' = wireIn /\ streams' = streams
    BY <1>2 DEF SendSyn, SendTarget, SendUotRequest, mapVars, readVars, wireVars, Kept, Pushing
  <2>2. handle'[s] = handle[s] \/ (Alive(s) /\ Alive(s)' /\ handle[s] # "open")
    BY <1>0, <1>2 DEF SendSyn, SendTarget, SendUotRequest, Alive
  <2> QED
    BY <2>1, <2>2, QuietOK
<1>3. CASE ConnectFails(t)
  <2>1. CASE s # t
    <3>1. Kept(s) /\ wireIn' = wireIn /\ streams' = streams /\ handle'[s] = handle[s]
      BY <1>0, <1>3, <2>1 DEF ConnectFails, writeVars, readVars, wireVars, Kept, Pushing
    <3> QED
      BY <3>1, QuietOK
  <2>2. CASE s = t
    <3>1. handle[s] # "open" /\ handle'[s] = "failed" /\ got' = got /\ reader' = reader
      BY <1>0, <1>3, <2>2 DEF ConnectFails
    <3> QED
      BY <3>1 DEF StreamOK, Unborn, Unread, Queued, Flows, Alive
  <2> QED
    BY <2>1, <2>2
<1> QED
  BY <1>1, <1>2, <1>3 DEF Connect

\* A queue of one event has nothing behind it.
LEMMA TailOfOne ==
  ASSUME NEW e \in Seq(StreamEvent), Len(e) = 1
  PROVE  Tail(e) = <<>>
<1>1. PICK t : t = Tail(e)
  OBVIOUS
<1>2. t \in Seq(StreamEvent) /\ Len(t) = 0
  BY <1>1
<1> QED
  BY <1>1, <1>2

\* A read hands on the next payload, or reports the end.
LEMMA ReadOK ==
  ASSUME PeerTypeOK, NEW s \in Streams, StreamOK(s), Read(s), UNCHANGED peerVars
  PROVE  StreamOK(s)'
<1>1. PICK e : e = events[s]
  OBVIOUS
<1>2. PICK g : g = got[s]
  OBVIOUS
<1>3. /\ e \in Seq(StreamEvent) /\ e # <<>> /\ g \in Seq(Nat) /\ Len(g) \in Nat /\ NData(e) \in Nat
      /\ Head(e) = e[1] /\ 1 \in DOMAIN e /\ Head(e) \in StreamEvent /\ Tail(e) \in Seq(StreamEvent)
  BY <1>1, <1>2, StreamType DEF Read
<1>4. /\ handle[s] = "open" /\ reader[s] = "reading" /\ events'[s] = Tail(e)
      /\ got'[s] = (IF Head(e).ev = "Data" THEN Append(g, Head(e).n) ELSE g)
      /\ (reader'[s] = "reading" <=> Head(e).ev = "Data")
      /\ handle' = handle /\ streams' = streams /\ closed' = closed /\ rpc' = rpc /\ rcur' = rcur
      /\ wireIn' = wireIn /\ down' = down /\ downEnd' = downEnd
  BY <1>1, <1>2, <1>3 DEF Read, PeerTypeOK, TypeOK, StreamEvent, readVars, wireVars, peerVars
<1>5. Alive(s) /\ Alive(s)' /\ (Pushing(s)' <=> Pushing(s)) /\ (SenderAlive(s)' <=> SenderAlive(s))
  BY <1>4 DEF Alive, Pushing, SenderAlive
<1>6. /\ \A i \in DOMAIN g : g[i] = i
      /\ \A i \in DOMAIN e :
           /\ e[i].ev = "Data" => e[i].n = Len(g) + i
           /\ e[i].ev # "Data" => i = Len(e) /\ ~SenderAlive(s)
  BY <1>1, <1>2, <1>5 DEF StreamOK, Queued
<1>7. Unborn(s)' /\ Unread(s)'
  BY <1>4 DEF Unborn, Unread
<1>8. Taken(s)' = Taken(s)
  <2>0. PICK x \in {0, 1} : x = IF Pushing(s) THEN 1 ELSE 0
    OBVIOUS
  <2>a. Taken(s) = Len(g) + NData(e) + x /\ Taken(s)' = Len(got'[s]) + NData(Tail(e)) + x
    BY <1>1, <1>2, <1>4, <1>5, <2>0 DEF Taken
  <2>1. CASE Head(e).ev = "Data"
    <3>1. NData(e) = NData(Tail(e)) + 1 /\ NData(Tail(e)) \in Nat
      BY <1>3, <2>1, NDataIs
    <3>2. Len(got'[s]) = Len(g) + 1
      BY <1>3, <1>4, <2>1 DEF StreamEvent
    <3> QED
      BY <1>3, <2>a, <3>1, <3>2
  <2>2. CASE Head(e).ev # "Data"
    <3>1. Len(e) = 1
      BY <1>3, <1>6, <2>2
    <3>2. Tail(e) = <<>>
      BY <1>3, <3>1, TailOfOne
    <3>3. NData(e) = 0 /\ NData(Tail(e)) = 0
      BY <1>3, <2>2, <3>1, <3>2, NDataIs DEF NData
    <3> QED
      BY <1>4, <2>2, <2>a, <3>3
  <2> QED
    BY <2>1, <2>2
<1>9. \A i \in DOMAIN got'[s] : got'[s][i] = i
  <2>1. CASE Head(e).ev = "Data"
    <3>1. Head(e).n = Len(g) + 1
      BY <1>3, <1>6, <2>1
    <3>2. got'[s] = Append(g, Len(g) + 1)
      BY <1>4, <2>1, <3>1
    <3> QED
      BY <1>3, <1>6, <3>2
  <2>2. CASE Head(e).ev # "Data"
    BY <1>4, <1>6, <2>2
  <2> QED
    BY <2>1, <2>2
<1>10. ASSUME NEW i \in DOMAIN Tail(e)
       PROVE  /\ Tail(e)[i].ev = "Data" => Tail(e)[i].n = Len(got'[s]) + i
              /\ Tail(e)[i].ev # "Data" => i = Len(Tail(e)) /\ ~SenderAlive(s)
  <2>1. Tail(e)[i] = e[i + 1] /\ i + 1 \in DOMAIN e /\ Len(Tail(e)) = Len(e) - 1 /\ i \in Nat /\ Len(e) \in Nat /\ i # 0
    BY <1>3, <1>10
  <2>2. Head(e).ev = "Data"
    BY <1>3, <1>6, <2>1
  <2>3. Len(got'[s]) = Len(g) + 1
    BY <1>3, <1>4, <2>2 DEF StreamEvent
  <2>4. /\ e[i + 1].ev = "Data" => e[i + 1].n = Len(g) + (i + 1)
        /\ e[i + 1].ev # "Data" => i + 1 = Len(e) /\ ~SenderAlive(s)
    BY <1>6, <2>1
  <2>5. PICK y, l : y = Tail(e)[i] /\ l = Len(Tail(e))
    OBVIOUS
  <2>6. /\ y.ev = "Data" => y.n = Len(got'[s]) + i
        /\ y.ev # "Data" => i = l /\ ~SenderAlive(s)
    <3>1. y = e[i + 1] /\ l = Len(e) - 1
      BY <2>1, <2>5
    <3>2. /\ y.ev = "Data" => y.n = Len(g) + (i + 1)
          /\ y.ev # "Data" => i + 1 = Len(e) /\ ~SenderAlive(s)
      BY <2>4, <3>1
    <3>3. PICK a \in Nat : a = Len(g)
      BY <1>3
    <3>4. Len(got'[s]) + i = a + (i + 1)
      BY <2>1, <2>3, <3>3
    <3> QED
      BY <2>1, <3>1, <3>2, <3>3, <3>4
  <2> QED
    BY <2>5, <2>6
<1>11. reader'[s] # "reading" => Tail(e) = <<>> /\ ~SenderAlive(s)
  <2> SUFFICES ASSUME reader'[s] # "reading" PROVE Tail(e) = <<>> /\ ~SenderAlive(s)
    OBVIOUS
  <2>1. Len(e) = 1 /\ ~SenderAlive(s)
    BY <1>3, <1>4, <1>6
  <2> QED
    BY <1>3, <2>1, TailOfOne
<1>12. Queued(s)'
  BY <1>4, <1>5, <1>8, <1>9, <1>10, <1>11 DEF StreamOK, Queued
<1>13. Flows(s)'
  BY <1>4, <1>5, <1>8 DEF StreamOK, Flows
<1> QED
  BY <1>7, <1>12, <1>13 DEF StreamOK

\* The other steps of a relay.
LEMMA RelayOK ==
  ASSUME PeerTypeOK, NEW s \in Streams, StreamOK(s), NEW t \in Streams, Relay(t), UNCHANGED peerVars
  PROVE  StreamOK(s)'
<1> USE DEF peerVars
<1>0. /\ handle \in [Streams -> {"none", "registered", "synned", "uot", "open", "failed", "dropped"}]
      /\ events \in [Streams -> Seq(StreamEvent)] /\ got \in [Streams -> Seq(Nat)] /\ reader \in [Streams -> {"reading", "eof", "error"}]
      /\ closed \in BOOLEAN
  BY DEF PeerTypeOK, TypeOK
<1>1. CASE Read(t)
  <2>1. CASE s # t
    <3>1. Kept(s) /\ wireIn' = wireIn /\ streams' = streams /\ handle' = handle
      BY <1>0, <1>1, <2>1 DEF Read, readVars, wireVars, Kept, Pushing
    <3> QED
      BY <3>1, QuietOK
  <2> QED
    BY <1>1, <2>1, ReadOK
<1>2. CASE ReadEnd(t)
  <2>1. /\ wireIn' = wireIn /\ streams' = streams /\ handle' = handle /\ rpc' = rpc /\ rcur' = rcur /\ closed' = closed
        /\ events' = events /\ got' = got
    BY <1>2 DEF ReadEnd, mapVars, readVars, wireVars
  <2>2. CASE s # t
    <3>1. Kept(s)
      BY <1>0, <1>2, <2>1, <2>2 DEF ReadEnd, Kept, Pushing
    <3> QED
      BY <2>1, <3>1, QuietOK
  <2>3. CASE s = t
    <3>1. handle[s] = "open" /\ events[s] = <<>> /\ ~SenderAlive(s)
      BY <1>2, <2>3 DEF ReadEnd
    <3>2. Taken(s)' = Taken(s) /\ (SenderAlive(s)' <=> SenderAlive(s)) /\ (Alive(s)' <=> Alive(s)) /\ (Pushing(s)' <=> Pushing(s))
      BY <2>1 DEF Taken, SenderAlive, Pushing, Alive
    <3>3. Unborn(s)' /\ Unread(s)'
      BY <2>1, <3>1 DEF Unborn, Unread
    <3>4. Queued(s)'
      BY <2>1, <3>1, <3>2 DEF StreamOK, Queued
    <3>5. Flows(s)'
      BY <2>1, <3>2 DEF StreamOK, Flows
    <3> QED
      BY <3>3, <3>4, <3>5 DEF StreamOK
  <2> QED
    BY <2>2, <2>3
<1>3. CASE Write(t) \/ Shutdown(t)
  <2>1. Kept(s) /\ wireIn' = wireIn /\ streams' = streams /\ handle' = handle
    BY <1>3 DEF Write, Shutdown, mapVars, readVars, wireVars, Kept, Pushing
  <2> QED
    BY <2>1, QuietOK
<1>4. CASE Drop(t)
  <2>1. CASE s # t
    <3>1. Kept(s) /\ wireIn' = wireIn /\ (s \in streams' <=> s \in streams) /\ handle'[s] = handle[s]
      BY <1>0, <1>4, <2>1 DEF Drop, readVars, wireVars, Kept, Pushing
    <3> QED
      BY <3>1, QuietOK
  <2>2. CASE s = t
    <3>1. handle'[s] = "dropped" /\ got'[s] = <<>> /\ reader'[s] = "reading"
      BY <1>0, <1>4, <2>2 DEF Drop
    <3> QED
      BY <3>1 DEF StreamOK, Unborn, Unread, Queued, Flows, Alive
  <2> QED
    BY <2>1, <2>2
<1> QED
  BY <1>1, <1>2, <1>3, <1>4 DEF Relay

\* The write task and the tasks that finish the session from outside.
LEMMA WriteTaskOK ==
  ASSUME NEW s \in Streams, StreamOK(s), Closing, WriteTask \/ OutsideFinish \/ OutsideClear, UNCHANGED peerVars
  PROVE  StreamOK(s)'
<1> USE DEF peerVars
<1>1. CASE TakeFrames \/ Flush \/ WriteBreak \/ WriteFinish \/ OutsideFinish
  <2>1. Kept(s) /\ wireIn' = wireIn /\ streams' = streams /\ handle' = handle
    BY <1>1 DEF TakeFrames, Flush, WriteBreak, WriteFinish, OutsideFinish, mapVars, callVars, writeVars, readVars, wireVars,
                Kept, Pushing
  <2> QED
    BY <2>1, QuietOK
<1>2. CASE WriteClear \/ OutsideClear
  <2>1. Kept(s) /\ wireIn' = wireIn /\ streams' = {} /\ handle' = handle /\ closed'
    BY <1>2 DEF WriteClear, OutsideClear, callVars, writeVars, readVars, wireVars, Kept, Pushing, Closing
  <2> QED
    BY <2>1, ClearedOK
<1> QED
  BY <1>1, <1>2 DEF WriteTask

\* Frames that the peer sends.
LEMMA PeerOK ==
  ASSUME PeerTypeOK, NEW s \in Streams, StreamOK(s), Unsent(s),
         PeerControl \/ ConnectionLost \/ \E t \in Streams : PeerPsh(t) \/ PeerEnd(t)
  PROVE  StreamOK(s)'
<1>0. /\ wireIn \in Seq(Frame) /\ Taken(s) \in Nat /\ down[s] \in Nat /\ down \in [Streams -> Nat] /\ downEnd \in [Streams -> BOOLEAN]
      /\ 0 \notin Streams
  BY StreamType, StreamsAssumption DEF PeerTypeOK, TypeOK
<1>1. SynArrived(s) => handle[s] # "none"
  BY DEF SynArrived, Unsent
<1>2. Alive(s) /\ ~closed /\ Arrives /\ s \notin streams => downEnd[s]
  BY DEF StreamOK, Flows, Arrives
<1>3. Alive(s) => Taken(s) <= down[s]
  BY DEF StreamOK, Queued
<1>4. ASSUME NEW f \in Frame, wireIn' = Append(wireIn, f), UNCHANGED clientVars, down'[s] = down[s], downEnd'[s] = downEnd[s],
             ~IsPsh(f, s), ~IsEnd(f, s), f.sid = s => SynArrived(s)
      PROVE  StreamOK(s)'
  <2>1. Kept(s) /\ handle' = handle /\ streams' = streams
    BY <1>4 DEF Kept, clientVars, Pushing
  <2>2. ASSUME handle[s] = "none", NEW i \in DOMAIN wireIn' PROVE wireIn'[i].sid # s
    <3>1. wireIn'[i] = f \/ (i \in DOMAIN wireIn /\ wireIn'[i] = wireIn[i])
      BY <1>0, <1>4, <2>2
    <3> QED
      BY <1>1, <1>4, <2>2, <3>1 DEF StreamOK, Unborn
  <2>3. Alive(s) /\ Coming(wireIn, s, Taken(s), down[s], downEnd[s]) => Coming(wireIn', s, Taken(s), down[s], downEnd[s])
    BY <1>0, <1>3, <1>4, ComingMore
  <2> QED
    BY <2>1, <2>2, <2>3, KeptOK
<1>5. CASE PeerControl
  <2>1. PICK f \in ControlFrames : wireIn' = Append(wireIn, f)
    BY <1>5 DEF PeerControl
  <2>2. f \in Frame /\ (f.sid = s => SynArrived(s)) /\ f.cmd # "Psh" /\ f.cmd # "Fin" /\ (f.cmd = "SynAck" => f.n = 0)
    BY <1>0, <2>1 DEF ControlFrames, MkFrame, Frame, Command
  <2> QED
    BY <1>4, <1>5, <2>1, <2>2 DEF PeerControl, IsPsh, IsEnd
<1>6. CASE ConnectionLost
  <2>1. Kept(s) /\ handle' = handle /\ streams' = streams /\ wireIn' = wireIn
    BY <1>6 DEF ConnectionLost, Kept, clientVars, peerVars, Pushing
  <2> QED
    BY <2>1, QuietOK
<1>7. ASSUME NEW t \in Streams, PeerPsh(t), t # s PROVE StreamOK(s)'
  <2>1. MkFrame("Psh", t, down[t] + 1) \in Frame /\ MkFrame("Psh", t, down[t] + 1).sid = t
    BY <1>0 DEF MkFrame, Frame, Command
  <2> QED
    BY <1>0, <1>4, <1>7, <2>1 DEF PeerPsh, IsPsh, IsEnd
<1>8. ASSUME NEW t \in Streams, PeerEnd(t), t # s PROVE StreamOK(s)'
  <2>1. PICK f \in {MkFrame("Fin", t, 0), MkFrame("SynAck", t, 1)} : wireIn' = Append(wireIn, f)
    BY <1>8 DEF PeerEnd
  <2>2. f \in Frame /\ f.sid = t
    BY <2>1 DEF MkFrame, Frame, Command
  <2> QED
    BY <1>0, <1>4, <1>8, <2>1, <2>2 DEF PeerEnd, IsPsh, IsEnd
<1>9. ASSUME handle[s] # "none", UNCHANGED clientVars, Arrives, ~downEnd[s],
             down'[s] \in Nat, down[s] <= down'[s],
             Alive(s) /\ Coming(wireIn, s, Taken(s), down[s], downEnd[s]) => Coming(wireIn', s, Taken(s), down'[s], downEnd'[s])
      PROVE  StreamOK(s)'
  <2>1. Taken(s)' = Taken(s) /\ (SenderAlive(s)' <=> SenderAlive(s)) /\ (Alive(s)' <=> Alive(s)) /\ (Pushing(s)' <=> Pushing(s))
        /\ events' = events /\ got' = got /\ reader' = reader /\ rcur' = rcur /\ rpc' = rpc /\ streams' = streams /\ closed' = closed
        /\ handle' = handle
    BY <1>9 DEF Taken, SenderAlive, Pushing, Alive, clientVars
  <2>2. Unborn(s)' /\ Unread(s)'
    BY <1>9, <2>1 DEF StreamOK, Unborn, Unread
  <2>3. Alive(s) => Taken(s) <= down'[s]
    BY <1>0, <1>3, <1>9
  <2>4. Queued(s)'
    BY <2>1, <2>3 DEF StreamOK, Queued
  <2>5. Flows(s)'
    BY <1>2, <1>9, <2>1 DEF StreamOK, Flows
  <2> QED
    BY <2>2, <2>4, <2>5 DEF StreamOK
<1>10. CASE PeerPsh(s)
  <2>1. PICK f : f = MkFrame("Psh", s, down[s] + 1)
    OBVIOUS
  <2>2. f \in Frame /\ IsPsh(f, s) /\ f.n = down[s] + 1
    BY <1>0, <2>1 DEF MkFrame, Frame, Command, IsPsh
  <2>3. down'[s] = down[s] + 1 /\ downEnd' = downEnd /\ wireIn' = Append(wireIn, f) /\ ~downEnd[s] /\ Arrives /\ SynArrived(s)
        /\ UNCHANGED clientVars
    BY <1>0, <1>10, <2>1 DEF PeerPsh
  <2>4. Alive(s) /\ Coming(wireIn, s, Taken(s), down[s], downEnd[s]) => Coming(wireIn', s, Taken(s), down'[s], downEnd'[s])
    BY <1>0, <1>3, <2>2, <2>3, ComingMore
  <2> QED
    BY <1>0, <1>1, <1>9, <2>3, <2>4
<1>11. CASE PeerEnd(s)
  <2>1. PICK f \in {MkFrame("Fin", s, 0), MkFrame("SynAck", s, 1)} : wireIn' = Append(wireIn, f)
    BY <1>11 DEF PeerEnd
  <2>2. f \in Frame /\ IsEnd(f, s)
    BY <2>1 DEF MkFrame, Frame, Command, IsEnd
  <2>3. down' = down /\ downEnd'[s] = TRUE /\ ~downEnd[s] /\ Arrives /\ SynArrived(s) /\ UNCHANGED clientVars
    BY <1>0, <1>11 DEF PeerEnd
  <2>4. Alive(s) /\ Coming(wireIn, s, Taken(s), down[s], downEnd[s]) => Coming(wireIn', s, Taken(s), down'[s], downEnd'[s])
    BY <1>0, <1>3, <2>1, <2>2, <2>3, ComingMore
  <2> QED
    BY <1>0, <1>1, <1>9, <2>3, <2>4
<1> QED
  BY <1>5, <1>6, <1>7, <1>8, <1>10, <1>11

\* The end of stream s is read: the payloads before it are all there.
LEMMA EndedOK ==
  ASSUME PeerTypeOK, NEW s \in Streams, StreamOK(s), NEW x \in StreamEvent, x.ev # "Data",
         rpc = "read", s \in streams, s \notin streams', handle' = handle, got' = got, reader' = reader, ~Pushing(s)',
         UNCHANGED peerVars, closed' = closed,
         events'[s] = (IF ReceiverAlive(s) THEN TryPush(events[s], x) ELSE events[s]),
         rpc' \in {"read", "push"} => IsEnd(Head(wireIn), s) /\ wireIn # <<>>
  PROVE  StreamOK(s)'
<1> USE DEF peerVars
<1>1. PICK e : e = events[s]
  OBVIOUS
<1>2. PICK v : v = events'[s]
  OBVIOUS
<1>3. /\ e \in Seq(StreamEvent) /\ Len(e) \in Nat /\ NData(e) \in Nat /\ Len(got[s]) \in Nat /\ down[s] \in Nat /\ wireIn \in Seq(Frame)
      /\ Taken(s) \in Nat
  BY <1>1, StreamType
<1>4. SenderAlive(s) /\ ~SenderAlive(s)' /\ ~Pushing(s) /\ handle[s] # "none"
  BY DEF SenderAlive, Pushing, StreamOK, Unborn
<1>5. Unborn(s)' /\ Unread(s)'
  BY <1>4 DEF StreamOK, Unborn, Unread
<1>6. CASE ~Alive(s)
  BY <1>5, <1>6 DEF Alive, Queued, Flows, StreamOK
<1>7. CASE Alive(s)
  <2>1. ReceiverAlive(s) /\ Alive(s)'
    BY <1>7 DEF Alive, ReceiverAlive
  <2>2. /\ \A i \in DOMAIN e : e[i].ev = "Data" /\ e[i].n = Len(got[s]) + i
        /\ reader[s] = "reading" /\ Taken(s) <= down[s] /\ \A i \in DOMAIN got[s] : got[s][i] = i
    BY <1>1, <1>4, <1>7 DEF StreamOK, Queued
  <2>3. NData(e) = Len(e)
    BY <1>3, <2>2, NDataIs
  <2>4. v = e \/ v = Append(e, x)
    BY <1>1, <1>2, <2>1 DEF TryPush
  <2>5. NData(v) = Len(e)
    BY <1>3, <2>3, <2>4, NDataIs
  <2>6. Taken(s)' = Taken(s) /\ Taken(s) = Len(got[s]) + Len(e)
    <3>1. Taken(s) = Len(got[s]) + NData(e) + 0
      BY <1>1, <1>4 DEF Taken
    <3>2. Taken(s)' = Len(got[s]) + NData(v) + 0
      BY <1>2 DEF Taken
    <3> QED
      BY <1>3, <2>3, <2>5, <3>1, <3>2
  <2>7. ASSUME NEW i \in DOMAIN v
        PROVE  /\ v[i].ev = "Data" => v[i].n = Len(got[s]) + i
               /\ v[i].ev # "Data" => i = Len(v)
    <3>1. CASE v = e
      BY <2>2, <2>7, <3>1
    <3>2. CASE v = Append(e, x)
      <4>1. Len(v) = Len(e) + 1 /\ ((i = Len(e) + 1 /\ v[i] = x) \/ (i \in DOMAIN e /\ v[i] = e[i]))
        BY <1>3, <2>7, <3>2
      <4> QED
        BY <2>2, <4>1
    <3> QED
      BY <2>4, <3>1, <3>2
  <2>8. Queued(s)'
    BY <1>2, <1>4, <2>2, <2>6, <2>7 DEF Queued
  <2>9. ASSUME rpc' \in {"read", "push"} PROVE downEnd[s] /\ Taken(s) = down[s]
    <3>1. Coming(wireIn, s, Taken(s), down[s], downEnd[s])
      BY <1>7 DEF StreamOK, Flows
    <3> QED
      BY <1>3, <2>2, <2>9, <3>1, ComingEnd
  <2>10. Flows(s)'
    BY <2>6, <2>9 DEF Flows
  <2> QED
    BY <1>5, <2>8, <2>10 DEF StreamOK
<1> QED
  BY <1>6, <1>7

\* A frame is read.
LEMMA ReadFrameOK ==
  ASSUME PeerTypeOK, NEW s \in Streams, StreamOK(s), ReadFrame, UNCHANGED peerVars
  PROVE  StreamOK(s)'
<1> USE DEF peerVars
<1>1. PICK f : f = Head(wireIn)
  OBVIOUS
<1>2. PICK w : w = Tail(wireIn)
  OBVIOUS
<1>3. /\ wireIn \in Seq(Frame) /\ wireIn # <<>> /\ f \in Frame /\ w \in Seq(Frame) /\ rpc = "read" /\ Taken(s) \in Nat /\ down[s] \in Nat
      /\ f.n \in Nat /\ 0 \notin Streams /\ streams \subseteq Streams /\ events \in [Streams -> Seq(StreamEvent)]
  <2>1. wireIn \in Seq(Frame) /\ Taken(s) \in Nat /\ down[s] \in Nat /\ streams \subseteq Streams
    BY StreamType
  <2>2. wireIn # <<>> /\ rpc = "read" /\ 0 \notin Streams /\ events \in [Streams -> Seq(StreamEvent)]
    BY StreamsAssumption DEF ReadFrame, PeerTypeOK, TypeOK
  <2>3. f \in Frame /\ w \in Seq(Frame)
    BY <1>1, <1>2, <2>1, <2>2
  <2> QED
    BY <2>1, <2>2, <2>3 DEF Frame
<1>4. /\ handle' = handle /\ got' = got /\ reader' = reader /\ closed' = closed
      /\ wireIn' = (IF f.cmd = "Alert" THEN <<>> ELSE w)
      /\ rcur' = (IF f.cmd = "Psh" /\ f.sid \in streams THEN f ELSE NoFrame)
      /\ f.cmd = "Psh" /\ f.sid \in streams => rpc' = "push"
      /\ f.cmd = "Alert" => rpc' = "finish"
      /\ ~(f.cmd = "Psh" /\ f.sid \in streams) /\ f.cmd # "Alert" => rpc' = "read"
  BY <1>1, <1>2 DEF ReadFrame, callVars
<1>5. /\ f.cmd = "Psh" => UNCHANGED <<streams, events>>
      /\ f.cmd = "Fin" => EndStreams({f.sid}, Fin)
      /\ f.cmd = "SynAck" /\ f.n # 0 => EndStreams({f.sid}, SynAckError)
      /\ f.cmd = "Alert" => EndStreams(streams, SynAckError)
      /\ f.cmd \notin {"Psh", "Fin", "Alert"} /\ ~(f.cmd = "SynAck" /\ f.n # 0) => UNCHANGED <<streams, events>>
  BY <1>1 DEF ReadFrame
<1>6. ~Pushing(s) /\ (handle[s] = "none" => \A i \in DOMAIN wireIn : wireIn[i].sid # s)
  BY <1>3 DEF Pushing, StreamOK, Unborn
<1>7. handle[s] = "none" => \A i \in DOMAIN wireIn' : wireIn'[i].sid # s
  <2>1. \A i \in DOMAIN w : i + 1 \in DOMAIN wireIn /\ w[i] = wireIn[i + 1]
    BY <1>2, <1>3
  <2> QED
    BY <1>4, <1>6, <2>1
<1>8. ASSUME events'[s] = events[s], s \in streams' <=> s \in streams, ~Pushing(s)',
             Alive(s) /\ s \in streams => ~IsPsh(f, s) /\ f.cmd # "Alert"
      PROVE  StreamOK(s)'
  <2>1. Kept(s)
    BY <1>3, <1>4, <1>6, <1>8 DEF Kept
  <2>2. Alive(s) /\ s \in streams /\ Coming(wireIn, s, Taken(s), down[s], downEnd[s]) => Coming(wireIn', s, Taken(s), down[s], downEnd[s])
    BY <1>1, <1>2, <1>3, <1>4, <1>8, ComingTail
  <2> QED
    BY <1>4, <1>7, <1>8, <2>1, <2>2, KeptOK
<1>9. ASSUME ~(f.cmd = "Psh" /\ f.sid = s /\ s \in streams) PROVE ~Pushing(s)'
  BY <1>3, <1>4, <1>9 DEF Pushing, NoFrame, MkFrame
<1>10. CASE f.cmd = "Psh" /\ f.sid = s /\ s \in streams
  <2>1. rpc' = "push" /\ rcur' = f /\ streams' = streams /\ events' = events /\ wireIn' = w /\ Pushing(s)'
    BY <1>4, <1>5, <1>10 DEF Pushing
  <2>2. SenderAlive(s) /\ SenderAlive(s)' /\ handle[s] # "none" /\ (Alive(s)' <=> Alive(s))
    BY <1>4, <1>10, <2>1 DEF SenderAlive, Alive, StreamOK, Unborn
  <2>3. Unborn(s)' /\ Unread(s)'
    BY <1>4, <2>2 DEF StreamOK, Unborn, Unread
  <2>4. CASE ~Alive(s)
    BY <2>2, <2>3, <2>4 DEF Queued, Flows, StreamOK
  <2>5. CASE Alive(s)
    <3>1. Coming(wireIn, s, Taken(s), down[s], downEnd[s])
      BY <1>3, <1>10, <2>5 DEF StreamOK, Flows
    <3>2. f.n = Taken(s) + 1 /\ Taken(s) + 1 <= down[s] /\ Coming(w, s, Taken(s) + 1, down[s], downEnd[s])
      BY <1>1, <1>2, <1>3, <1>10, <3>1, ComingTake DEF IsPsh
    <3>3. Taken(s)' = Taken(s) + 1
      BY <1>4, <1>6, <2>1, StreamType DEF Taken
    <3>4. Queued(s)'
      BY <1>4, <2>1, <2>2, <2>5, <3>2, <3>3 DEF StreamOK, Queued
    <3>5. Flows(s)'
      BY <1>10, <2>1, <3>2, <3>3 DEF Flows
    <3> QED
      BY <2>3, <3>4, <3>5 DEF StreamOK
  <2> QED
    BY <2>4, <2>5
<1>11. ASSUME s \notin streams PROVE StreamOK(s)'
  <2>1. events'[s] = events[s] /\ s \notin streams'
    BY <1>3, <1>5, <1>11 DEF EndStreams
  <2> QED
    BY <1>8, <1>9, <1>11, <2>1
<1>12. CASE s \in streams /\ IsEnd(f, s)
  <2>1. PICK x \in StreamEvent : x.ev # "Data" /\ EndStreams({s}, x)
    BY <1>5, <1>12 DEF IsEnd, Fin, SynAckError, StreamEvent
  <2>2. s \notin streams' /\ events'[s] = IF ReceiverAlive(s) THEN TryPush(events[s], x) ELSE events[s]
    BY <1>12, <2>1 DEF EndStreams
  <2>3. ~Pushing(s)'
    BY <1>9, <1>12 DEF IsEnd
  <2> QED
    BY <1>1, <1>3, <1>4, <1>12, <2>1, <2>2, <2>3, EndedOK
<1>13. CASE s \in streams /\ f.cmd = "Alert"
  <2>1. SynAckError \in StreamEvent /\ SynAckError.ev # "Data"
    BY DEF SynAckError, StreamEvent
  <2>2. s \notin streams' /\ events'[s] = IF ReceiverAlive(s) THEN TryPush(events[s], SynAckError) ELSE events[s]
    BY <1>5, <1>13 DEF EndStreams
  <2>3. ~Pushing(s)' /\ rpc' = "finish"
    BY <1>4, <1>9, <1>13
  <2> QED
    BY <1>3, <1>4, <1>13, <2>1, <2>2, <2>3, EndedOK
<1>14. CASE s \in streams /\ ~IsEnd(f, s) /\ f.cmd # "Alert" /\ ~IsPsh(f, s)
  <2>1. events'[s] = events[s] /\ s \in streams'
    BY <1>3, <1>5, <1>14 DEF EndStreams, IsEnd
  <2>2. ~Pushing(s)'
    BY <1>9, <1>14 DEF IsPsh
  <2> QED
    BY <1>8, <1>14, <2>1, <2>2
<1> QED
  BY <1>10, <1>11, <1>12, <1>13, <1>14 DEF IsPsh

\* A payload is delivered, or its stream found to have been dropped.
LEMMA PushDataOK ==
  ASSUME PeerTypeOK, NEW s \in Streams, StreamOK(s), PushData, UNCHANGED peerVars
  PROVE  StreamOK(s)'
<1> USE DEF peerVars
<1>1. /\ rpc = "push" /\ rcur.sid \in Streams /\ rpc' = "read" /\ handle' = handle /\ got' = got /\ reader' = reader
      /\ closed' = closed /\ wireIn' = wireIn /\ events \in [Streams -> Seq(StreamEvent)] /\ ~Pushing(s)'
  BY DEF PushData, callVars, wireVars, PeerTypeOK, TypeOK, Pushing
<1>2. CASE rcur.sid # s
  <2>1. events'[s] = events[s] /\ (s \in streams' <=> s \in streams) /\ ~Pushing(s)
    BY <1>1, <1>2 DEF PushData, Pushing
  <2>2. Kept(s)
    BY <1>1, <2>1 DEF Kept
  <2> QED
    BY <1>1, <2>1, <2>2, QuietOK
<1>3. CASE rcur.sid = s
  <2>0. Pushing(s) /\ SenderAlive(s) /\ handle[s] # "none"
    BY <1>1, <1>3 DEF Pushing, SenderAlive, StreamOK, Unborn
  <2>1. Unborn(s)' /\ Unread(s)'
    BY <1>1, <2>0 DEF StreamOK, Unborn, Unread
  <2>2. CASE ~ReceiverAlive(s)
    <3>1. ~Alive(s)'
      BY <1>1, <2>2 DEF ReceiverAlive, Alive
    <3> QED
      BY <2>1, <3>1 DEF StreamOK, Queued, Flows
  <2>3. CASE ReceiverAlive(s)
    <3>1. PICK e : e = events[s]
      OBVIOUS
    <3>2. PICK v : v = events'[s]
      OBVIOUS
    <3>3. Alive(s) /\ Alive(s)'
      BY <1>1, <2>0, <2>3 DEF ReceiverAlive, Alive
    <3>4. /\ e \in Seq(StreamEvent) /\ Len(e) \in Nat /\ Len(got[s]) \in Nat /\ down[s] \in Nat /\ rcur.n \in Nat /\ Taken(s) \in Nat
          /\ Data(rcur.n) \in StreamEvent
      BY <3>1, StreamType DEF PeerTypeOK, TypeOK, Frame, Data, StreamEvent
    <3>5. v = Append(e, Data(rcur.n)) /\ streams' = streams
      BY <1>1, <1>3, <2>3, <3>1, <3>2 DEF PushData
    <3>6. /\ \A i \in DOMAIN e : e[i].ev = "Data" /\ e[i].n = Len(got[s]) + i
          /\ reader[s] = "reading" /\ Taken(s) <= down[s] /\ \A i \in DOMAIN got[s] : got[s][i] = i
          /\ rcur.n = Taken(s)
      BY <2>0, <3>1, <3>3 DEF StreamOK, Queued
    <3>7. NData(e) = Len(e) /\ NData(v) = Len(e) + 1
      BY <3>4, <3>5, <3>6, NDataIs DEF Data
    <3>8. Taken(s) = Len(got[s]) + Len(e) + 1 /\ Taken(s)' = Len(got[s]) + (Len(e) + 1) + 0
      BY <1>1, <2>0, <3>1, <3>2, <3>7 DEF Taken
    <3>9. Taken(s)' = Taken(s) /\ rcur.n = Len(got[s]) + (Len(e) + 1)
      <4>1. PICK a \in Nat, b \in Nat : a = Len(got[s]) /\ b = Len(e)
        BY <3>4
      <4>2. \A x, y \in Nat : x + y + 1 = x + (y + 1) /\ x + (y + 1) + 0 = x + (y + 1)
        OBVIOUS
      <4> QED
        BY <3>6, <3>8, <4>1, <4>2
    <3>10. ASSUME NEW i \in DOMAIN v PROVE v[i].ev = "Data" /\ v[i].n = Len(got[s]) + i
      <4>1. (i = Len(e) + 1 /\ v[i] = Data(rcur.n)) \/ (i \in DOMAIN e /\ v[i] = e[i])
        BY <3>4, <3>5, <3>10
      <4>2. Data(rcur.n).ev = "Data" /\ Data(rcur.n).n = Len(got[s]) + (Len(e) + 1)
        BY <3>9 DEF Data
      <4> QED
        BY <3>6, <4>1, <4>2
    <3>11. Queued(s)'
      BY <1>1, <3>2, <3>6, <3>9, <3>10 DEF Queued
    <3>12. Flows(s)'
      BY <1>1, <2>0, <3>3, <3>5, <3>9 DEF StreamOK, Flows
    <3> QED
      BY <2>1, <3>11, <3>12 DEF StreamOK
  <2> QED
    BY <2>2, <2>3
<1> QED
  BY <1>2, <1>3

\* The read task's other steps.
LEMMA ReadTaskOK ==
  ASSUME PeerTypeOK, NEW s \in Streams, StreamOK(s), Closing, ReadTask, UNCHANGED peerVars
  PROVE  StreamOK(s)'
<1> USE DEF peerVars
<1>1. CASE ReadBreak
  <2>1. Kept(s) /\ streams' = streams /\ handle' = handle /\ rpc' = "finish" /\ wireIn' = <<>>
    BY <1>1 DEF ReadBreak, mapVars, callVars, Kept, Pushing
  <2>2. \A i \in DOMAIN wireIn' : wireIn'[i].sid # s
    BY <2>1
  <2> QED
    BY <2>1, <2>2, KeptOK
<1>2. CASE ReadFinish
  <2>1. Kept(s) /\ streams' = streams /\ handle' = handle /\ wireIn' = wireIn
    BY <1>2 DEF ReadFinish, callVars, wireVars, Kept, Pushing
  <2> QED
    BY <2>1, QuietOK
<1>3. CASE ReadClear
  <2>1. Kept(s) /\ wireIn' = wireIn /\ streams' = {} /\ handle' = handle /\ closed'
    BY <1>3 DEF ReadClear, callVars, wireVars, Kept, Pushing, Closing
  <2> QED
    BY <2>1, ClearedOK
<1> QED
  BY <1>1, <1>2, <1>3, ReadFrameOK, PushDataOK DEF ReadTask

\* The session is closed before its map is cleared.
LEMMA ClosingStep ==
  ASSUME Closing, [Next]_allVars
  PROVE  Closing'
<1> USE DEF Closing
<1>1. CASE UNCHANGED allVars
  BY <1>1 DEF allVars, vars
<1>2. ASSUME NEW s \in Streams, Connect(s) PROVE Closing'
  BY <1>2 DEF Connect, Register, SendSyn, SendTarget, SendUotRequest, ConnectFails, mapVars, writeVars, readVars
<1>3. ASSUME NEW s \in Streams, Relay(s) PROVE Closing'
  BY <1>3 DEF Relay, Read, ReadEnd, Write, Shutdown, Drop, mapVars, writeVars, readVars
<1>4. CASE WriteTask
  BY <1>4 DEF WriteTask, TakeFrames, Flush, WriteBreak, WriteFinish, WriteClear, mapVars, writeVars, readVars
<1>5. CASE ReadTask
  BY <1>5 DEF ReadTask, ReadFrame, PushData, ReadBreak, ReadFinish, ReadClear, mapVars, writeVars, readVars
<1>6. CASE OutsideFinish \/ OutsideClear
  BY <1>6 DEF OutsideFinish, OutsideClear, writeVars, readVars
<1>7. CASE PeerControl \/ ConnectionLost \/ \E s \in Streams : PeerPsh(s) \/ PeerEnd(s)
  BY <1>7 DEF PeerControl, ConnectionLost, PeerPsh, PeerEnd, clientVars
<1> QED
  BY <1>1, <1>2, <1>3, <1>4, <1>5, <1>6, <1>7 DEF Next, Client, ClientNext, Ended

\* A sequence in which f does not occur.
Lacks(w, f) == \A i \in DOMAIN w : w[i] # f

\* What moves from one queue to the next was in one of them.
LEMMA LacksMoves ==
  ASSUME NEW q \in Seq(Frame), NEW f
  PROVE  /\ Lacks(<<>>, f)
         /\ \A g \in Frame : Lacks(q, f) /\ g # f => Lacks(Append(q, g), f)
         /\ q # <<>> /\ Lacks(q, f) => Lacks(Tail(q), f) /\ Head(q) # f
         /\ \A r \in Seq(Frame) : Lacks(q, f) /\ Lacks(r, f) => Lacks(q \o r, f)
         /\ \A k \in 1 .. Len(q) : Lacks(q, f) => Lacks(SubSeq(q, 1, k), f) /\ Lacks(SubSeq(q, k + 1, Len(q)), f)
<1>1. Lacks(<<>>, f)
  BY DEF Lacks
<1>2. ASSUME NEW g \in Frame, Lacks(q, f), g # f PROVE Lacks(Append(q, g), f)
  BY <1>2 DEF Lacks
<1>3. ASSUME q # <<>>, Lacks(q, f) PROVE Lacks(Tail(q), f) /\ Head(q) # f
  BY <1>3 DEF Lacks
<1>4. ASSUME NEW r \in Seq(Frame), Lacks(q, f), Lacks(r, f) PROVE Lacks(q \o r, f)
  <2>1. ASSUME NEW i \in DOMAIN (q \o r) PROVE (q \o r)[i] # f
    <3>1. CASE i \in DOMAIN q
      BY <1>4, <3>1 DEF Lacks
    <3>2. CASE i \notin DOMAIN q
      <4>1. i - Len(q) \in DOMAIN r /\ (q \o r)[i] = r[i - Len(q)]
        BY <2>1, <3>2
      <4> QED
        BY <1>4, <4>1 DEF Lacks
    <3> QED
      BY <3>1, <3>2
  <2> QED
    BY <2>1 DEF Lacks
<1>5. ASSUME NEW k \in 1 .. Len(q), Lacks(q, f) PROVE Lacks(SubSeq(q, 1, k), f) /\ Lacks(SubSeq(q, k + 1, Len(q)), f)
  <2>1. \A i \in DOMAIN SubSeq(q, 1, k) : i \in DOMAIN q /\ SubSeq(q, 1, k)[i] = q[i]
    OBVIOUS
  <2>2. \A i \in DOMAIN SubSeq(q, k + 1, Len(q)) : i + k \in DOMAIN q /\ SubSeq(q, k + 1, Len(q))[i] = q[i + k]
    OBVIOUS
  <2> QED
    BY <1>5, <2>1, <2>2 DEF Lacks
<1> QED
  BY <1>1, <1>2, <1>3, <1>4, <1>5

\* No SYN of a stream is queued before its connect call has come to it.
LEMMA UnsentStep ==
  ASSUME PeerTypeOK, NEW s \in Streams, Unsent(s), [Next]_allVars
  PROVE  Unsent(s)'
<1>0. PICK syn : syn = MkFrame("Syn", s, 0)
  OBVIOUS
<1>1. /\ writeQ \in Seq(Frame) /\ buffer \in Seq(Frame) /\ wireOut \in Seq(Frame)
      /\ handle \in [Streams -> {"none", "registered", "synned", "uot", "open", "failed", "dropped"}]
      /\ s # 0
  BY StreamsAssumption DEF PeerTypeOK, TypeOK
<1>2. SUFFICES ASSUME handle'[s] \in {"none", "registered"}
               PROVE  Lacks(writeQ', syn) /\ Lacks(buffer', syn) /\ Lacks(wireOut', syn)
  BY <1>0 DEF Unsent, Lacks
<1>3. ASSUME NEW f \in Frame, f # syn, Lacks(writeQ, syn)
      PROVE  Lacks(Append(writeQ, f), syn) /\ Lacks(TrySend(writeQ, f), syn)
  BY <1>1, <1>3, LacksMoves DEF TrySend
<1>4. ASSUME NEW t \in Streams, NEW cmd \in Command, NEW n \in Nat, cmd # "Syn" \/ t # s
      PROVE  MkFrame(cmd, t, n) \in Frame /\ MkFrame(cmd, t, n) # syn
  BY <1>0, <1>4 DEF MkFrame, Frame
<1>5. ASSUME handle[s] \in {"none", "registered"} PROVE Lacks(writeQ, syn) /\ Lacks(buffer, syn) /\ Lacks(wireOut, syn)
  BY <1>0, <1>5 DEF Unsent, Lacks
<1>6. ASSUME UNCHANGED <<writeQ, buffer, wireOut>>, handle[s] \in {"none", "registered"}
      PROVE  Lacks(writeQ', syn) /\ Lacks(buffer', syn) /\ Lacks(wireOut', syn)
  BY <1>5, <1>6
<1>7. CASE UNCHANGED allVars
  BY <1>2, <1>6, <1>7 DEF allVars, vars
<1>8. ASSUME NEW t \in Streams, Connect(t) PROVE Lacks(writeQ', syn) /\ Lacks(buffer', syn) /\ Lacks(wireOut', syn)
  <2>1. CASE Register(t) \/ ConnectFails(t)
    BY <1>1, <1>2, <1>6, <2>1 DEF Register, ConnectFails, writeVars, wireVars
  <2>2. CASE SendSyn(t)
    <3>1. t # s /\ handle'[s] = handle[s] /\ writeQ' = Append(writeQ, MkFrame("Syn", t, 0)) /\ buffer' = buffer /\ wireOut' = wireOut
      BY <1>1, <1>2, <2>2 DEF SendSyn, wireVars
    <3>2. MkFrame("Syn", t, 0) \in Frame /\ MkFrame("Syn", t, 0) # syn
      BY <1>4, <3>1 DEF Command
    <3> QED
      BY <1>2, <1>3, <1>5, <3>1, <3>2
  <2>3. CASE SendTarget(t) \/ SendUotRequest(t)
    <3>1. handle[s] \in {"none", "registered"} /\ writeQ' = Append(writeQ, MkFrame("Psh", t, Header)) /\ buffer' = buffer /\ wireOut' = wireOut
      BY <1>1, <1>2, <2>3 DEF SendTarget, SendUotRequest, wireVars
    <3>2. MkFrame("Psh", t, Header) \in Frame /\ MkFrame("Psh", t, Header) # syn
      BY <1>4 DEF Command, Header
    <3> QED
      BY <1>3, <1>5, <3>1, <3>2
  <2> QED
    BY <1>8, <2>1, <2>2, <2>3 DEF Connect
<1>9. ASSUME NEW t \in Streams, Relay(t) PROVE Lacks(writeQ', syn) /\ Lacks(buffer', syn) /\ Lacks(wireOut', syn)
  <2>1. CASE Read(t) \/ ReadEnd(t)
    BY <1>2, <1>6, <2>1 DEF Read, ReadEnd, writeVars, wireVars
  <2>2. CASE Write(t)
    <3>1. handle' = handle /\ writeQ' = Append(writeQ, MkFrame("Psh", t, wrote[t] + 1)) /\ buffer' = buffer /\ wireOut' = wireOut
      BY <2>2 DEF Write, wireVars
    <3>2. MkFrame("Psh", t, wrote[t] + 1) \in Frame /\ MkFrame("Psh", t, wrote[t] + 1) # syn
      BY <1>4 DEF Command, PeerTypeOK, TypeOK
    <3> QED
      BY <1>2, <1>3, <1>5, <3>1, <3>2
  <2>3. CASE Shutdown(t) \/ Drop(t)
    <3>1. /\ handle[s] \in {"none", "registered"} /\ buffer' = buffer /\ wireOut' = wireOut
          /\ writeQ' \in {writeQ, Append(writeQ, MkFrame("Fin", t, 0)), TrySend(writeQ, MkFrame("Fin", t, 0))}
      BY <1>1, <1>2, <2>3 DEF Shutdown, Drop, wireVars
    <3>2. MkFrame("Fin", t, 0) \in Frame /\ MkFrame("Fin", t, 0) # syn
      BY <1>4 DEF Command
    <3> QED
      BY <1>3, <1>5, <3>1, <3>2
  <2> QED
    BY <1>9, <2>1, <2>2, <2>3 DEF Relay
<1>10. CASE WriteTask
  <2>1. CASE TakeFrames
    <3>1. handle' = handle /\ wireOut' = wireOut /\ writeQ # <<>>
      BY <2>1 DEF TakeFrames, callVars, wireVars
    <3>2. Lacks(writeQ, syn) /\ Lacks(buffer, syn) /\ Lacks(wireOut, syn)
      BY <1>2, <1>5, <3>1
    <3>3. CASE buffering /\ Head(writeQ).cmd # "Psh"
      <4>1. buffer' = Append(buffer, Head(writeQ)) /\ writeQ' = Tail(writeQ)
        BY <2>1, <3>3 DEF TakeFrames
      <4>2. Head(writeQ) \in Frame /\ Head(writeQ) # syn /\ Lacks(Tail(writeQ), syn)
        BY <1>1, <3>1, <3>2, LacksMoves
      <4> QED
        BY <1>1, <3>1, <3>2, <4>1, <4>2, LacksMoves
    <3>4. CASE ~(buffering /\ Head(writeQ).cmd # "Psh")
      <4>1. PICK k \in 1 .. Len(writeQ) :
              buffer' = buffer \o SubSeq(writeQ, 1, k) /\ writeQ' = SubSeq(writeQ, k + 1, Len(writeQ))
        BY <2>1, <3>4 DEF TakeFrames
      <4>2. Lacks(SubSeq(writeQ, 1, k), syn) /\ Lacks(SubSeq(writeQ, k + 1, Len(writeQ)), syn) /\ SubSeq(writeQ, 1, k) \in Seq(Frame)
        BY <1>1, <3>2, <4>1, LacksMoves
      <4> QED
        BY <1>1, <3>1, <3>2, <4>1, <4>2, LacksMoves
    <3> QED
      BY <3>3, <3>4
  <2>2. CASE Flush
    <3>1. handle' = handle /\ wireOut' \in {wireOut, wireOut \o buffer} /\ writeQ' = writeQ /\ buffer' = <<>>
      BY <2>2 DEF Flush, callVars
    <3>2. Lacks(writeQ, syn) /\ Lacks(buffer, syn) /\ Lacks(wireOut, syn)
      BY <1>2, <1>5, <3>1
    <3>3. Lacks(wireOut \o buffer, syn) /\ Lacks(<<>>, syn)
      BY <1>1, <3>2, LacksMoves
    <3> QED
      BY <3>1, <3>2, <3>3
  <2>3. CASE WriteBreak
    <3>1. handle' = handle /\ wireOut' = wireOut /\ writeQ' = <<>> /\ buffer' = <<>>
      BY <2>3 DEF WriteBreak, callVars, wireVars
    <3> QED
      BY <1>1, <1>2, <1>5, <3>1, LacksMoves
  <2>4. CASE WriteFinish \/ WriteClear
    BY <1>2, <1>6, <2>4 DEF WriteFinish, WriteClear, callVars, wireVars
  <2> QED
    BY <1>10, <2>1, <2>2, <2>3, <2>4 DEF WriteTask
<1>11. CASE ReadTask
  <2>1. CASE ReadFrame
    <3>1. handle' = handle /\ wireOut' = wireOut /\ buffer' = buffer /\ writeQ' \in {writeQ, TrySend(writeQ, MkFrame("HeartResponse", 0, 0))}
      BY <2>1 DEF ReadFrame, callVars
    <3>2. MkFrame("HeartResponse", 0, 0) \in Frame /\ MkFrame("HeartResponse", 0, 0) # syn
      BY <1>0 DEF MkFrame, Frame, Command
    <3> QED
      BY <1>2, <1>3, <1>5, <3>1, <3>2
  <2>2. CASE PushData \/ ReadBreak \/ ReadFinish \/ ReadClear
    BY <1>2, <1>6, <2>2 DEF PushData, ReadBreak, ReadFinish, ReadClear, callVars, writeVars, wireVars
  <2> QED
    BY <1>11, <2>1, <2>2 DEF ReadTask
<1>12. CASE OutsideFinish \/ OutsideClear
  BY <1>2, <1>6, <1>12 DEF OutsideFinish, OutsideClear, callVars, writeVars, wireVars
<1>13. CASE PeerControl \/ ConnectionLost \/ \E t \in Streams : PeerPsh(t) \/ PeerEnd(t)
  BY <1>2, <1>6, <1>13 DEF PeerControl, ConnectionLost, PeerPsh, PeerEnd, clientVars
<1> QED
  BY <1>7, <1>8, <1>9, <1>10, <1>11, <1>12, <1>13 DEF Next, Client, ClientNext, Ended

\* Every step keeps the invariant.
LEMMA ReadStep ==
  ASSUME PeerTypeOK, ReadInv, [Next]_allVars
  PROVE  ReadInv'
<1>1. Closing'
  BY ClosingStep DEF ReadInv
<1>2. \A s \in Streams : Unsent(s)'
  BY UnsentStep DEF ReadInv
<1>3. ASSUME NEW s \in Streams PROVE StreamOK(s)'
  <2>1. StreamOK(s) /\ Unsent(s) /\ Closing
    BY DEF ReadInv
  <2>2. CASE UNCHANGED allVars
    <3>1. Kept(s) /\ wireIn' = wireIn /\ streams' = streams /\ handle' = handle
      BY <2>2 DEF allVars, vars, peerVars, Kept, Pushing
    <3> QED
      BY <2>1, <3>1, QuietOK
  <2>3. CASE Client
    BY <2>1, <2>3, ConnectOK, RelayOK, WriteTaskOK, ReadTaskOK DEF Client, ClientNext
  <2>4. CASE PeerControl \/ ConnectionLost \/ \E t \in Streams : PeerPsh(t) \/ PeerEnd(t)
    BY <2>1, <2>4, PeerOK
  <2> QED
    BY <2>2, <2>3, <2>4 DEF Next, Ended
<1> QED
  BY <1>1, <1>2, <1>3 DEF ReadInv

\* The payloads a relay has read are the first ones the server sent, in order, and in a
\* session that lives it sees the end only after the last of them, for every number of
\* streams and payloads and every capacity of the queues.
THEOREM ReadsAll == Spec => []ReadsWhatWasSent
<1>1. PeerInit => ReadInv
  <2> SUFFICES ASSUME PeerInit PROVE ReadInv
    OBVIOUS
  <2>1. Closing
    BY DEF PeerInit, Init, Closing
  <2>2. ASSUME NEW s \in Streams PROVE Unsent(s)
    <3>1. writeQ = <<MkFrame("Settings", 0, 0)>> /\ buffer = <<>> /\ wireOut = <<>>
      BY DEF PeerInit, Init
    <3> QED
      BY <3>1 DEF Unsent, MkFrame
  <2>3. ASSUME NEW s \in Streams PROVE StreamOK(s)
    <3>1. /\ handle[s] = "none" /\ events[s] = <<>> /\ down[s] = 0 /\ ~downEnd[s] /\ rpc = "read" /\ streams = {} /\ wireIn = <<>>
          /\ got[s] = <<>> /\ reader[s] = "reading"
      BY DEF PeerInit, Init
    <3> QED
      BY <3>1 DEF StreamOK, Unborn, Unread, Queued, Flows, Alive, SenderAlive
  <2> QED
    BY <2>1, <2>2, <2>3 DEF ReadInv
<1>2. PeerTypeOK /\ ReadInv => ReadsWhatWasSent
  <2> SUFFICES ASSUME PeerTypeOK, ReadInv, NEW s \in Streams
               PROVE  /\ Len(got[s]) <= down[s]
                      /\ \A i \in 1 .. Len(got[s]) : got[s][i] = i
                      /\ (reader[s] # "reading" /\ ~closed /\ rpc \in {"read", "push"})
                            => downEnd[s] /\ Len(got[s]) = down[s]
    BY DEF ReadsWhatWasSent
  <2>1. got[s] \in Seq(Nat) /\ Len(got[s]) \in Nat /\ NData(events[s]) \in Nat /\ down[s] \in Nat
        /\ DOMAIN got[s] = 1 .. Len(got[s])
    BY StreamType
  <2>2. StreamOK(s)
    BY DEF ReadInv
  <2>3. CASE handle[s] # "open"
    BY <2>1, <2>2, <2>3 DEF StreamOK, Unread
  <2>4. CASE handle[s] = "open"
    <3>1. Alive(s)
      BY <2>4 DEF Alive
    <3>2. PICK x \in {0, 1} : Taken(s) = Len(got[s]) + NData(events[s]) + x /\ (~Pushing(s) => x = 0)
      BY DEF Taken
    <3>3. Len(got[s]) <= down[s]
      BY <2>1, <2>2, <3>1, <3>2 DEF StreamOK, Queued
    <3>4. ASSUME reader[s] # "reading", ~closed, rpc \in {"read", "push"} PROVE downEnd[s] /\ Len(got[s]) = down[s]
      <4>1. events[s] = <<>> /\ ~SenderAlive(s)
        BY <2>2, <3>1, <3>4 DEF StreamOK, Queued
      <4>2. NData(events[s]) = 0 /\ s \notin streams /\ ~Pushing(s)
        BY <4>1 DEF NData, SenderAlive, Pushing
      <4>3. downEnd[s] /\ Taken(s) = down[s]
        BY <2>2, <3>1, <3>4, <4>2 DEF StreamOK, Flows
      <4> QED
        BY <2>1, <3>2, <4>2, <4>3
    <3> QED
      BY <2>1, <2>2, <3>1, <3>3, <3>4 DEF StreamOK, Queued
  <2> QED
    BY <2>3, <2>4
<1> QED
  BY <1>1, <1>2, ReadStep, SessionType, PTL DEF Spec
-----------------------------------------------------------------------------
(* What a session sends leaves in order *)

\* A frame that carries a payload of s.
IsData(f, s) == f.cmd = "Psh" /\ f.sid = s /\ f.n # Header

\* How many payloads of s the first i frames of w bring.
DataUpTo(w, s, i) == Cardinality({j \in 1 .. i : IsData(w[j], s)})

\* The frames a client session ever sends.
Mine(f) ==
    \/ f.sid \in Streams /\ f.cmd = "Psh"
    \/ f.sid \in Streams /\ f.cmd \in {"Syn", "Fin"} /\ f.n = 0
    \/ f.sid = 0 /\ f.cmd \in {"Settings", "HeartResponse"}

\* Frame i is in its place, and a payload carries its number.
GoodAt(w, i) ==
    /\ Mine(w[i])
    /\ w[i].sid \in Streams =>
         /\ InPlace(w, i)
         /\ IsData(w[i], w[i].sid) => w[i].n = DataUpTo(w, w[i].sid, i)

WireOk(w) ==
    /\ w # <<>> => w[1].cmd = "Settings"
    /\ \A i \in 1 .. Len(w) : GoodAt(w, i)

\* All frames the session has accepted: on the wire, in the write loop's buffer, queued.
Pipe == (wireOut \o buffer) \o writeQ

\* How many frames the call or the relay that owns s has sent, as its handle tells.
Frames(s) ==
    CASE handle[s] \in {"none", "registered"} -> 0
      [] handle[s] = "synned" -> 1
      [] handle[s] = "uot" -> 2
      [] OTHER -> 1 + HeaderCount(s) + wrote[s]

\* More frames of s may follow.
Going(s) == handle[s] \in {"none", "registered", "synned", "uot"} \/ (handle[s] = "open" /\ ~finSent[s])

\* As long as more may follow, the accepted frames of s are those its owner has sent.
Linked(w, s) ==
    Going(s) =>
        /\ FramesUpTo(w, s, Len(w)) = Frames(s)
        /\ DataUpTo(w, s, Len(w)) = wrote[s]
        /\ \A i \in 1 .. Len(w) : w[i].sid = s => w[i].cmd # "Fin"
        /\ handle[s] # "open" => wrote[s] = 0
        /\ handle[s] = "uot" => s \in UdpStreams

\* The wire is in order, and while the session can send so is all it has accepted.
WireInv ==
    /\ WireOk(wireOut)
    /\ rxOpen /\ ~broken => WireOk(Pipe) /\ Pipe # <<>> /\ \A s \in Streams : Linked(Pipe, s)
    /\ ~rxOpen => wpc \notin {"recv", "flush"}

\* Counting the members of a set of positions one position further.
LEMMA CountStep ==
  ASSUME NEW i \in Nat, NEW S \in SUBSET (1 .. i + 1)
  PROVE  /\ IsFiniteSet(S \cap (1 .. i))
         /\ Cardinality(S \cap (1 .. i)) \in Nat
         /\ Cardinality(S) = Cardinality(S \cap (1 .. i)) + (IF i + 1 \in S THEN 1 ELSE 0)
<1>1. PICK T : T = S \cap (1 .. i)
  OBVIOUS
<1>2. IsFiniteSet(1 .. i) /\ T \subseteq 1 .. i
  BY <1>1, FS_Interval
<1>3. IsFiniteSet(T) /\ Cardinality(T) \in Nat
  BY <1>2, FS_Subset, FS_CardinalityType
<1>0. (\A x \in 1 .. i + 1 : x \in 1 .. i \/ x = i + 1) /\ i + 1 \notin 1 .. i
  OBVIOUS
<1>6. (\A x \in S : x \in T \/ x = i + 1) /\ T \subseteq S /\ i + 1 \notin T
  BY <1>0, <1>1
<1>4. CASE i + 1 \in S
  <2>1. S = T \cup {i + 1} /\ i + 1 \notin T
    BY <1>4, <1>6
  <2> QED
    BY <1>1, <1>3, <1>4, <2>1, FS_AddElement
<1>5. CASE i + 1 \notin S
  <2>1. S = T
    BY <1>5, <1>6
  <2> QED
    BY <1>1, <1>3, <1>5, <2>1
<1> QED
  BY <1>4, <1>5

\* A sequence has as many frames and payloads of a stream as its prefix, and one more
\* if its last frame is one.
LEMMA UpToStep ==
  ASSUME NEW w \in Seq(Frame), NEW s \in Streams, NEW i \in Nat
  PROVE  /\ FramesUpTo(w, s, i) \in Nat /\ DataUpTo(w, s, i) \in Nat
         /\ w[i + 1].sid = s => FramesUpTo(w, s, i + 1) = FramesUpTo(w, s, i) + 1
         /\ w[i + 1].sid # s => FramesUpTo(w, s, i + 1) = FramesUpTo(w, s, i)
         /\ IsData(w[i + 1], s) => DataUpTo(w, s, i + 1) = DataUpTo(w, s, i) + 1
         /\ ~IsData(w[i + 1], s) => DataUpTo(w, s, i + 1) = DataUpTo(w, s, i)
<1>1. PICK S : S = {j \in 1 .. i + 1 : w[j].sid = s}
  OBVIOUS
<1>2. S \in SUBSET (1 .. i + 1) /\ S \cap (1 .. i) = {j \in 1 .. i : w[j].sid = s} /\ (i + 1 \in S <=> w[i + 1].sid = s)
  BY <1>1
<1>3. PICK D : D = {j \in 1 .. i + 1 : IsData(w[j], s)}
  OBVIOUS
<1>4. D \in SUBSET (1 .. i + 1) /\ D \cap (1 .. i) = {j \in 1 .. i : IsData(w[j], s)} /\ (i + 1 \in D <=> IsData(w[i + 1], s))
  BY <1>3
<1>5. /\ Cardinality(S \cap (1 .. i)) \in Nat
      /\ Cardinality(S) = Cardinality(S \cap (1 .. i)) + (IF i + 1 \in S THEN 1 ELSE 0)
  BY <1>2, CountStep
<1>6. /\ Cardinality(D \cap (1 .. i)) \in Nat
      /\ Cardinality(D) = Cardinality(D \cap (1 .. i)) + (IF i + 1 \in D THEN 1 ELSE 0)
  BY <1>4, CountStep
<1>7. /\ FramesUpTo(w, s, i) = Cardinality(S \cap (1 .. i)) /\ FramesUpTo(w, s, i + 1) = Cardinality(S)
      /\ DataUpTo(w, s, i) = Cardinality(D \cap (1 .. i)) /\ DataUpTo(w, s, i + 1) = Cardinality(D)
  BY <1>1, <1>2, <1>3, <1>4 DEF FramesUpTo, DataUpTo
<1>8. /\ w[i + 1].sid = s => Cardinality(S) = Cardinality(S \cap (1 .. i)) + 1
      /\ w[i + 1].sid # s => Cardinality(S) = Cardinality(S \cap (1 .. i))
  BY <1>2, <1>5
<1>9. /\ IsData(w[i + 1], s) => Cardinality(D) = Cardinality(D \cap (1 .. i)) + 1
      /\ ~IsData(w[i + 1], s) => Cardinality(D) = Cardinality(D \cap (1 .. i))
  BY <1>4, <1>6
<1> QED
  BY <1>5, <1>6, <1>7, <1>8, <1>9

\* An empty prefix has none.
LEMMA UpToZero ==
  ASSUME NEW w \in Seq(Frame), NEW s \in Streams
  PROVE  FramesUpTo(w, s, 0) = 0 /\ DataUpTo(w, s, 0) = 0
<1>1. {j \in 1 .. 0 : w[j].sid = s} = {} /\ {j \in 1 .. 0 : IsData(w[j], s)} = {}
  OBVIOUS
<1> QED
  BY <1>1, FS_EmptySet DEF FramesUpTo, DataUpTo

\* What stands at the first i positions decides about frame i.
LEMMA GoodPrefix ==
  ASSUME NEW v \in Seq(Frame), NEW w \in Seq(Frame), NEW i \in Nat \ {0}, \A j \in 1 .. i : v[j] = w[j]
  PROVE  /\ \A s \in Streams : FramesUpTo(v, s, i) = FramesUpTo(w, s, i) /\ DataUpTo(v, s, i) = DataUpTo(w, s, i)
         /\ GoodAt(w, i) => GoodAt(v, i)
<1>1. ASSUME NEW s \in Streams PROVE FramesUpTo(v, s, i) = FramesUpTo(w, s, i) /\ DataUpTo(v, s, i) = DataUpTo(w, s, i)
  <2>1. {j \in 1 .. i : v[j].sid = s} = {j \in 1 .. i : w[j].sid = s}
    OBVIOUS
  <2>2. {j \in 1 .. i : IsData(v[j], s)} = {j \in 1 .. i : IsData(w[j], s)}
    OBVIOUS
  <2> QED
    BY <2>1, <2>2 DEF FramesUpTo, DataUpTo
<1>2. v[i] = w[i] /\ \A j \in 1 .. i - 1 : v[j] = w[j]
  OBVIOUS
<1>3. ASSUME w[i].sid \in Streams, InPlace(w, i) PROVE InPlace(v, i)
  <2>1. FramesUpTo(v, w[i].sid, i) = FramesUpTo(w, w[i].sid, i)
    BY <1>1, <1>3
  <2> QED
    BY <1>2, <1>3, <2>1 DEF InPlace
<1> QED
  BY <1>1, <1>2, <1>3 DEF GoodAt

\* A prefix of a good sequence is good.
LEMMA OkPrefix ==
  ASSUME NEW v \in Seq(Frame), NEW w \in Seq(Frame), Len(v) <= Len(w), \A j \in 1 .. Len(v) : v[j] = w[j], WireOk(w)
  PROVE  WireOk(v)
<1>1. ASSUME NEW i \in 1 .. Len(v) PROVE GoodAt(v, i)
  <2>1. i \in Nat \ {0} /\ i \in 1 .. Len(w) /\ \A j \in 1 .. i : v[j] = w[j]
    OBVIOUS
  <2> QED
    BY <2>1, GoodPrefix DEF WireOk
<1>2. v # <<>> => w # <<>> /\ v[1] = w[1]
  OBVIOUS
<1> QED
  BY <1>1, <1>2 DEF WireOk

\* What a frame of a stream must be to come next after w.
Fits(w, f) ==
    LET k == FramesUpTo(w, f.sid, Len(w)) IN
    /\ f.cmd = "Syn" <=> k = 0
    /\ \A j \in 1 .. Len(w) : w[j].sid = f.sid => w[j].cmd # "Fin"
    /\ f.cmd = "Psh" => f.n = IF k <= HeaderCount(f.sid) THEN Header ELSE k - HeaderCount(f.sid)
    /\ IsData(f, f.sid) => f.n = DataUpTo(w, f.sid, Len(w)) + 1

\* A good sequence stays good with one more frame that is in its place.
LEMMA OkAppend ==
  ASSUME NEW w \in Seq(Frame), NEW f \in Frame, WireOk(w), w # <<>>, Mine(f),
         f.sid \in Streams => Fits(w, f)
  PROVE  WireOk(Append(w, f))
<1>1. PICK v : v = Append(w, f)
  OBVIOUS
<1>2. PICK m \in Nat \ {0} : m = Len(w)
  OBVIOUS
<1>3. v \in Seq(Frame) /\ Len(v) = m + 1 /\ v[m + 1] = f /\ \A j \in 1 .. m : v[j] = w[j]
  BY <1>1, <1>2
<1>4. ASSUME NEW s \in Streams, f.sid = s
      PROVE  /\ FramesUpTo(w, s, m) \in Nat
             /\ FramesUpTo(v, s, m + 1) = FramesUpTo(w, s, m) + 1
             /\ IsData(f, s) => DataUpTo(v, s, m + 1) = DataUpTo(w, s, m) + 1
  <2>1. /\ FramesUpTo(v, s, m) \in Nat
        /\ FramesUpTo(v, s, m + 1) = FramesUpTo(v, s, m) + 1
        /\ IsData(f, s) => DataUpTo(v, s, m + 1) = DataUpTo(v, s, m) + 1
    BY <1>2, <1>3, <1>4, UpToStep
  <2>2. FramesUpTo(v, s, m) = FramesUpTo(w, s, m) /\ DataUpTo(v, s, m) = DataUpTo(w, s, m)
    BY <1>2, <1>3, GoodPrefix
  <2> QED
    BY <1>3, <2>1, <2>2
<1>5. ASSUME NEW i \in 1 .. m PROVE GoodAt(v, i)
  <2>1. i \in Nat \ {0} /\ GoodAt(w, i) /\ \A j \in 1 .. i : v[j] = w[j]
    BY <1>2, <1>3 DEF WireOk
  <2> QED
    BY <1>3, <2>1, GoodPrefix
<1>6. GoodAt(v, m + 1)
  <2>1. CASE f.sid \notin Streams
    BY <1>3, <2>1 DEF GoodAt
  <2>2. CASE f.sid \in Streams
    <3>1. PICK k \in Nat : k = FramesUpTo(w, f.sid, m)
      BY <1>4, <2>2
    <3>2. PICK h \in Nat : h = HeaderCount(f.sid)
      BY DEF HeaderCount
    <3>3. PICK r \in Nat : r = FramesUpTo(v, f.sid, m + 1) /\ r = k + 1
      BY <1>4, <2>2, <3>1
    <3>4. /\ f.cmd = "Syn" <=> k = 0
          /\ \A j \in 1 .. m : w[j].sid = f.sid => w[j].cmd # "Fin"
          /\ f.cmd = "Psh" => f.n = IF k <= h THEN Header ELSE k - h
          /\ IsData(f, f.sid) => f.n = DataUpTo(w, f.sid, m) + 1
      BY <1>2, <2>2, <3>1, <3>2 DEF Fits
    <3>5. (r = 1 <=> k = 0) /\ r - 1 = k /\ m + 1 - 1 = m
      BY <1>2, <3>1, <3>3
    <3>6. /\ f.cmd = "Syn" <=> r = 1
          /\ \A j \in 1 .. m + 1 - 1 : v[j].sid = f.sid => v[j].cmd # "Fin"
          /\ f.cmd = "Psh" => f.n = IF r - 1 <= h THEN Header ELSE r - 1 - h
      BY <1>3, <3>4, <3>5
    <3>7. InPlace(v, m + 1)
      BY <1>3, <3>2, <3>3, <3>6 DEF InPlace
    <3>8. IsData(f, f.sid) => f.n = DataUpTo(v, f.sid, m + 1)
      BY <1>4, <2>2, <3>4
    <3> QED
      BY <1>3, <3>7, <3>8 DEF GoodAt
  <2> QED
    BY <2>1, <2>2
<1>7. \A i \in 1 .. m + 1 : i \in 1 .. m \/ i = m + 1
  OBVIOUS
<1>8. v[1] = w[1] /\ w[1].cmd = "Settings"
  BY <1>2, <1>3 DEF WireOk
<1> QED
  BY <1>1, <1>3, <1>5, <1>6, <1>7, <1>8 DEF WireOk

\* Concatenating frames is associative.
LEMMA FrameConcat == \A x, y, z \in Seq(Frame) : (x \o y) \o z = x \o (y \o z)
  BY ConcatAssociative

\* Appending to the last of the queues appends to them all.
LEMMA ConcatAppend ==
  ASSUME NEW w \in Seq(Frame), NEW q \in Seq(Frame), NEW f \in Frame
  PROVE  w \o Append(q, f) = Append(w \o q, f)
  OBVIOUS

\* A frame that moves to the queue in front leaves them all as they were.
LEMMA ConcatTake ==
  ASSUME NEW w \in Seq(Frame), NEW b \in Seq(Frame), NEW q \in Seq(Frame), q # <<>>
  PROVE  (w \o Append(b, Head(q))) \o Tail(q) = (w \o b) \o q
<1>0. Head(q) \in Frame /\ Tail(q) \in Seq(Frame)
  OBVIOUS
<1>1. PICK h \in Frame : h = Head(q)
  BY <1>0
<1>2. PICK r \in Seq(Frame) : r = Tail(q)
  BY <1>0
<1>3. <<h>> \in Seq(Frame) /\ <<h>> \o r = q
  BY <1>1, <1>2
<1>4. w \o Append(b, h) = (w \o b) \o <<h>>
  OBVIOUS
<1>5. ((w \o b) \o <<h>>) \o r = (w \o b) \o (<<h>> \o r)
  BY <1>2, <1>3, FrameConcat, ConcatProperties
<1> QED
  BY <1>1, <1>2, <1>3, <1>4, <1>5

\* So does a batch.
LEMMA ConcatBatch ==
  ASSUME NEW w \in Seq(Frame), NEW b \in Seq(Frame), NEW q \in Seq(Frame), NEW k \in 1 .. Len(q)
  PROVE  (w \o (b \o SubSeq(q, 1, k))) \o SubSeq(q, k + 1, Len(q)) = (w \o b) \o q
<1>0. SubSeq(q, 1, k) \in Seq(Frame) /\ SubSeq(q, k + 1, Len(q)) \in Seq(Frame) /\ w \o b \in Seq(Frame)
  OBVIOUS
<1>1. PICK c \in Seq(Frame) : c = SubSeq(q, 1, k)
  BY <1>0
<1>2. PICK d \in Seq(Frame) : d = SubSeq(q, k + 1, Len(q))
  BY <1>0
<1>3. PICK u \in Seq(Frame) : u = w \o b
  BY <1>0
<1>4. c \o d = q
  BY <1>1, <1>2
<1>5. (w \o b) \o c = w \o (b \o c)
  BY FrameConcat, ZenonT(60)
<1>6. (u \o c) \o d = u \o (c \o d)
  BY FrameConcat, ZenonT(60)
<1> QED
  BY <1>1, <1>2, <1>3, <1>4, <1>5, <1>6

\* What is in front is a prefix.
LEMMA ConcatPrefix ==
  ASSUME NEW w \in Seq(Frame), NEW b \in Seq(Frame)
  PROVE  /\ w \o b \in Seq(Frame) /\ Len(w) <= Len(w \o b) /\ \A i \in 1 .. Len(w) : (w \o b)[i] = w[i]
         /\ w \o <<>> = w
  OBVIOUS

\* What a frame adds to the counts of a stream.
LEMMA UpToAppend ==
  ASSUME NEW w \in Seq(Frame), NEW f \in Frame, NEW s \in Streams
  PROVE  /\ f.sid = s => FramesUpTo(Append(w, f), s, Len(Append(w, f))) = FramesUpTo(w, s, Len(w)) + 1
         /\ f.sid # s => FramesUpTo(Append(w, f), s, Len(Append(w, f))) = FramesUpTo(w, s, Len(w))
         /\ IsData(f, s) => DataUpTo(Append(w, f), s, Len(Append(w, f))) = DataUpTo(w, s, Len(w)) + 1
         /\ ~IsData(f, s) => DataUpTo(Append(w, f), s, Len(Append(w, f))) = DataUpTo(w, s, Len(w))
         /\ FramesUpTo(w, s, Len(w)) \in Nat /\ DataUpTo(w, s, Len(w)) \in Nat
<1>0. Append(w, f) \in Seq(Frame)
  OBVIOUS
<1>1. PICK v \in Seq(Frame) : v = Append(w, f)
  BY <1>0
<1>2. PICK m \in Nat : m = Len(w)
  OBVIOUS
<1>3. Len(v) = m + 1 /\ v[m + 1] = f /\ \A j \in 1 .. m : v[j] = w[j]
  BY <1>1, <1>2
<1>4. FramesUpTo(v, s, m) = FramesUpTo(w, s, m) /\ DataUpTo(v, s, m) = DataUpTo(w, s, m)
  <2>1. CASE m = 0
    BY <1>1, <2>1, UpToZero
  <2>2. CASE m # 0
    <3>1. m \in Nat \ {0} /\ v \in Seq(Frame)
      BY <1>1, <1>2, <2>2
    <3> QED
      BY <1>3, <3>1, GoodPrefix
  <2> QED
    BY <2>1, <2>2
<1>5. /\ FramesUpTo(v, s, m) \in Nat /\ DataUpTo(v, s, m) \in Nat
      /\ v[m + 1].sid = s => FramesUpTo(v, s, m + 1) = FramesUpTo(v, s, m) + 1
      /\ v[m + 1].sid # s => FramesUpTo(v, s, m + 1) = FramesUpTo(v, s, m)
      /\ IsData(v[m + 1], s) => DataUpTo(v, s, m + 1) = DataUpTo(v, s, m) + 1
      /\ ~IsData(v[m + 1], s) => DataUpTo(v, s, m + 1) = DataUpTo(v, s, m)
  BY <1>1, <1>2, UpToStep
<1> QED
  BY <1>1, <1>2, <1>3, <1>4, <1>5

\* All frames the session has accepted, each stream's as many as its handle knows of.
PipeOk(w) == WireOk(w) /\ w # <<>> /\ \A s \in Streams : Linked(w, s)

\* A step that sends nothing of s.
Same(s) ==
    Going(s)' => /\ Going(s) /\ Frames(s)' = Frames(s) /\ wrote'[s] = wrote[s]
                 /\ handle'[s] = "open" <=> handle[s] = "open"
                 /\ handle'[s] = "uot" => handle[s] = "uot"

\* The counts a handle keeps are numbers.
LEMMA FramesType ==
  ASSUME PeerTypeOK, NEW s \in Streams
  PROVE  Frames(s) \in Nat /\ wrote[s] \in Nat /\ HeaderCount(s) \in {1, 2} /\ (handle[s] = "open" => Frames(s) = 1 + HeaderCount(s) + wrote[s])
<1>1. wrote[s] \in Nat /\ HeaderCount(s) \in {1, 2}
  BY DEF PeerTypeOK, TypeOK, HeaderCount
<1>2. PICK a \in Nat, b \in Nat : a = wrote[s] /\ b = HeaderCount(s)
  BY <1>1
<1>3. 1 + b + a \in Nat
  BY <1>2
<1>4. Frames(s) \in {0, 1, 2, 1 + b + a} /\ (handle[s] = "open" => Frames(s) = 1 + b + a)
  BY <1>2 DEF Frames
<1> QED
  BY <1>1, <1>2, <1>3, <1>4

\* A frame of another stream, or none, keeps what a stream has sent.
LEMMA LinkedOther ==
  ASSUME NEW w \in Seq(Frame), NEW f \in Frame, NEW s \in Streams, Linked(w, s), Same(s), f.sid # s
  PROVE  Linked(w, s)' /\ Linked(Append(w, f), s)'
<1>1. Linked(w, s)'
  BY DEF Linked, Same
<1>2. PICK v : v = Append(w, f)
  OBVIOUS
<1>3. /\ FramesUpTo(v, s, Len(v)) = FramesUpTo(w, s, Len(w)) /\ DataUpTo(v, s, Len(v)) = DataUpTo(w, s, Len(w))
  BY <1>2, UpToAppend DEF IsData
<1>4. \A i \in 1 .. Len(v) : v[i].sid = s => i \in 1 .. Len(w) /\ v[i] = w[i]
  BY <1>2
<1>5. Linked(v, s)'
  BY <1>1, <1>3, <1>4 DEF Linked
<1> QED
  BY <1>1, <1>2, <1>5

\* A step that sends nothing keeps it all.
LEMMA PipeQuiet ==
  ASSUME NEW w \in Seq(Frame), PipeOk(w), \A s \in Streams : Same(s)
  PROVE  PipeOk(w)'
<1>1. ASSUME NEW s \in Streams PROVE Linked(w, s)'
  BY DEF PipeOk, Linked, Same
<1> QED
  BY <1>1 DEF PipeOk, WireOk

\* A step that sends f.
LEMMA PipeSend ==
  ASSUME NEW w \in Seq(Frame), NEW f \in Frame, PipeOk(w), Mine(f), f.sid \in Streams => Fits(w, f) /\ Linked(Append(w, f), f.sid)',
         \A t \in Streams : t # f.sid => Same(t)
  PROVE  PipeOk(Append(w, f))'
<1>1. WireOk(Append(w, f)) /\ Append(w, f) # <<>>
  BY OkAppend DEF PipeOk
<1>2. ASSUME NEW t \in Streams PROVE Linked(Append(w, f), t)'
  <2>1. CASE t = f.sid
    BY <2>1
  <2>2. CASE t # f.sid
    BY <2>2, LinkedOther DEF PipeOk
  <2> QED
    BY <2>1, <2>2
<1> QED
  BY <1>1, <1>2 DEF PipeOk

\* What a stream whose handle is open, or on the way to be, has sent.
LEMMA SentType ==
  ASSUME PeerTypeOK, NEW s \in Streams, NEW w \in Seq(Frame), PipeOk(w), Going(s), NEW f \in Frame, f.sid = s
  PROVE  /\ FramesUpTo(w, s, Len(w)) = Frames(s) /\ DataUpTo(w, s, Len(w)) = wrote[s]
         /\ Frames(s) \in Nat /\ wrote[s] \in Nat /\ HeaderCount(s) \in {1, 2}
         /\ FramesUpTo(Append(w, f), s, Len(Append(w, f))) = Frames(s) + 1
         /\ IsData(f, s) => DataUpTo(Append(w, f), s, Len(Append(w, f))) = wrote[s] + 1
         /\ ~IsData(f, s) => DataUpTo(Append(w, f), s, Len(Append(w, f))) = wrote[s]
         /\ \A i \in 1 .. Len(w) : w[i].sid = s => w[i].cmd # "Fin"
         /\ f.cmd # "Fin" => \A i \in 1 .. Len(Append(w, f)) : Append(w, f)[i].sid = s => Append(w, f)[i].cmd # "Fin"
         /\ handle[s] # "open" => wrote[s] = 0
         /\ handle[s] = "uot" => s \in UdpStreams
<1>1. Linked(w, s)
  BY DEF PipeOk
<1>2. Frames(s) \in Nat /\ wrote[s] \in Nat /\ HeaderCount(s) \in {1, 2}
  BY FramesType
<1>3. /\ FramesUpTo(w, s, Len(w)) = Frames(s) /\ DataUpTo(w, s, Len(w)) = wrote[s]
      /\ \A i \in 1 .. Len(w) : w[i].sid = s => w[i].cmd # "Fin"
      /\ handle[s] # "open" => wrote[s] = 0
      /\ handle[s] = "uot" => s \in UdpStreams
  BY <1>1 DEF Linked
<1>4. ASSUME f.cmd # "Fin", NEW i \in 1 .. Len(Append(w, f)), Append(w, f)[i].sid = s PROVE Append(w, f)[i].cmd # "Fin"
  <2>1. (i \in 1 .. Len(w) /\ Append(w, f)[i] = w[i]) \/ Append(w, f)[i] = f
    BY <1>4
  <2> QED
    BY <1>3, <1>4, <2>1
<1>5. /\ FramesUpTo(Append(w, f), s, Len(Append(w, f))) = FramesUpTo(w, s, Len(w)) + 1
      /\ IsData(f, s) => DataUpTo(Append(w, f), s, Len(Append(w, f))) = DataUpTo(w, s, Len(w)) + 1
      /\ ~IsData(f, s) => DataUpTo(Append(w, f), s, Len(Append(w, f))) = DataUpTo(w, s, Len(w))
  BY UpToAppend
<1> QED
  BY <1>2, <1>3, <1>4, <1>5

\* A step that appends at most one frame to the write queue, one that may come next.
Accepts(w) ==
    \/ writeQ' = writeQ /\ PipeOk(w)'
    \/ \E f \in Frame : writeQ' = Append(writeQ, f) /\ PipeOk(Append(w, f))'

\* A connect call sends its stream's SYN first and then its headers.
LEMMA ConnectPipe ==
  ASSUME PeerTypeOK, NEW w \in Seq(Frame), PipeOk(w), NEW s \in Streams, Connect(s)
  PROVE  Accepts(w)
<1>1. /\ handle \in [Streams -> {"none", "registered", "synned", "uot", "open", "failed", "dropped"}]
      /\ wrote \in [Streams -> Nat] /\ s # 0
  BY StreamsAssumption DEF PeerTypeOK, TypeOK
<1>2. CASE Register(s) \/ ConnectFails(s)
  <2>1. /\ writeQ' = writeQ /\ wrote' = wrote /\ finSent' = finSent
        /\ (handle[s] = "none" /\ handle' = [handle EXCEPT ![s] = "registered"]) \/ handle' = [handle EXCEPT ![s] = "failed"]
    BY <1>2 DEF Register, ConnectFails, writeVars
  <2>2. ASSUME NEW t \in Streams PROVE Same(t)
    BY <1>1, <2>1 DEF Same, Going, Frames
  <2> QED
    BY <2>1, <2>2, PipeQuiet DEF Accepts
<1>3. ASSUME NEW f \in Frame, f.sid = s, NEW h \in {"synned", "uot", "open"}, writeQ' = Append(writeQ, f), wrote' = wrote, finSent' = finSent,
             handle' = [handle EXCEPT ![s] = h], handle[s] \in {"registered", "synned", "uot"}, f.cmd \in {"Syn", "Psh"}, f.n = 0,
             f.cmd = "Syn" <=> handle[s] = "registered", h = "synned" <=> handle[s] = "registered",
             h = "open" => Frames(s) = HeaderCount(s), h = "uot" => handle[s] = "synned" /\ s \in UdpStreams
      PROVE  Accepts(w)
  <2>1. Going(s)
    BY <1>3 DEF Going
  <2>2. /\ FramesUpTo(w, s, Len(w)) = Frames(s) /\ DataUpTo(w, s, Len(w)) = wrote[s] /\ wrote[s] = 0
        /\ Frames(s) \in Nat /\ HeaderCount(s) \in {1, 2} /\ ~IsData(f, s)
        /\ FramesUpTo(Append(w, f), s, Len(Append(w, f))) = Frames(s) + 1
        /\ DataUpTo(Append(w, f), s, Len(Append(w, f))) = wrote[s]
        /\ \A i \in 1 .. Len(w) : w[i].sid = s => w[i].cmd # "Fin"
        /\ \A i \in 1 .. Len(Append(w, f)) : Append(w, f)[i].sid = s => Append(w, f)[i].cmd # "Fin"
        /\ handle[s] = "uot" => s \in UdpStreams
    BY <1>3, <2>1, SentType DEF IsData, Header
  <2>3. /\ Frames(s) = 0 <=> handle[s] = "registered"
        /\ Frames(s) <= HeaderCount(s)
    BY <1>3, <2>2 DEF Frames, HeaderCount
  <2>4. Fits(w, f)
    BY <1>3, <2>2, <2>3 DEF Fits, Header
  <2>5. handle'[s] = h
    BY <1>1, <1>3
  <2>6. Frames(s)' = Frames(s) + 1
    BY <1>3, <2>2, <2>5 DEF Frames, HeaderCount
  <2>7. Linked(Append(w, f), s)'
    BY <1>3, <2>2, <2>5, <2>6 DEF Linked
  <2>8. ASSUME NEW t \in Streams, t # s PROVE Same(t)
    BY <1>1, <1>3, <2>8 DEF Same, Going, Frames
  <2>9. Mine(f)
    BY <1>3 DEF Mine
  <2>10. PipeOk(Append(w, f))'
    BY <1>3, <2>4, <2>7, <2>8, <2>9, PipeSend
  <2> QED
    BY <1>3, <2>10 DEF Accepts
<1>4. CASE SendSyn(s)
  <2>1. MkFrame("Syn", s, 0) \in Frame /\ MkFrame("Syn", s, 0).sid = s /\ MkFrame("Syn", s, 0).cmd = "Syn" /\ MkFrame("Syn", s, 0).n = 0
    BY FrameType DEF MkFrame, Command
  <2> QED
    BY <1>3, <1>4, <2>1 DEF SendSyn
<1>5. CASE SendTarget(s) \/ SendUotRequest(s)
  <2>1. /\ MkFrame("Psh", s, Header) \in Frame /\ MkFrame("Psh", s, Header).sid = s
        /\ MkFrame("Psh", s, Header).cmd = "Psh" /\ MkFrame("Psh", s, Header).n = 0
    BY FrameType DEF MkFrame, Command, Header
  <2>2. CASE SendTarget(s)
    <3>1. s \notin UdpStreams => Frames(s) = HeaderCount(s)
      BY <2>2 DEF SendTarget, Frames, HeaderCount
    <3> QED
      BY <1>3, <2>1, <2>2, <3>1 DEF SendTarget
  <2>3. CASE SendUotRequest(s)
    <3>1. s \in UdpStreams /\ handle[s] = "uot"
      BY <2>3 DEF SendUotRequest, PipeOk, Linked, Going
    <3>2. Frames(s) = HeaderCount(s)
      BY <3>1 DEF Frames, HeaderCount
    <3> QED
      BY <1>3, <2>1, <2>3, <3>2 DEF SendUotRequest
  <2> QED
    BY <1>5, <2>2, <2>3
<1> QED
  BY <1>2, <1>4, <1>5 DEF Connect

\* A relay's payloads follow, numbered, and then the FIN.
LEMMA RelayPipe ==
  ASSUME PeerTypeOK, NEW w \in Seq(Frame), PipeOk(w), NEW s \in Streams, Relay(s)
  PROVE  Accepts(w)
<1>1. /\ handle \in [Streams -> {"none", "registered", "synned", "uot", "open", "failed", "dropped"}]
      /\ wrote \in [Streams -> Nat] /\ s # 0 /\ finSent \in [Streams -> BOOLEAN]
  BY StreamsAssumption DEF PeerTypeOK, TypeOK
<1>2. CASE Read(s) \/ ReadEnd(s)
  <2>1. writeQ' = writeQ /\ wrote' = wrote /\ finSent' = finSent /\ handle' = handle
    BY <1>2 DEF Read, ReadEnd, writeVars
  <2>2. ASSUME NEW t \in Streams PROVE Same(t)
    BY <2>1 DEF Same, Going, Frames
  <2> QED
    BY <2>1, <2>2, PipeQuiet DEF Accepts
<1>3. CASE Write(s)
  <2>1. PICK f : f = MkFrame("Psh", s, wrote[s] + 1)
    OBVIOUS
  <2>2. f \in Frame /\ f.sid = s /\ f.cmd = "Psh" /\ f.n = wrote[s] + 1 /\ wrote[s] \in Nat
    BY <1>1, <2>1, FrameType DEF MkFrame, Command
  <2>3. /\ Going(s) /\ handle[s] = "open" /\ writeQ' = Append(writeQ, f) /\ handle' = handle /\ finSent' = finSent
        /\ wrote' = [wrote EXCEPT ![s] = @ + 1]
    BY <1>3, <2>1 DEF Write, Going
  <2>4. IsData(f, s)
    BY <2>2 DEF IsData, Header
  <2>5. /\ FramesUpTo(w, s, Len(w)) = Frames(s) /\ DataUpTo(w, s, Len(w)) = wrote[s]
        /\ Frames(s) \in Nat /\ HeaderCount(s) \in {1, 2}
        /\ FramesUpTo(Append(w, f), s, Len(Append(w, f))) = Frames(s) + 1
        /\ DataUpTo(Append(w, f), s, Len(Append(w, f))) = wrote[s] + 1
        /\ \A i \in 1 .. Len(w) : w[i].sid = s => w[i].cmd # "Fin"
        /\ \A i \in 1 .. Len(Append(w, f)) : Append(w, f)[i].sid = s => Append(w, f)[i].cmd # "Fin"
    BY <2>2, <2>3, <2>4, SentType
  <2>6. PICK a \in Nat, h \in Nat : a = wrote[s] /\ h = HeaderCount(s)
    BY <2>2, <2>5
  <2>7. Frames(s) = 1 + h + a /\ wrote'[s] = a + 1 /\ Frames(s)' = 1 + h + (a + 1)
    BY <1>1, <2>3, <2>6 DEF Frames, HeaderCount
  <2>8. 1 + h + a # 0 /\ ~(1 + h + a <= h) /\ (1 + h + a) - h = a + 1 /\ 1 + h + (a + 1) = (1 + h + a) + 1
    BY <2>6
  <2>9. Fits(w, f)
    BY <2>2, <2>5, <2>6, <2>7, <2>8 DEF Fits
  <2>10. Linked(Append(w, f), s)'
    BY <2>3, <2>5, <2>6, <2>7, <2>8 DEF Linked
  <2>11. ASSUME NEW t \in Streams, t # s PROVE Same(t)
    BY <1>1, <2>3, <2>11 DEF Same, Going, Frames
  <2>12. Mine(f)
    BY <2>2 DEF Mine
  <2>13. PipeOk(Append(w, f))'
    BY <2>2, <2>9, <2>10, <2>11, <2>12, PipeSend
  <2> QED
    BY <2>2, <2>3, <2>13 DEF Accepts
<1>4. CASE Shutdown(s) \/ Drop(s)
  <2>1. PICK f : f = MkFrame("Fin", s, 0)
    OBVIOUS
  <2>2. f \in Frame /\ f.sid = s /\ f.cmd = "Fin" /\ f.n = 0 /\ ~IsData(f, s) /\ Mine(f)
    BY <2>1, FrameType DEF MkFrame, Command, IsData, Mine
  <2>3. /\ ~Going(s)' /\ handle[s] = "open"
        /\ \A t \in Streams : t # s => handle'[t] = handle[t] /\ finSent'[t] = finSent[t] /\ wrote'[t] = wrote[t]
        /\ writeQ' \in {writeQ, Append(writeQ, f)} /\ (writeQ' # writeQ => ~finSent[s])
    BY <1>1, <1>4, <2>1 DEF Shutdown, Drop, Going, TrySend
  <2>4. ASSUME NEW t \in Streams PROVE Same(t)
    BY <2>3 DEF Same, Going, Frames
  <2>5. CASE writeQ' = writeQ
    BY <2>4, <2>5, PipeQuiet DEF Accepts
  <2>6. CASE writeQ' # writeQ
    <3>1. Going(s) /\ writeQ' = Append(writeQ, f)
      BY <2>3, <2>6 DEF Going
    <3>2. /\ FramesUpTo(w, s, Len(w)) = Frames(s) /\ Frames(s) \in Nat /\ wrote[s] \in Nat /\ HeaderCount(s) \in {1, 2}
          /\ \A i \in 1 .. Len(w) : w[i].sid = s => w[i].cmd # "Fin"
      BY <2>2, <3>1, SentType
    <3>3. Frames(s) # 0
      BY <2>3, <3>2, FramesType
    <3>4. Fits(w, f)
      BY <2>2, <3>2, <3>3 DEF Fits
    <3>5. Linked(Append(w, f), s)'
      BY <2>3 DEF Linked
    <3>6. PipeOk(Append(w, f))'
      BY <2>2, <2>4, <3>4, <3>5, PipeSend
    <3> QED
      BY <2>2, <3>1, <3>6 DEF Accepts
  <2> QED
    BY <2>5, <2>6
<1> QED
  BY <1>2, <1>3, <1>4 DEF Relay

\* The write loop moves frames towards the wire in order; what reaches it is a prefix.
LEMMA WriteTaskPipe ==
  ASSUME PeerTypeOK, WireInv, WriteTask
  PROVE  WireInv'
<1>1. writeQ \in Seq(Frame) /\ buffer \in Seq(Frame) /\ wireOut \in Seq(Frame) /\ rxOpen \in BOOLEAN /\ broken \in BOOLEAN
  BY DEF PeerTypeOK, TypeOK
<1>2. handle' = handle /\ wrote' = wrote /\ finSent' = finSent /\ broken' = broken
  BY DEF WriteTask, TakeFrames, Flush, WriteBreak, WriteFinish, WriteClear, callVars, wireVars
<1>3. ASSUME NEW t \in Streams PROVE Same(t)
  BY <1>2 DEF Same, Going, Frames
<1>4. ASSUME wireOut' = wireOut, Pipe' = Pipe, rxOpen' = rxOpen, rxOpen \/ wpc' \notin {"recv", "flush"} PROVE WireInv'
  <2>1. WireOk(wireOut')
    BY <1>4 DEF WireInv
  <2>2. Pipe \in Seq(Frame)
    BY <1>1 DEF Pipe
  <2>3. ASSUME rxOpen, ~broken PROVE PipeOk(Pipe)'
    <3>1. PICK w \in Seq(Frame) : w = Pipe
      BY <2>2
    <3>2. PipeOk(w)
      BY <2>3, <3>1 DEF WireInv, PipeOk
    <3>3. PipeOk(w)'
      BY <1>3, <3>2, PipeQuiet
    <3> QED
      BY <1>4, <3>1, <3>3
  <2> QED
    BY <1>2, <1>4, <2>1, <2>3 DEF WireInv, PipeOk
<1>5. CASE TakeFrames
  <2>1. /\ wireOut' = wireOut /\ rxOpen' = rxOpen /\ writeQ # <<>> /\ wpc = "recv"
    BY <1>5 DEF TakeFrames, wireVars
  <2>2. Pipe' = Pipe
    <3>1. CASE buffering /\ Head(writeQ).cmd # "Psh"
      <4>1. buffer' = Append(buffer, Head(writeQ)) /\ writeQ' = Tail(writeQ)
        BY <1>5, <3>1 DEF TakeFrames
      <4> QED
        BY <1>1, <2>1, <4>1, ConcatTake DEF Pipe
    <3>2. CASE ~(buffering /\ Head(writeQ).cmd # "Psh")
      <4>1. PICK k \in 1 .. Len(writeQ) :
              buffer' = buffer \o SubSeq(writeQ, 1, k) /\ writeQ' = SubSeq(writeQ, k + 1, Len(writeQ))
        BY <1>5, <3>2 DEF TakeFrames
      <4> QED
        BY <1>1, <2>1, <4>1, ConcatBatch DEF Pipe
    <3> QED
      BY <3>1, <3>2
  <2>3. rxOpen
    BY <1>1, <2>1 DEF WireInv
  <2> QED
    BY <1>4, <2>1, <2>2, <2>3
<1>6. CASE Flush
  <2>1. /\ wireOut' = IF broken THEN wireOut ELSE wireOut \o buffer
        /\ rxOpen' = rxOpen /\ writeQ' = writeQ /\ buffer' = <<>> /\ wpc = "flush"
    BY <1>6 DEF Flush
  <2>2. rxOpen
    BY <1>1, <2>1 DEF WireInv
  <2>3. CASE broken
    <3>1. WireOk(wireOut)'
      BY <2>1, <2>3 DEF WireInv
    <3> QED
      BY <1>2, <2>1, <2>2, <2>3, <3>1 DEF WireInv
  <2>4. CASE ~broken
    <3>1. wireOut \o buffer \in Seq(Frame) /\ wireOut' = wireOut \o buffer /\ (wireOut \o buffer) \o <<>> = wireOut \o buffer
      BY <1>1, <2>1, <2>4, ConcatPrefix
    <3>2. Pipe' = Pipe
      BY <2>1, <3>1 DEF Pipe
    <3>9. Pipe \in Seq(Frame)
      BY <1>1 DEF Pipe
    <3>3. PICK w \in Seq(Frame) : w = Pipe
      BY <3>9
    <3>4. PipeOk(w)
      BY <2>2, <2>4, <3>3 DEF WireInv, PipeOk
    <3>5. PipeOk(w)'
      BY <1>3, <3>4, PipeQuiet
    <3>6. PICK u \in Seq(Frame) : u = wireOut \o buffer
      BY <3>1
    <3>7. Len(u) <= Len(w) /\ \A j \in 1 .. Len(u) : u[j] = w[j]
      BY <1>1, <3>3, <3>6, ConcatPrefix DEF Pipe
    <3>8. WireOk(u)
      BY <3>4, <3>7, OkPrefix DEF PipeOk
    <3> QED
      BY <1>2, <2>1, <2>2, <3>1, <3>2, <3>3, <3>5, <3>6, <3>8 DEF WireInv, PipeOk
  <2> QED
    BY <2>3, <2>4
<1>7. CASE WriteBreak
  BY <1>7 DEF WriteBreak, WireInv, wireVars
<1>8. CASE WriteFinish \/ WriteClear
  <2>1. wireOut' = wireOut /\ Pipe' = Pipe /\ rxOpen' = rxOpen /\ wpc' \notin {"recv", "flush"}
    BY <1>8 DEF WriteFinish, WriteClear, wireVars, Pipe
  <2> QED
    BY <1>4, <2>1
<1> QED
  BY <1>5, <1>6, <1>7, <1>8 DEF WriteTask

\* Every step keeps the order of what the session sends.
LEMMA WireStep ==
  ASSUME PeerTypeOK, WireInv, [Next]_allVars
  PROVE  WireInv'
<1>1. writeQ \in Seq(Frame) /\ buffer \in Seq(Frame) /\ wireOut \in Seq(Frame) /\ rxOpen \in BOOLEAN /\ broken \in BOOLEAN
  BY DEF PeerTypeOK, TypeOK
<1>0. Pipe \in Seq(Frame)
  BY <1>1 DEF Pipe
<1>2. PICK w \in Seq(Frame) : w = Pipe
  BY <1>0
<1>3. rxOpen /\ ~broken => PipeOk(w)
  BY <1>2 DEF WireInv, PipeOk
<1>4. ASSUME UNCHANGED <<wireOut, buffer, rxOpen, wpc>>, broken' \in {broken, TRUE}, rxOpen /\ ~broken => Accepts(w)
      PROVE  WireInv'
  <2>1. CASE rxOpen /\ ~broken' /\ ~broken
    <3>1. CASE writeQ' = writeQ /\ PipeOk(w)'
      <4>1. Pipe' = w
        BY <1>2, <1>4, <3>1 DEF Pipe
      <4> QED
        BY <1>4, <3>1, <4>1 DEF WireInv, PipeOk
    <3>2. ASSUME NEW f \in Frame, writeQ' = Append(writeQ, f), PipeOk(Append(w, f))' PROVE WireInv'
      <4>1. Pipe' = Append(w, f)
        BY <1>1, <1>2, <1>4, <3>2, ConcatAppend DEF Pipe
      <4> QED
        BY <1>4, <3>2, <4>1 DEF WireInv, PipeOk
    <3> QED
      BY <1>4, <2>1, <3>1, <3>2 DEF Accepts
  <2>2. CASE ~(rxOpen /\ ~broken')
    BY <1>4, <2>2 DEF WireInv
  <2>3. ~broken' => ~broken
    BY <1>4
  <2> QED
    BY <2>1, <2>2, <2>3
<1>5. ASSUME UNCHANGED <<wireOut, buffer, rxOpen, wpc, writeQ, handle, wrote, finSent>>, broken' \in {broken, TRUE}
      PROVE  WireInv'
  <2>1. ASSUME NEW t \in Streams PROVE Same(t)
    BY <1>5 DEF Same, Going, Frames
  <2>2. rxOpen /\ ~broken => Accepts(w)
    BY <1>3, <1>5, <2>1, PipeQuiet DEF Accepts
  <2> QED
    BY <1>4, <1>5, <2>2
<1>6. CASE UNCHANGED allVars
  BY <1>5, <1>6 DEF allVars, vars
<1>7. ASSUME NEW s \in Streams, Connect(s) PROVE WireInv'
  <2>1. UNCHANGED <<wireOut, buffer, rxOpen, wpc, broken>>
    BY <1>7 DEF Connect, Register, SendSyn, SendTarget, SendUotRequest, ConnectFails, writeVars, wireVars
  <2>2. rxOpen /\ ~broken => Accepts(w)
    BY <1>3, <1>7, ConnectPipe
  <2> QED
    BY <1>4, <2>1, <2>2
<1>8. ASSUME NEW s \in Streams, Relay(s) PROVE WireInv'
  <2>1. UNCHANGED <<wireOut, buffer, rxOpen, wpc, broken>>
    BY <1>8 DEF Relay, Read, ReadEnd, Write, Shutdown, Drop, writeVars, wireVars
  <2>2. rxOpen /\ ~broken => Accepts(w)
    BY <1>3, <1>8, RelayPipe
  <2> QED
    BY <1>4, <2>1, <2>2
<1>9. CASE ReadTask
  <2>1. CASE ReadFrame
    <3>1. PICK f : f = MkFrame("HeartResponse", 0, 0)
      OBVIOUS
    <3>2. f \in Frame /\ f.sid = 0 /\ f.cmd = "HeartResponse" /\ Mine(f)
      BY <3>1, FrameType DEF MkFrame, Command, Mine
    <3>3. /\ UNCHANGED <<wireOut, buffer, rxOpen, wpc, broken, handle, wrote, finSent>>
          /\ writeQ' \in {writeQ, TrySend(writeQ, f)}
      BY <2>1, <3>1 DEF ReadFrame, callVars
    <3>4. ASSUME NEW t \in Streams PROVE Same(t) /\ t # 0
      BY <3>3, StreamsAssumption DEF Same, Going, Frames
    <3>5. ASSUME rxOpen, ~broken PROVE Accepts(w)
      <4>1. PipeOk(w)' /\ PipeOk(Append(w, f))'
        BY <1>3, <3>2, <3>4, <3>5, PipeQuiet, PipeSend
      <4>2. writeQ' = writeQ \/ writeQ' = Append(writeQ, f)
        BY <3>3 DEF TrySend
      <4> QED
        BY <3>2, <4>1, <4>2 DEF Accepts
    <3> QED
      BY <1>4, <3>3, <3>5
  <2>2. CASE PushData \/ ReadBreak \/ ReadFinish \/ ReadClear
    BY <1>5, <2>2 DEF PushData, ReadBreak, ReadFinish, ReadClear, callVars, writeVars, wireVars
  <2> QED
    BY <1>9, <2>1, <2>2 DEF ReadTask
<1>10. CASE OutsideFinish \/ OutsideClear
  BY <1>5, <1>10 DEF OutsideFinish, OutsideClear, callVars, writeVars, wireVars
<1>11. CASE PeerControl \/ ConnectionLost \/ \E t \in Streams : PeerPsh(t) \/ PeerEnd(t)
  BY <1>5, <1>11 DEF PeerControl, ConnectionLost, PeerPsh, PeerEnd, clientVars
<1> QED
  BY <1>6, <1>7, <1>8, <1>9, <1>10, <1>11, WriteTaskPipe DEF Next, Client, ClientNext, Ended

\* A session starts with its settings queued.
LEMMA StartsInOrder == PeerInit => WireInv
<1> SUFFICES ASSUME PeerInit PROVE WireInv
  OBVIOUS
<1>1. PICK f : f = MkFrame("Settings", 0, 0)
  OBVIOUS
<1>2. f \in Frame /\ f.sid = 0 /\ f.cmd = "Settings" /\ Mine(f)
  BY <1>1, FrameType DEF MkFrame, Command, Mine
<1>3. wireOut = <<>> /\ Pipe = <<f>> /\ rxOpen
  BY <1>1, <1>2 DEF PeerInit, Init, Pipe
<1>4. WireOk(<<>>)
  BY DEF WireOk
<1>5. <<f>> \in Seq(Frame) /\ Len(<<f>>) = 1 /\ <<f>>[1] = f
  BY <1>2
<1>6. \A s \in Streams : s # 0
  BY StreamsAssumption
<1>7. WireOk(<<f>>)
  BY <1>2, <1>5, <1>6 DEF WireOk, GoodAt
<1>8. ASSUME NEW s \in Streams PROVE Linked(<<f>>, s)
  <2>1. handle[s] = "none" /\ wrote[s] = 0
    BY DEF PeerInit, Init
  <2>2. FramesUpTo(<<f>>, s, 0) = 0 /\ DataUpTo(<<f>>, s, 0) = 0
    BY <1>5, UpToZero
  <2>3. <<f>>[0 + 1].sid # s /\ ~IsData(<<f>>[0 + 1], s)
    BY <1>2, <1>5, <1>6 DEF IsData
  <2>4. FramesUpTo(<<f>>, s, 0 + 1) = 0 /\ DataUpTo(<<f>>, s, 0 + 1) = 0
    BY <1>5, <2>2, <2>3, UpToStep
  <2> QED
    BY <1>2, <1>5, <2>1, <2>4 DEF Linked, Frames
<1> QED
  BY <1>3, <1>4, <1>5, <1>7, <1>8 DEF WireInv

\* The frames of every stream leave in protocol order: its SYN, its headers, its payloads
\* in the order they were written and its FIN, each once, however the calls and relays of
\* all streams interleave and wherever the write loop cuts its batches.
THEOREM SendsInOrder == Spec => []WireOrder
<1>1. PeerInit => WireInv
  BY StartsInOrder
<1>2. PeerTypeOK /\ WireInv => WireOrder
  BY DEF PeerTypeOK, TypeOK, WireInv, WireOk, GoodAt, WireOrder
<1> QED
  BY <1>1, <1>2, WireStep, SessionType, PTL DEF Spec
=============================================================================
