------------------------- MODULE AnytlsSessionPeer -------------------------
(***************************************************************************)
(* The client session of AnytlsSession against any AnyTLS server that      *)
(* keeps the protocol: it sends frames only for streams whose SYN reached  *)
(* it and nothing for a stream after ending it.  The connection may fail.  *)
(***************************************************************************)
EXTENDS AnytlsSession

CONSTANTS
    MaxDown,    \* bound: payloads the server sends per stream
    MaxControl  \* bound: frames that end no stream and carry no payload

ASSUME PeerAssumption == MaxDown \in Nat /\ MaxControl \in Nat

VARIABLES
    down,     \* payloads the server has sent on each stream
    downEnd,  \* the server has ended the stream (FIN or a SYNACK error)
    control   \* such frames the server has sent

peerVars == <<down, downEnd, control>>
allVars == <<vars, peerVars>>

PeerInit ==
    /\ Init
    /\ down = [s \in Streams |-> 0]
    /\ downEnd = [s \in Streams |-> FALSE]
    /\ control = 0

SynArrived(s) == \E i \in DOMAIN wireOut : wireOut[i] = MkFrame("Syn", s, 0)

\* What is sent to a session that no longer reads, or over a failed
\* connection, never arrives.
Arrives == ~broken /\ rpc \in {"read", "push"}

PeerPsh(s) ==
    /\ SynArrived(s) /\ ~downEnd[s] /\ Arrives
    /\ down[s] < MaxDown
    /\ down' = [down EXCEPT ![s] = @ + 1]
    /\ wireIn' = Append(wireIn, MkFrame("Psh", s, down[s] + 1))
    /\ UNCHANGED <<clientVars, wireOut, broken, downEnd, control>>

PeerEnd(s) ==
    /\ SynArrived(s) /\ ~downEnd[s] /\ Arrives
    /\ downEnd' = [downEnd EXCEPT ![s] = TRUE]
    /\ \E f \in {MkFrame("Fin", s, 0), MkFrame("SynAck", s, 1)} :
          wireIn' = Append(wireIn, f)
    /\ UNCHANGED <<clientVars, wireOut, broken, down, control>>

\* Alerts, heartbeats, the frames the client ignores and empty SYNACKs.
ControlFrames ==
    {MkFrame(cmd, 0, 0) : cmd \in {"Alert", "HeartRequest", "Other"}}
        \cup {MkFrame("SynAck", s, 0) : s \in {t \in Streams : SynArrived(t)}}

PeerControl ==
    /\ control < MaxControl /\ Arrives
    /\ control' = control + 1
    /\ \E f \in ControlFrames : wireIn' = Append(wireIn, f)
    /\ UNCHANGED <<clientVars, wireOut, broken, down, downEnd>>

ConnectionLost ==
    /\ ~broken
    /\ broken' = TRUE
    /\ UNCHANGED <<clientVars, wireOut, wireIn, peerVars>>

Client == ClientNext /\ UNCHANGED peerVars

\* Nothing is left to run: both tasks have ended and every call has returned.
Ended ==
    /\ wpc = "done" /\ rpc = "done" /\ broken /\ xpc # "clear"
    /\ \A s \in Streams : handle[s] \in {"failed", "dropped"}
    /\ UNCHANGED allVars

Next ==
    \/ Client
    \/ \E s \in Streams : PeerPsh(s) \/ PeerEnd(s)
    \/ PeerControl
    \/ ConnectionLost
    \/ Ended

Spec == PeerInit /\ [][Next]_allVars

\* connect_stream or connect_packet after register_stream.
Connecting(s) == handle[s] # "none" /\ Connect(s)

\* The runtime polls every ready task, a caller polls the connect call it
\* waits for or drops it, and a relay polls the streams it copies.  Fairness
\* of Flush \/ WriteBreak: a TLS write ends or fails.
Fairness ==
    /\ WF_allVars(WriteTask /\ UNCHANGED peerVars)
    /\ WF_allVars(ReadTask /\ UNCHANGED peerVars)
    /\ WF_allVars(OutsideClear /\ UNCHANGED peerVars)
    /\ \A s \in Streams :
          /\ WF_allVars(Connecting(s) /\ UNCHANGED peerVars)
          /\ WF_allVars((Read(s) \/ ReadEnd(s)) /\ UNCHANGED peerVars)

FairSpec == Spec /\ Fairness

-----------------------------------------------------------------------------
(* Properties *)

\* The state keeps its types, and neither the session's queue of frames nor
\* the event queue of any stream outgrows its channel, whoever sends.
PeerTypeOK ==
    /\ TypeOK
    /\ down \in [Streams -> Nat]
    /\ downEnd \in [Streams -> BOOLEAN]
    /\ control \in Nat

\* Once the write task has ended, no handle that connect_stream returned still
\* has its sender in the map: finish() after the loop clears the map, and a
\* stream registered after that cannot queue its SYN.  So no relay waits for
\* ever on a session that is gone, whichever of the loops, the interface
\* watcher or a connect call came first.
NoStrandedStream ==
    wpc = "done" => \A s \in Streams : handle[s] = "open" => s \notin streams

\* While the session lives, the payloads a relay has read are the first ones
\* the server sent, in order; it sees the end of the stream only if the server
\* ended it and only after the last payload, even when the FIN found the
\* stream's queue full.
ReadsWhatWasSent ==
    \A s \in Streams :
        /\ Len(got[s]) <= down[s]
        /\ \A i \in 1 .. Len(got[s]) : got[s][i] = i
        /\ (reader[s] # "reading" /\ ~closed /\ rpc \in {"read", "push"})
              => downEnd[s] /\ Len(got[s]) = down[s]

HeaderCount(s) == IF s \in UdpStreams THEN 2 ELSE 1

\* How many of the first i frames of w are frames of stream s.
FramesUpTo(w, s, i) == Cardinality({j \in 1 .. i : w[j].sid = s})

\* Frame i of w comes where the protocol puts it among its stream's frames.
InPlace(w, i) ==
    LET f == w[i]
        k == FramesUpTo(w, f.sid, i)
        h == HeaderCount(f.sid)
    IN  /\ f.cmd = "Syn" <=> k = 1
        /\ \A j \in 1 .. i - 1 : w[j].sid = f.sid => w[j].cmd # "Fin"
        /\ f.cmd = "Psh" => f.n = (IF k - 1 <= h THEN Header ELSE k - 1 - h)

\* The frames of a stream on the wire are SYN, its headers, its payloads in
\* the order the relay wrote them, and at most one FIN, which is the last; the
\* session's first frame is its settings.
WireOrder ==
    /\ wireOut # <<>> => wireOut[1].cmd = "Settings"
    /\ \A i \in DOMAIN wireOut : wireOut[i].sid \in Streams => InPlace(wireOut, i)

\* A session that was told to close, or whose connection failed, ends: both
\* tasks return and every stream that is still open reports an end.
EndsAfterClose ==
    closed ~> /\ wpc = "done" /\ rpc = "done"
              /\ \A s \in Streams : handle[s] = "open" => reader[s] # "reading"

\* The end of a stream that the server has sent (FIN or a refusing SYNACK)
\* reaches its reader: read_loop tries to queue the event and removes the
\* sender, so the end is seen even where the queue had no room for the event.
EndReachesReader ==
    \A s \in Streams : downEnd[s] ~> (handle[s] = "open" => reader[s] # "reading")

\* A session made for one call (disable_mux) ends once the handle that call
\* returned has been dropped: unregister_stream finds the map empty.
SingleUseEnds ==
    \A s \in Streams :
        CloseWhenIdle /\ handle[s] = "dropped" ~> wpc = "done" /\ rpc = "done"

\* A session ends with all its tasks, after whatever closes it and after the drop of
\* the only stream it was made for, and the end of a stream reaches its reader.
SessionEnds == EndsAfterClose /\ SingleUseEnds /\ EndReachesReader
=============================================================================
