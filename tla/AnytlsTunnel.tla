---------------------------- MODULE AnytlsTunnel ----------------------------
(***************************************************************************)
(* A client session (AnytlsSession) and a server session (AnytlsInbound)   *)
(* of this program at the two ends of one TLS connection.  down, downEnd   *)
(* and control record what the server writes, so that the client's view of *)
(* this system is AnytlsSessionPeer's: the server really is a peer that    *)
(* keeps the protocol.                                                     *)
(***************************************************************************)
EXTENDS AnytlsSessionPeer

VARIABLES inClosed, inState, inQ, task, inReader, inGot, inSent, inFin,
          inWriteQ, inRxOpen, inWpc, inRpc, inCur, upPos

\* Stream ids are 32 bits wide, and the bound on the frames that end no stream leaves
\* room for the server's settings and one SYNACK per stream.
ASSUME TunnelAssumption == IsFiniteSet(Streams) /\ MaxControl > Cardinality(Streams)

Server == INSTANCE AnytlsInbound
    WITH MaxSend <- MaxDown, upWire <- wireOut, downWire <- wireIn, arrives <- Arrives

serverVars == <<inClosed, inState, inQ, task, inReader, inGot, inSent, inFin,
                inWriteQ, inRxOpen, inWpc, inRpc, inCur, upPos>>
tunnelVars == <<allVars, serverVars>>

TunnelInit == PeerInit /\ Server!InInit

\* The history of what the server puts on the wire.
Recorded ==
    IF Len(wireIn') > Len(wireIn)
    THEN LET f == wireIn'[Len(wireIn')] IN
         /\ down' = IF f.cmd = "Psh" THEN [down EXCEPT ![f.sid] = @ + 1] ELSE down
         /\ downEnd' = IF f.cmd = "Fin" THEN [downEnd EXCEPT ![f.sid] = TRUE] ELSE downEnd
         /\ control' = IF f.cmd \in {"Psh", "Fin"} THEN control ELSE control + 1
    ELSE UNCHANGED peerVars

ServerStep(A) == A /\ Recorded /\ UNCHANGED clientVars

ClientStep(A) == A /\ UNCHANGED <<peerVars, serverVars>>

\* Each end drops the connection once both of its tasks have ended; the
\* network may drop it at any time.
HungUp == (wpc = "done" /\ rpc = "done") \/ (inWpc = "done" /\ inRpc = "done")

HangUp == HungUp /\ ConnectionLost /\ UNCHANGED serverVars

NetworkFails == ConnectionLost /\ UNCHANGED serverVars

TunnelEnded ==
    /\ wpc = "done" /\ rpc = "done" /\ inWpc = "done" /\ inRpc = "done"
    /\ broken /\ xpc # "clear"
    /\ \A s \in Streams : /\ handle[s] \in {"failed", "dropped"}
                          /\ task[s] \in {"none", "dropped"}
    /\ UNCHANGED tunnelVars

TunnelNext ==
    \/ ClientStep(ClientNext)
    \/ ServerStep(Server!InNext)
    \/ HangUp
    \/ NetworkFails
    \/ TunnelEnded

TunnelSpec == TunnelInit /\ [][TunnelNext]_tunnelVars

\* Both runtimes poll every ready task, and the relays at both ends read the
\* streams they copy.  Writing, shutting down and dropping are up to them.
TunnelFairness ==
    /\ WF_tunnelVars(ClientStep(WriteTask))
    /\ WF_tunnelVars(ClientStep(ReadTask))
    /\ WF_tunnelVars(ClientStep(OutsideClear))
    /\ WF_tunnelVars(ServerStep(Server!ReadSide))
    /\ WF_tunnelVars(ServerStep(Server!WriteSide))
    /\ WF_tunnelVars(HangUp)
    /\ \A s \in Streams :
          /\ WF_tunnelVars(ClientStep(Connecting(s)))
          /\ WF_tunnelVars(ClientStep(Read(s) \/ ReadEnd(s)))
          /\ WF_tunnelVars(ServerStep(Server!InRead(s) \/ Server!InReadEnd(s)))

FairTunnelSpec == TunnelSpec /\ TunnelFairness

-----------------------------------------------------------------------------
(* Properties *)

\* The server's session is a peer that keeps the protocol, as the client's own
\* properties assume: it sends payloads only on streams whose SYN arrived, in
\* order, and nothing after the end of a stream.
ServerKeepsProtocol == Spec

UpPayloads(s) ==
    Cardinality({i \in DOMAIN wireOut :
        wireOut[i].cmd = "Psh" /\ wireOut[i].sid = s /\ wireOut[i].n # Header})

UpEnded(s) == \E i \in DOMAIN wireOut : wireOut[i] = MkFrame("Fin", s, 0)

\* The dispatch task of a stream reads the payloads the client's relay wrote,
\* in order and without the target or UoT headers; while both sessions live it
\* sees the end only after the client's FIN and all payloads before it.
ServerReadsWhatWasSent ==
    \A s \in Streams :
        /\ \A i \in 1 .. Len(inGot[s]) : inGot[s][i] = i
        /\ Len(inGot[s]) <= UpPayloads(s)
        /\ (inReader[s] = "eof" /\ ~inClosed /\ inRpc \in {"read", "push"})
              => UpEnded(s) /\ Len(inGot[s]) = UpPayloads(s)

\* The end of a stream that the server's relay shuts down reaches the relay at
\* the client: poll_shutdown waits for room for the FIN, and the sender that
\* read_loop removes stands in for a FIN that finds the stream's queue full.
ShutdownReachesClient ==
    \A s \in Streams :
        inFin[s] ~> (handle[s] = "open" => reader[s] # "reading")

\* The same towards the server, where the FIN may also come before the stream's
\* headers or meet a dispatch task that has not read its first payload.
ShutdownReachesServer ==
    \A s \in Streams :
        finSent[s] ~> (task[s] \in {"first", "open"} => inReader[s] # "reading")

\* Closing the client session, for whatever reason, ends the server's too.
CloseReachesServer ==
    closed ~> /\ inWpc = "done" /\ inRpc = "done"
              /\ \A s \in Streams :
                    task[s] \in {"first", "open"} => inReader[s] # "reading"

\* The end of a stream reaches the relay at the other end, in either direction.
ShutdownReachesPeer == ShutdownReachesServer /\ ShutdownReachesClient

\* What ends at one end of the tunnel, a stream or the session, ends at the other.
TunnelEnds == ShutdownReachesPeer /\ CloseReachesServer
=============================================================================
